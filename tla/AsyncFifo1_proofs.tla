-------------------------- MODULE AsyncFifo1_proofs ---------------------------
(***************************************************************************)
(* Proofs about the FIFO between two clocks, for every depth and every set *)
(* of words.                                                               *)
(***************************************************************************)
EXTENDS AsyncFifo1, SequenceTheorems, WellFoundedInduction, TLAPS

-----------------------------------------------------------------------------
(* Induction: every set of numbers has a least one.                        *)
NatLess == {s \in Nat \X Nat : s[1] < s[2]}

LEMMA NatLessWF == IsWellFoundedOn(NatLess, Nat)
BY NatLessThanWellFounded DEF OpToRel, NatLess

LEMMA NatLessIs == \A a, b \in Nat : <<a, b>> \in NatLess <=> a < b
BY DEF NatLess

LEMMA Least ==
  ASSUME NEW S, S \subseteq Nat, S # {}
  PROVE  \E n \in S : \A m \in S : n <= m
<1>1. PICK x \in S : \A y \in S : ~(<<y, x>> \in NatLess)
  BY NatLessWF, WFMin
<1>2. ASSUME NEW y \in S PROVE x <= y
  <2>1. ~(<<y, x>> \in NatLess)
    BY <1>1
  <2>2. x \in Nat /\ y \in Nat
    OBVIOUS
  <2>3. ~(y < x)
    BY <2>1, <2>2, NatLessIs
  <2> QED BY <2>2, <2>3
<1> QED BY <1>2

(* What holds of 0, and of k + 1 if it holds of k, holds up to n.          *)
LEMMA UpTo ==
  ASSUME NEW n \in Nat, NEW S, 0 \in S, \A k \in 0..n : k \in S /\ k # n => k + 1 \in S
  PROVE  0..n \subseteq S
<1>1. SUFFICES ASSUME (0..n) \ S # {} PROVE FALSE
  OBVIOUS
<1>2. PICK k \in (0..n) \ S : \A m \in (0..n) \ S : k <= m
  <2>1. (0..n) \ S \subseteq Nat
    OBVIOUS
  <2> QED BY <1>1, <2>1, Least
<1>3. k # 0 /\ k - 1 \in 0..n /\ k - 1 # n
  BY <1>2
<1>4. k - 1 \in S
  BY <1>2, <1>3
<1>5. (k - 1) + 1 \in S
  BY <1>3, <1>4
<1> QED BY <1>5

(* A function can be defined by its value at 0 and a step.                 *)
Iteration(a, g, f) == f = [k \in Nat |-> IF k = 0 THEN a ELSE g[f[k - 1]]]

LEMMA IterationExists ==
  ASSUME NEW S, NEW a \in S, NEW g \in [S -> S]
  PROVE  \E f : Iteration(a, g, f)
<1> DEFINE Prefix(n) == {p \in [0..n -> S] : \A k \in 0..n : p[k] = IF k = 0 THEN a ELSE g[p[k - 1]]}
<1>1. \A n \in Nat : Prefix(n) # {}
  <2> SUFFICES ASSUME NEW n \in Nat PROVE Prefix(n) # {}
    OBVIOUS
  <2> DEFINE Some == {k \in 0..n : Prefix(k) # {}}
  <2>1. 0 \in Some
    <3>1. [k \in 0..0 |-> a] \in Prefix(0)
      OBVIOUS
    <3> QED BY <3>1
  <2>2. ASSUME NEW k \in 0..n, k \in Some, k # n PROVE k + 1 \in Some
    <3>1. PICK p \in [0..k -> S] : \A j \in 0..k : p[j] = IF j = 0 THEN a ELSE g[p[j - 1]]
      BY <2>2
    <3> DEFINE q == [j \in 0..(k + 1) |-> IF j = k + 1 THEN g[p[k]] ELSE p[j]]
    <3>2. q \in [0..(k + 1) -> S]
      BY <2>2, <3>1
    <3>3. ASSUME NEW j \in 0..(k + 1) PROVE q[j] = IF j = 0 THEN a ELSE g[q[j - 1]]
      <4>1. CASE j = k + 1
        <5>1. j - 1 = k /\ k \in 0..(k + 1) /\ k # k + 1
          BY <2>2, <4>1
        <5>2. q[k] = p[k]
          BY <5>1
        <5> QED BY <4>1, <5>1, <5>2
      <4>2. CASE j # k + 1
        <5>1. j \in 0..k /\ (j # 0 => j - 1 \in 0..k /\ j - 1 # k + 1)
          BY <2>2, <3>3, <4>2
        <5> QED BY <3>1, <4>2, <5>1
      <4> QED BY <4>1, <4>2
    <3>4. q \in Prefix(k + 1)
      BY <3>2, <3>3
    <3>5. k + 1 \in 0..n
      BY <2>2
    <3> QED BY <3>4, <3>5
  <2>3. 0..n \subseteq Some
    <3> HIDE DEF Some
    <3> QED BY <2>1, <2>2, UpTo
  <2> QED BY <2>3
<1>2. ASSUME NEW m \in Nat, NEW n \in Nat, NEW p \in Prefix(m), NEW q \in Prefix(n),
             NEW l \in Nat, l <= m, l <= n
      PROVE  p[l] = q[l]
  <2> DEFINE Same == {k \in 0..l : p[k] = q[k]}
  <2>1. 0 \in Same
    BY <1>2
  <2>2. ASSUME NEW k \in 0..l, k \in Same, k # l PROVE k + 1 \in Same
    <3>1. k + 1 \in 0..m /\ k + 1 \in 0..n /\ k + 1 \in 0..l /\ k + 1 # 0 /\ (k + 1) - 1 = k
      BY <1>2, <2>2
    <3>2. p[k + 1] = g[p[k]] /\ q[k + 1] = g[q[k]]
      BY <3>1
    <3> QED BY <2>2, <3>1, <3>2
  <2>3. 0..l \subseteq Same
    <3> HIDE DEF Same
    <3> QED BY <2>1, <2>2, UpTo
  <2> QED BY <2>3
<1> DEFINE At(n) == CHOOSE p : p \in Prefix(n)
           f == [n \in Nat |-> At(n)[n]]
<1>3. \A n \in Nat : At(n) \in Prefix(n)
  BY <1>1
<1>4. ASSUME NEW n \in Nat PROVE At(n)[n] = IF n = 0 THEN a ELSE g[f[n - 1]]
  <2>1. n \in 0..n /\ At(n) \in Prefix(n)
    <3> HIDE DEF At, Prefix
    <3> QED BY <1>3
  <2>2. At(n)[n] = IF n = 0 THEN a ELSE g[At(n)[n - 1]]
    BY <2>1
  <2>3. ASSUME n # 0 PROVE At(n)[n - 1] = f[n - 1]
    <3>1. n - 1 \in Nat /\ n - 1 <= n /\ n - 1 <= n - 1
      BY <2>3
    <3>2. At(n - 1) \in Prefix(n - 1)
      BY <1>3, <3>1
    <3> HIDE DEF At, Prefix
    <3>3. At(n)[n - 1] = At(n - 1)[n - 1]
      BY <1>2, <2>1, <3>1, <3>2
    <3> QED BY <3>1, <3>3
  <2> QED BY <2>2, <2>3
<1>5. Iteration(a, g, f)
  <2> HIDE DEF At
  <2> QED BY <1>4 DEF Iteration
<1> QED BY <1>5

LEMMA IterationStep ==
  ASSUME NEW S, NEW a \in S, NEW g \in [S -> S], NEW f, Iteration(a, g, f)
  PROVE  f[0] = a /\ \A k \in Nat : f[k] \in S /\ f[k + 1] = g[f[k]]
<1>1. f[0] = a
  BY DEF Iteration
<1>2. \A k \in Nat : f[k + 1] = g[f[k]]
  <2> TAKE k \in Nat
  <2>1. k + 1 \in Nat /\ k + 1 # 0 /\ (k + 1) - 1 = k
    OBVIOUS
  <2> QED BY <2>1 DEF Iteration
<1>3. ASSUME NEW n \in Nat PROVE f[n] \in S
  <2> DEFINE In == {k \in 0..n : f[k] \in S}
  <2>1. 0 \in In
    BY <1>1
  <2>2. ASSUME NEW k \in 0..n, k \in In, k # n PROVE k + 1 \in In
    <3>1. k + 1 \in 0..n /\ k \in Nat
      BY <2>2
    <3> QED BY <1>2, <2>2, <3>1
  <2>3. 0..n \subseteq In
    <3> HIDE DEF In
    <3> QED BY <2>1, <2>2, UpTo
  <2> QED BY <2>3
<1> QED BY <1>1, <1>2, <1>3

-----------------------------------------------------------------------------
(* Powers of two and shifts.                                               *)

LEMMA Powers ==
  /\ Pow2[0] = 1
  /\ \A k \in Nat : Pow2[k] \in Nat \ {0} /\ Pow2[k + 1] = 2 * Pow2[k]
<1> DEFINE g == [x \in Nat \ {0} |-> 2 * x]
<1>1. 1 \in Nat \ {0} /\ g \in [Nat \ {0} -> Nat \ {0}]
  OBVIOUS
<1> DEFINE IsPow(f) == f = [k \in Nat |-> IF k = 0 THEN 1 ELSE 2 * f[k - 1]]
<1>3. \A f : Iteration(1, g, f) => IsPow(f)
  <2>0. SUFFICES ASSUME NEW f, Iteration(1, g, f) PROVE IsPow(f)
    OBVIOUS
  <2>1. \A k \in Nat : f[k] \in Nat \ {0} /\ f[k + 1] = g[f[k]]
    <3> DEFINE S == Nat \ {0}
    <3>1. 1 \in S /\ g \in [S -> S] /\ Iteration(1, g, f)
      BY <1>1, <2>0
    <3> HIDE DEF g, S
    <3>2. \A k \in Nat : f[k] \in S /\ f[k + 1] = g[f[k]]
      BY <3>1, IterationStep
    <3> QED BY <3>2 DEF S
  <2>2. ASSUME NEW k \in Nat PROVE (IF k = 0 THEN 1 ELSE g[f[k - 1]]) = (IF k = 0 THEN 1 ELSE 2 * f[k - 1])
    <3>1. k # 0 => k - 1 \in Nat
      OBVIOUS
    <3> QED BY <2>1, <3>1
  <2> QED BY <2>0, <2>2 DEF Iteration
<1>4. IsPow(Pow2)
  <2>1. \E f : IsPow(f)
    BY <1>1, <1>3, IterationExists
  <2> QED BY <2>1 DEF Pow2
<1>5. Pow2[0] = 1 /\ \A k \in Nat : Pow2[k + 1] = 2 * Pow2[k]
  <2>1. Pow2[0] = 1
    BY <1>4
  <2>2. ASSUME NEW k \in Nat PROVE Pow2[k + 1] = 2 * Pow2[k]
    <3>1. k + 1 \in Nat /\ k + 1 # 0 /\ (k + 1) - 1 = k
      OBVIOUS
    <3> QED BY <1>4, <3>1
  <2> QED BY <2>1, <2>2
<1>6. ASSUME NEW n \in Nat PROVE Pow2[n] \in Nat \ {0}
  <2> DEFINE In == {k \in 0..n : Pow2[k] \in Nat \ {0}}
  <2>1. 0 \in In
    BY <1>5
  <2>2. ASSUME NEW k \in 0..n, k \in In, k # n PROVE k + 1 \in In
    <3>1. k + 1 \in 0..n /\ k \in Nat
      BY <2>2
    <3> QED BY <1>5, <2>2, <3>1
  <2>3. 0..n \subseteq In
    <3> HIDE DEF In
    <3> QED BY <2>1, <2>2, UpTo
  <2> QED BY <2>3
<1> QED BY <1>5, <1>6

LEMMA Shifts ==
  ASSUME NEW n \in Nat
  PROVE  Shr(n)[0] = n /\ \A i \in Nat : Shr(n)[i] \in Nat /\ Shr(n)[i + 1] = Shr(n)[i] \div 2
<1> DEFINE g == [x \in Nat |-> x \div 2]
           IsShr(f) == f = [i \in Nat |-> IF i = 0 THEN n ELSE f[i - 1] \div 2]
<1>1. g \in [Nat -> Nat]
  OBVIOUS
<1>2. ASSUME NEW f, Iteration(n, g, f) PROVE IsShr(f)
  <2>1. \A k \in Nat : f[k] \in Nat /\ f[k + 1] = g[f[k]]
    BY <1>1, <1>2, IterationStep
  <2>2. ASSUME NEW k \in Nat PROVE (IF k = 0 THEN n ELSE g[f[k - 1]]) = (IF k = 0 THEN n ELSE f[k - 1] \div 2)
    <3>1. k # 0 => k - 1 \in Nat
      OBVIOUS
    <3> QED BY <2>1, <3>1
  <2> QED BY <1>2, <2>2 DEF Iteration
<1>3. IsShr(Shr(n))
  <2>1. \E f : IsShr(f)
    BY <1>1, <1>2, IterationExists
  <2> QED BY <2>1 DEF Shr
<1> HIDE DEF g
<1>4. Shr(n)[0] = n /\ \A i \in Nat : Shr(n)[i + 1] = Shr(n)[i] \div 2
  <2>1. Shr(n)[0] = n
    BY <1>3
  <2>2. ASSUME NEW i \in Nat PROVE Shr(n)[i + 1] = Shr(n)[i] \div 2
    <3>1. i + 1 \in Nat /\ i + 1 # 0 /\ (i + 1) - 1 = i
      OBVIOUS
    <3> QED BY <1>3, <3>1
  <2> QED BY <2>1, <2>2
<1>5. ASSUME NEW l \in Nat PROVE Shr(n)[l] \in Nat
  <2> DEFINE In == {k \in 0..l : Shr(n)[k] \in Nat}
  <2>1. 0 \in In
    BY <1>4
  <2>2. ASSUME NEW k \in 0..l, k \in In, k # l PROVE k + 1 \in In
    <3>1. k + 1 \in 0..l /\ k \in Nat
      BY <2>2
    <3>2. Shr(n)[k + 1] = Shr(n)[k] \div 2 /\ Shr(n)[k] \in Nat
      BY <1>4, <2>2, <3>1
    <3> QED BY <3>1, <3>2
  <2>3. 0..l \subseteq In
    <3> HIDE DEF In
    <3> QED BY <2>1, <2>2, UpTo
  <2> QED BY <2>3
<1> QED BY <1>4, <1>5

(* A number of k bits has nothing left after k shifts.                     *)
LEMMA ShiftedOut ==
  ASSUME NEW k \in Nat, NEW n \in 0..(Pow2[k] - 1)
  PROVE  \A i \in 0..k : Shr(n)[i] < Pow2[k - i]
<1> DEFINE In == {i \in 0..k : Shr(n)[i] < Pow2[k - i]}
<1>1. n \in Nat /\ n < Pow2[k] /\ Pow2[k] \in Nat
  BY Powers
<1>2. 0 \in In
  BY <1>1, Shifts
<1>3. ASSUME NEW i \in 0..k, i \in In, i # k PROVE i + 1 \in In
  <2>1. i + 1 \in 0..k /\ i \in Nat /\ k - (i + 1) \in Nat /\ (k - (i + 1)) + 1 = k - i
    BY <1>3
  <2>2. /\ Shr(n)[i] \in Nat /\ Shr(n)[i + 1] = Shr(n)[i] \div 2
        /\ Shr(n)[i] < Pow2[k - i]
    BY <1>1, <1>3, <2>1, Shifts
  <2>3. Pow2[k - i] = 2 * Pow2[k - (i + 1)] /\ Pow2[k - (i + 1)] \in Nat
    BY <2>1, Powers
  <2> DEFINE p == Pow2[k - (i + 1)]
             s == Shr(n)[i]
  <2>4. ASSUME NEW u \in Nat, NEW v \in Nat, u < 2 * v PROVE u \div 2 < v
    BY <2>4
  <2>5. Shr(n)[i + 1] < Pow2[k - (i + 1)]
    BY <2>2, <2>3, <2>4
  <2> QED BY <2>1, <2>5
<1>4. 0..k \subseteq In
  <2> HIDE DEF In
  <2> QED BY <1>2, <1>3, UpTo
<1> QED BY <1>4

-----------------------------------------------------------------------------
(* The Gray code.                                                          *)
Parity(n, i) == Shr(n)[i] % 2

LEMMA GrayBit ==
  ASSUME NEW n \in Nat
  PROVE  /\ Gray(n) \in [Bits -> BOOLEAN]
         /\ \A i \in Bits : Gray(n)[i] <=> Parity(n, i) # Parity(n, i + 1)
         /\ \A i \in Nat : Parity(n, i) \in {0, 1}
<1>1. ASSUME NEW i \in Nat PROVE Parity(n, i) \in {0, 1}
  <2>1. \A s \in Nat : s % 2 \in {0, 1}
    OBVIOUS
  <2> QED BY <2>1, Shifts DEF Parity
<1>2. Gray(n) \in [Bits -> BOOLEAN]
  BY DEF Gray
<1>3. ASSUME NEW i \in Bits PROVE Gray(n)[i] <=> Parity(n, i) # Parity(n, i + 1)
  <2>1. i \in Nat /\ i + 1 \in Nat
    BY SizeAssumption DEF SizeAssumption, Bits
  <2>2. Parity(n, i) \in {0, 1} /\ Parity(n, i + 1) \in {0, 1}
    BY <1>1, <2>1
  <2>3. Gray(n)[i] = ((Parity(n, i) = 1) # (Parity(n, i + 1) = 1))
    BY DEF Gray, Bit, Parity
  <2> QED BY <2>2, <2>3
<1> QED BY <1>1, <1>2, <1>3

LEMMA Sizes ==
  /\ ASIZE \in Nat /\ ASIZE >= 2 /\ Depth \in Nat /\ Depth > 0
  /\ Pow2[ASIZE + 1] = 2 * Depth /\ Pointers \subseteq Nat /\ 0 \in Pointers
BY SizeAssumption, Powers DEF SizeAssumption, Depth, Pointers

LEMMA PointerOut ==
  ASSUME NEW n \in Pointers
  PROVE  Shr(n)[ASIZE + 1] = 0
<1>1. n \in 0..(Pow2[ASIZE + 1] - 1) /\ ASIZE + 1 \in Nat /\ ASIZE + 1 \in 0..(ASIZE + 1)
  BY Sizes DEF Pointers
<1>2. Shr(n)[ASIZE + 1] < Pow2[(ASIZE + 1) - (ASIZE + 1)]
  BY <1>1, ShiftedOut
<1>3. (ASIZE + 1) - (ASIZE + 1) = 0
  BY Sizes
<1>4. Shr(n)[ASIZE + 1] \in Nat
  BY <1>1, Shifts
<1> QED BY <1>2, <1>3, <1>4, Powers

(* Two pointers with the same Gray code are the same: the comparisons that *)
(* judge empty and full find the pointers equal when they are and never    *)
(* else.                                                                   *)
THEOREM GrayInjective ==
  ASSUME NEW m \in Pointers, NEW n \in Pointers, Gray(m) = Gray(n)
  PROVE  m = n
<1> DEFINE In == {i \in 0..(ASIZE + 1) : Shr(m)[ASIZE + 1 - i] = Shr(n)[ASIZE + 1 - i]}
<1>1. m \in Nat /\ n \in Nat /\ ASIZE + 1 \in Nat
  BY Sizes
<1>2. 0 \in In
  <2>1. (ASIZE + 1) - 0 = ASIZE + 1
    BY Sizes
  <2> QED BY <1>1, <2>1, PointerOut
<1>3. ASSUME NEW i \in 0..(ASIZE + 1), i \in In, i # ASIZE + 1 PROVE i + 1 \in In
  <2> DEFINE j == ASIZE + 1 - (i + 1)
  <2>1. j \in Bits /\ j \in Nat /\ j + 1 = ASIZE + 1 - i /\ i + 1 \in 0..(ASIZE + 1)
    BY <1>3, Sizes DEF Bits
  <2> HIDE DEF j
  <2>2. Shr(m)[j + 1] = Shr(n)[j + 1]
    BY <1>3, <2>1
  <2>3. Parity(m, j + 1) = Parity(n, j + 1)
    BY <2>2 DEF Parity
  <2>4. /\ Gray(m)[j] <=> Parity(m, j) # Parity(m, j + 1)
        /\ Gray(n)[j] <=> Parity(n, j) # Parity(n, j + 1)
        /\ {Parity(m, j), Parity(m, j + 1), Parity(n, j), Parity(n, j + 1)} \subseteq {0, 1}
    BY <1>1, <2>1, GrayBit
  <2>5. Parity(m, j) = Parity(n, j)
    BY <2>3, <2>4
  <2>6. /\ Shr(m)[j] \in Nat /\ Shr(n)[j] \in Nat
        /\ Shr(m)[j] \div 2 = Shr(n)[j] \div 2 /\ Shr(m)[j] % 2 = Shr(n)[j] % 2
    BY <1>1, <2>1, <2>2, <2>5, Shifts DEF Parity
  <2>7. \A s, t \in Nat : s \div 2 = t \div 2 /\ s % 2 = t % 2 => s = t
    OBVIOUS
  <2>8. Shr(m)[j] = Shr(n)[j]
    BY <2>6, <2>7
  <2> QED BY <2>1, <2>8 DEF j
<1>4. ASIZE + 1 \in In
  <2>1. 0..(ASIZE + 1) \subseteq In
    <3> HIDE DEF In
    <3> QED BY <1>1, <1>2, <1>3, UpTo
  <2> QED BY <1>1, <2>1
<1>5. Shr(m)[0] = Shr(n)[0]
  <2>1. ASIZE + 1 - (ASIZE + 1) = 0
    BY Sizes
  <2> QED BY <1>4, <2>1
<1> QED BY <1>1, <1>5, Shifts

(* Counting on changes one bit of the code.                                *)
LEMMA CarryEnds ==
  ASSUME NEW n \in Nat
  PROVE  \A i \in Nat : /\ Shr(n + 1)[i] \in {Shr(n)[i], Shr(n)[i] + 1}
                        /\ Shr(n + 1)[i] = Shr(n)[i] => Shr(n + 1)[i + 1] = Shr(n)[i + 1]
<1>1. ASSUME NEW l \in Nat PROVE Shr(n + 1)[l] \in {Shr(n)[l], Shr(n)[l] + 1}
  <2> DEFINE In == {i \in 0..l : Shr(n + 1)[i] \in {Shr(n)[i], Shr(n)[i] + 1}}
  <2>1. 0 \in In
    BY Shifts
  <2>2. ASSUME NEW k \in 0..l, k \in In, k # l PROVE k + 1 \in In
    <3>1. k + 1 \in 0..l /\ k \in Nat /\ n + 1 \in Nat
      BY <2>2
    <3>2. /\ Shr(n)[k + 1] = Shr(n)[k] \div 2 /\ Shr(n + 1)[k + 1] = Shr(n + 1)[k] \div 2
          /\ Shr(n)[k] \in Nat /\ Shr(n + 1)[k] \in Nat
      BY <3>1, Shifts
    <3>3. \A s, t \in Nat : t \in {s, s + 1} => t \div 2 \in {s \div 2, (s \div 2) + 1}
      OBVIOUS
    <3> QED BY <2>2, <3>1, <3>2, <3>3
  <2>3. 0..l \subseteq In
    <3> HIDE DEF In
    <3> QED BY <2>1, <2>2, UpTo
  <2> QED BY <2>3
<1>2. ASSUME NEW i \in Nat, Shr(n + 1)[i] = Shr(n)[i] PROVE Shr(n + 1)[i + 1] = Shr(n)[i + 1]
  BY <1>2, Shifts
<1> QED BY <1>1, <1>2

LEMMA CarryStaysOut ==
  ASSUME NEW n \in Nat, NEW i \in Nat, NEW k \in Nat, i <= k, Shr(n + 1)[i] = Shr(n)[i]
  PROVE  Shr(n + 1)[k] = Shr(n)[k]
<1> DEFINE In == {d \in 0..(k - i) : Shr(n + 1)[i + d] = Shr(n)[i + d]}
<1>1. 0 \in In /\ k - i \in Nat
  <2>1. i + 0 = i /\ k - i \in Nat
    OBVIOUS
  <2> QED BY <2>1
<1>2. ASSUME NEW d \in 0..(k - i), d \in In, d # k - i PROVE d + 1 \in In
  <2>1. d + 1 \in 0..(k - i) /\ i + d \in Nat /\ (i + d) + 1 = i + (d + 1)
    BY <1>2
  <2>2. Shr(n + 1)[(i + d) + 1] = Shr(n)[(i + d) + 1]
    BY <1>2, <2>1, CarryEnds
  <2> QED BY <2>1, <2>2
<1>3. k - i \in In
  <2>1. 0..(k - i) \subseteq In
    <3> HIDE DEF In
    <3> QED BY <1>1, <1>2, UpTo
  <2> QED BY <1>1, <2>1
<1>4. i + (k - i) = k
  OBVIOUS
<1> QED BY <1>3, <1>4

LEMMA CarryBit ==
  ASSUME NEW n \in Nat, NEW i \in Bits, NEW k \in Bits,
         Gray(n + 1)[i] # Gray(n)[i], Gray(n + 1)[k] # Gray(n)[k]
  PROVE  ~(i < k)
<1>1. ASSUME NEW j \in Bits, Gray(n + 1)[j] # Gray(n)[j]
      PROVE  Shr(n + 1)[j] # Shr(n)[j] /\ Shr(n + 1)[j + 1] = Shr(n)[j + 1]
  <2>0. j \in Nat /\ j + 1 \in Nat /\ n + 1 \in Nat
    BY Sizes DEF Bits
  <2>1. /\ {Gray(n)[j], Gray(n + 1)[j]} \subseteq BOOLEAN
        /\ Gray(n)[j] <=> Parity(n, j) # Parity(n, j + 1)
        /\ Gray(n + 1)[j] <=> Parity(n + 1, j) # Parity(n + 1, j + 1)
    BY <2>0, GrayBit
  <2>1a. {Parity(n, j), Parity(n, j + 1), Parity(n + 1, j), Parity(n + 1, j + 1)} \subseteq {0, 1}
    BY <2>0, GrayBit
  <2>1b. Gray(n + 1)[j] <=> ~Gray(n)[j]
    BY <1>1, <2>1
  <2>2. \/ Parity(n, j) = Parity(n + 1, j) /\ Parity(n, j + 1) # Parity(n + 1, j + 1)
        \/ Parity(n, j) # Parity(n + 1, j) /\ Parity(n, j + 1) = Parity(n + 1, j + 1)
    <3>1. (Parity(n, j) # Parity(n, j + 1)) <=> ~(Parity(n + 1, j) # Parity(n + 1, j + 1))
      BY <2>1, <2>1b
    <3> QED BY <2>1a, <3>1
  <2>3. ASSUME NEW m \in Nat, Parity(n, m) = Parity(n + 1, m) PROVE Shr(n + 1)[m] = Shr(n)[m]
    <3>1. /\ Shr(n)[m] \in Nat /\ Shr(n + 1)[m] \in {Shr(n)[m], Shr(n)[m] + 1}
          /\ Shr(n)[m] % 2 = Shr(n + 1)[m] % 2
      BY <2>0, <2>3, CarryEnds, Shifts DEF Parity
    <3>2. \A s \in Nat : s % 2 # (s + 1) % 2
      OBVIOUS
    <3> QED BY <3>1, <3>2
  <2>4. CASE Parity(n, j) = Parity(n + 1, j) /\ Parity(n, j + 1) # Parity(n + 1, j + 1)
    <3>1. Shr(n + 1)[j] = Shr(n)[j]
      BY <2>0, <2>3, <2>4
    <3>2. Shr(n + 1)[j + 1] = Shr(n)[j + 1]
      BY <2>0, <3>1, CarryEnds
    <3> QED BY <2>4, <3>2 DEF Parity
  <2>5. CASE Parity(n, j) # Parity(n + 1, j) /\ Parity(n, j + 1) = Parity(n + 1, j + 1)
    BY <2>0, <2>3, <2>5 DEF Parity
  <2> QED BY <2>2, <2>4, <2>5
<1>2. SUFFICES ASSUME i < k PROVE FALSE
  OBVIOUS
<1>3. i + 1 \in Nat /\ k \in Nat /\ i + 1 <= k
  BY <1>2, Sizes DEF Bits
<1>4. Shr(n + 1)[k] = Shr(n)[k]
  BY <1>1, <1>3, CarryStaysOut
<1> QED BY <1>1, <1>4

LEMMA ZeroGray == \A i \in Bits : ~Gray(0)[i]
<1>1. ASSUME NEW l \in Nat PROVE Shr(0)[l] = 0
  <2> DEFINE In == {i \in 0..l : Shr(0)[i] = 0}
  <2>1. 0 \in In
    BY Shifts
  <2>2. ASSUME NEW k \in 0..l, k \in In, k # l PROVE k + 1 \in In
    <3>1. k + 1 \in 0..l /\ k \in Nat
      BY <2>2
    <3>2. Shr(0)[k + 1] = Shr(0)[k] \div 2
      BY <3>1, Shifts
    <3> QED BY <2>2, <3>1, <3>2
  <2>3. 0..l \subseteq In
    <3> HIDE DEF In
    <3> QED BY <2>1, <2>2, UpTo
  <2> QED BY <2>3
<1> SUFFICES ASSUME NEW i \in Bits PROVE ~Gray(0)[i]
  OBVIOUS
<1>2. i \in Nat /\ i + 1 \in Nat
  BY Sizes DEF Bits
<1> QED BY <1>1, <1>2, GrayBit DEF Parity

(* The last pointer is all ones.                                           *)
LEMMA LastGray == \A i \in Bits : i # ASIZE => ~Gray(2 * Depth - 1)[i]
<1> DEFINE k == ASIZE + 1
           n == Pow2[k] - 1
           In == {i \in 0..k : Shr(n)[i] = Pow2[k - i] - 1}
<1>1. k \in Nat /\ Pow2[k] \in Nat \ {0} /\ n \in Nat /\ n = 2 * Depth - 1
  BY Powers, Sizes
<1>2. 0 \in In
  BY <1>1, Shifts
<1>3. ASSUME NEW i \in 0..k, i # k
      PROVE  k - (i + 1) \in Nat /\ Pow2[k - i] = 2 * Pow2[k - (i + 1)] /\ Pow2[k - (i + 1)] \in Nat \ {0}
  <2>1. k - (i + 1) \in Nat /\ (k - (i + 1)) + 1 = k - i
    BY <1>1, <1>3
  <2> QED BY <2>1, Powers
<1>4. \A p \in Nat \ {0} : (2 * p - 1) \div 2 = p - 1 /\ (2 * p - 1) % 2 = 1
  OBVIOUS
<1>5. ASSUME NEW i \in 0..k, i \in In, i # k PROVE i + 1 \in In
  <2>1. i + 1 \in 0..k /\ i \in Nat
    BY <1>1, <1>5
  <2>2. Shr(n)[i + 1] = Shr(n)[i] \div 2
    BY <1>1, <2>1, Shifts
  <2>3. Shr(n)[i + 1] = Pow2[k - (i + 1)] - 1
    BY <1>3, <1>4, <1>5, <2>2
  <2> QED BY <2>1, <2>3
<1>6. \A i \in 0..k : Shr(n)[i] = Pow2[k - i] - 1
  <2>1. 0..k \subseteq In
    <3> HIDE DEF In, k
    <3> QED BY <1>1, <1>2, <1>5, UpTo
  <2> QED BY <2>1
<1>7. ASSUME NEW i \in 0..ASIZE PROVE Parity(n, i) = 1
  <2>1. i \in 0..k /\ i # k
    BY <1>7, Sizes
  <2> HIDE DEF k, n
  <2> QED BY <1>3, <1>4, <1>6, <2>1 DEF Parity
<1>8. ASSUME NEW i \in Bits, i # ASIZE PROVE ~Gray(n)[i]
  <2>1. i \in 0..ASIZE /\ i + 1 \in 0..ASIZE
    BY <1>8, Sizes DEF Bits
  <2>2. Parity(n, i) = 1 /\ Parity(n, i + 1) = 1
    BY <1>7, <2>1
  <2> HIDE DEF n
  <2> QED BY <1>1, <2>2, GrayBit
<1> HIDE DEF n
<1> QED BY <1>1, <1>8

LEMMA ModOnce ==
  ASSUME NEW n \in Nat, n > 0, NEW x \in 0..(2 * n - 1)
  PROVE  x % n = IF x < n THEN x ELSE x - n
OBVIOUS

LEMMA AddIs ==
  ASSUME NEW n \in Pointers
  PROVE  /\ Add(n, FALSE) = n
         /\ Add(n, TRUE) = IF n = 2 * Depth - 1 THEN 0 ELSE n + 1
         /\ Add(n, TRUE) \in Pointers
<1>1. /\ 2 * Depth \in Nat /\ 2 * Depth > 0 /\ n + 0 \in 0..(2 * (2 * Depth) - 1)
      /\ n + 1 \in 0..(2 * (2 * Depth) - 1)
  BY Sizes DEF Pointers
<1>2. (n + 0) % (2 * Depth) = n
  BY <1>1, ModOnce DEF Pointers
<1>3. (n + 1) % (2 * Depth) = IF n = 2 * Depth - 1 THEN 0 ELSE n + 1
  BY <1>1, ModOnce DEF Pointers
<1> QED BY <1>1, <1>2, <1>3 DEF Add, Pointers

(* A pointer that counts changes at most one bit of its Gray code, at the  *)
(* wrap of the pointer too.                                                *)
THEOREM GrayOneBit ==
  ASSUME NEW n \in Pointers
  PROVE  \E j \in Bits : \A i \in Bits \ {j} : Gray(Add(n, TRUE))[i] = Gray(n)[i]
<1>0. n \in Nat /\ ASIZE \in Bits
  BY Sizes DEF Bits
<1>1. CASE n = 2 * Depth - 1
  <2>1. Add(n, TRUE) = 0 /\ 0 \in Nat
    BY <1>1, AddIs
  <2>2. \A i \in Bits \ {ASIZE} : Gray(0)[i] = Gray(n)[i]
    BY <1>0, <1>1, LastGray, ZeroGray, GrayBit
  <2> QED BY <1>0, <2>1, <2>2
<1>2. CASE n # 2 * Depth - 1
  <2>1. Add(n, TRUE) = n + 1
    BY <1>2, AddIs
  <2>2. CASE \E j \in Bits : Gray(n + 1)[j] # Gray(n)[j]
    <3>1. PICK j \in Bits : Gray(n + 1)[j] # Gray(n)[j]
      BY <2>2
    <3>2. ASSUME NEW i \in Bits \ {j}, Gray(n + 1)[i] # Gray(n)[i] PROVE FALSE
      <4>1. ~(i < j) /\ ~(j < i)
        BY <1>0, <3>1, <3>2, CarryBit
      <4> QED BY <4>1, Sizes DEF Bits
    <3> QED BY <2>1, <3>2
  <2>3. CASE ~\E j \in Bits : Gray(n + 1)[j] # Gray(n)[j]
    BY <1>0, <2>1, <2>3
  <2> QED BY <2>2, <2>3
<1> QED BY <1>1, <1>2

(* So a register that samples a pointer while it counts gets the pointer   *)
(* before the step or the one after it, and no other.                      *)
LEMMA SampleIsEither ==
  ASSUME NEW n \in Pointers, NEW inc \in BOOLEAN,
         NEW p \in Samples(Gray(n), Gray(Add(n, inc)))
  PROVE  p \in {Gray(n), Gray(Add(n, inc))}
<1>1. n \in Nat /\ Add(n, inc) \in Nat
  BY AddIs, Sizes
<1>2. /\ p \in [Bits -> BOOLEAN] /\ \A i \in Bits : p[i] \in {Gray(n)[i], Gray(Add(n, inc))[i]}
      /\ Gray(n) \in [Bits -> BOOLEAN] /\ Gray(Add(n, inc)) \in [Bits -> BOOLEAN]
  BY <1>1, GrayBit DEF Samples
<1>3. \E j \in Bits : \A i \in Bits \ {j} : Gray(Add(n, inc))[i] = Gray(n)[i]
  <2>1. CASE inc = TRUE
    BY <2>1, GrayOneBit
  <2>2. CASE inc = FALSE
    <3>1. Add(n, inc) = n
      <4>1. Add(n, FALSE) = n
        BY AddIs
      <4> QED BY <2>2, <4>1
    <3>2. 0 \in Bits
      BY Sizes DEF Bits
    <3> QED BY <3>1, <3>2
  <2> QED BY <2>1, <2>2
<1>4. PICK j \in Bits : \A i \in Bits \ {j} : Gray(Add(n, inc))[i] = Gray(n)[i]
  BY <1>3
<1> DEFINE old == Gray(n)
           new == Gray(Add(n, inc))
<1> HIDE DEF old, new
<1>5. CASE p[j] = old[j]
  <2>1. \A i \in Bits : p[i] = old[i]
    BY <1>2, <1>4, <1>5 DEF old, new
  <2>2. p = old
    BY <1>2, <2>1 DEF old
  <2> QED BY <2>2 DEF old
<1>6. CASE p[j] = new[j]
  <2>1. \A i \in Bits : p[i] = new[i]
    BY <1>2, <1>4, <1>6 DEF old, new
  <2>2. p = new
    BY <1>2, <2>1 DEF new
  <2> QED BY <2>2 DEF new
<1> QED BY <1>2, <1>5, <1>6 DEF old, new

(* A FIFO further on, only the top bit of the pointer is another.          *)
LEMMA HalfTurn ==
  ASSUME NEW n \in 0..(Depth - 1)
  PROVE  \A i \in Bits : Gray(n + Depth)[i] <=> IF i >= ASIZE - 1 THEN ~Gray(n)[i] ELSE Gray(n)[i]
<1> DEFINE m == n + Depth
           In == {i \in 0..ASIZE : Shr(m)[i] = Shr(n)[i] + Pow2[ASIZE - i]}
<1>1. n \in Nat /\ m \in Nat /\ n \in Pointers /\ m \in Pointers
  BY Sizes DEF Pointers
<1>2. 0 \in In
  BY <1>1, Shifts, Sizes DEF Depth
<1>3. ASSUME NEW i \in 0..ASIZE, i # ASIZE
      PROVE  /\ ASIZE - (i + 1) \in Nat /\ Pow2[ASIZE - i] = 2 * Pow2[ASIZE - (i + 1)]
             /\ Pow2[ASIZE - (i + 1)] \in Nat
  <2>1. ASIZE - (i + 1) \in Nat /\ (ASIZE - (i + 1)) + 1 = ASIZE - i
    BY <1>3, Sizes
  <2> QED BY <2>1, Powers
<1>4. \A s, p \in Nat : (s + 2 * p) \div 2 = (s \div 2) + p /\ (s + 2 * p) % 2 = s % 2
  OBVIOUS
<1> HIDE DEF m
<1>5. ASSUME NEW i \in 0..ASIZE, i \in In, i # ASIZE PROVE i + 1 \in In
  <2>1. i + 1 \in 0..ASIZE /\ i \in Nat
    BY <1>5, Sizes
  <2>2. /\ Shr(m)[i + 1] = Shr(m)[i] \div 2 /\ Shr(n)[i + 1] = Shr(n)[i] \div 2 /\ Shr(n)[i] \in Nat
    BY <1>1, <2>1, Shifts
  <2>3. Shr(m)[i + 1] = Shr(n)[i + 1] + Pow2[ASIZE - (i + 1)]
    BY <1>3, <1>4, <1>5, <2>2
  <2> QED BY <2>1, <2>3
<1>6. \A i \in 0..ASIZE : Shr(m)[i] = Shr(n)[i] + Pow2[ASIZE - i]
  <2>1. 0..ASIZE \subseteq In
    <3> HIDE DEF In
    <3> QED BY <1>2, <1>5, UpTo, Sizes
  <2> QED BY <2>1
<1>7. ASSUME NEW i \in 0..ASIZE, i # ASIZE PROVE Parity(m, i) = Parity(n, i)
  <2>1. i \in Nat /\ Shr(n)[i] \in Nat
    BY <1>1, <1>7, Sizes, Shifts
  <2> QED BY <1>3, <1>4, <1>6, <1>7, <2>1 DEF Parity
<1>8. Parity(m, ASIZE) = 1 /\ Parity(n, ASIZE) = 0
  <2>1. ASIZE \in 0..ASIZE /\ ASIZE - ASIZE = 0 /\ n \in 0..(Pow2[ASIZE] - 1) /\ ASIZE \in Nat
    BY Sizes DEF Depth
  <2>2. Shr(n)[ASIZE] < Pow2[ASIZE - ASIZE]
    BY <2>1, ShiftedOut
  <2>3. Shr(n)[ASIZE] = 0
    BY <1>1, <2>1, <2>2, Powers, Shifts
  <2>4. Shr(m)[ASIZE] = 1
    BY <1>6, <2>1, <2>3, Powers
  <2> QED BY <2>3, <2>4 DEF Parity
<1>9. Parity(m, ASIZE + 1) = Parity(n, ASIZE + 1)
  BY <1>1, PointerOut DEF Parity
<1>10. ASSUME NEW i \in Bits
       PROVE  Gray(m)[i] <=> IF i >= ASIZE - 1 THEN ~Gray(n)[i] ELSE Gray(n)[i]
  <2>1. /\ Gray(m)[i] <=> Parity(m, i) # Parity(m, i + 1)
        /\ Gray(n)[i] <=> Parity(n, i) # Parity(n, i + 1)
    BY <1>1, GrayBit
  <2>1a. i \in Nat /\ i + 1 \in Nat
    BY Sizes DEF Bits
  <2>1b. {Parity(m, i), Parity(m, i + 1), Parity(n, i), Parity(n, i + 1)} \subseteq {0, 1}
    BY <1>1, <2>1a, GrayBit
  <2>2. CASE i = ASIZE
    <3>1. i >= ASIZE - 1
      BY <2>2, Sizes
    <3>2. (Parity(m, i) # Parity(m, i + 1)) <=> ~(Parity(n, i) # Parity(n, i + 1))
      BY <1>8, <1>9, <2>1b, <2>2
    <3> QED BY <2>1, <3>1, <3>2
  <2>3. CASE i = ASIZE - 1
    <3>1. i >= ASIZE - 1 /\ i \in 0..ASIZE /\ i # ASIZE /\ i + 1 = ASIZE
      BY <2>3, Sizes
    <3>2. (Parity(m, i) # Parity(m, i + 1)) <=> ~(Parity(n, i) # Parity(n, i + 1))
      BY <1>7, <1>8, <2>1b, <3>1
    <3> QED BY <2>1, <3>1, <3>2
  <2>4. CASE i # ASIZE /\ i # ASIZE - 1
    <3>1. ~(i >= ASIZE - 1) /\ i \in 0..ASIZE /\ i + 1 \in 0..ASIZE /\ i + 1 # ASIZE
      BY <2>4, Sizes DEF Bits
    <3>2. Parity(m, i) = Parity(n, i) /\ Parity(m, i + 1) = Parity(n, i + 1)
      BY <1>7, <2>4, <3>1
    <3> QED BY <2>1, <3>1, <3>2
  <2> QED BY <2>2, <2>3, <2>4
<1> QED BY <1>10 DEF m

(* The comparison of wfull_val is with the pointer a whole FIFO ahead.     *)
Opposite(n) == IF n < Depth THEN n + Depth ELSE n - Depth

LEMMA FullAheadIs ==
  ASSUME NEW n \in Pointers
  PROVE  FullAhead(Gray(n)) = Gray(Opposite(n)) /\ Opposite(n) \in Pointers
<1>1. ASSUME NEW a \in 0..(Depth - 1)
      PROVE  /\ FullAhead(Gray(a)) = Gray(a + Depth)
             /\ FullAhead(Gray(a + Depth)) = Gray(a)
  <2>1. a \in Nat /\ a + Depth \in Nat
    BY Sizes
  <2>2. Gray(a) \in [Bits -> BOOLEAN] /\ Gray(a + Depth) \in [Bits -> BOOLEAN]
    BY <2>1, GrayBit
  <2>3. \A i \in Bits : /\ (IF i >= ASIZE - 1 THEN ~Gray(a)[i] ELSE Gray(a)[i]) = Gray(a + Depth)[i]
                        /\ (IF i >= ASIZE - 1 THEN ~Gray(a + Depth)[i] ELSE Gray(a + Depth)[i]) = Gray(a)[i]
    <3> TAKE i \in Bits
    <3>1. Gray(a + Depth)[i] <=> IF i >= ASIZE - 1 THEN ~Gray(a)[i] ELSE Gray(a)[i]
      BY HalfTurn
    <3>2. Gray(a)[i] \in BOOLEAN /\ Gray(a + Depth)[i] \in BOOLEAN
      BY <2>2
    <3>3. CASE i >= ASIZE - 1
      BY <3>1, <3>2, <3>3
    <3>4. CASE ~(i >= ASIZE - 1)
      BY <3>1, <3>2, <3>4
    <3> QED BY <3>3, <3>4
  <2>4. /\ FullAhead(Gray(a)) = [i \in Bits |-> Gray(a + Depth)[i]]
        /\ FullAhead(Gray(a + Depth)) = [i \in Bits |-> Gray(a)[i]]
    BY <2>3 DEF FullAhead
  <2> QED BY <2>2, <2>4
<1>2. CASE n < Depth
  <2>1. n \in 0..(Depth - 1) /\ n + Depth \in Pointers
    BY <1>2, Sizes DEF Pointers
  <2> QED BY <1>1, <1>2, <2>1 DEF Opposite
<1>3. CASE ~(n < Depth)
  <2>1. n - Depth \in 0..(Depth - 1) /\ (n - Depth) + Depth = n /\ n - Depth \in Pointers
    BY <1>3, Sizes DEF Pointers
  <2>2. FullAhead(Gray(n)) = Gray(n - Depth)
    BY <1>1, <2>1
  <2> QED BY <1>3, <2>1, <2>2 DEF Opposite
<1> QED BY <1>2, <1>3

-----------------------------------------------------------------------------
(* Where the pointers are.                                                 *)

(* The pointer k words before p, and how many words q is before p.         *)
Before(p, k) == IF k <= p THEN p - k ELSE p + 2 * Depth - k
Dist(p, q) == IF q <= p THEN p - q ELSE p + 2 * Depth - q

(* An edge moves a pointer by d words, 1 or 0.                             *)
One(inc) == IF inc THEN 1 ELSE 0
Plus(p, d) == IF d = 1 THEN IF p = 2 * Depth - 1 THEN 0 ELSE p + 1 ELSE p

LEMMA DepthIs == Depth \in Nat /\ Depth >= 4 /\ Pointers = 0..(2 * Depth - 1)
<1>1. ASIZE - 1 \in Nat /\ (ASIZE - 1) + 1 = ASIZE
  BY Sizes
<1>2. ASIZE - 2 \in Nat /\ (ASIZE - 2) + 1 = ASIZE - 1
  BY Sizes
<1> QED BY <1>1, <1>2, Powers DEF Depth, Pointers

LEMMA AddPlus ==
  ASSUME NEW p \in Pointers, NEW inc \in BOOLEAN
  PROVE  Add(p, inc) = Plus(p, One(inc)) /\ One(inc) \in {0, 1}
<1>1. CASE inc = TRUE
  <2>1. Add(p, TRUE) = Plus(p, 1)
    BY AddIs DEF Plus
  <2>2. One(TRUE) = 1
    BY DEF One
  <2> QED BY <1>1, <2>1, <2>2
<1>2. CASE inc = FALSE
  <2>1. Add(p, FALSE) = Plus(p, 0)
    <3>1. Plus(p, 0) = p
      BY DEF Plus
    <3>2. Add(p, FALSE) = p
      BY AddIs
    <3> QED BY <3>1, <3>2
  <2>2. One(FALSE) = 0
    BY DEF One
  <2> QED BY <1>2, <2>1, <2>2
<1> QED BY <1>1, <1>2

LEMMA PointerArithmetic ==
  ASSUME NEW p \in Pointers, NEW q \in Pointers
  PROVE  /\ Dist(p, q) \in 0..(2 * Depth - 1) /\ Before(p, Dist(p, q)) = q
         /\ Before(p, 0) = p
         /\ \A k \in 0..Depth : Before(p, k) \in Pointers
         /\ \A d \in {0, 1} : Plus(p, d) \in Pointers
BY DepthIs DEF Before, Dist, Plus

LEMMA BeforeStep ==
  ASSUME NEW p \in Pointers, NEW d \in {0, 1}, NEW k \in 0..Depth
  PROVE  Before(Plus(p, d), k + d) = Before(p, k)
BY DepthIs DEF Before, Plus

LEMMA DistStep ==
  ASSUME NEW p \in Pointers, NEW q \in Pointers, NEW d \in {0, 1}, NEW e \in {0, 1},
         Dist(p, q) + d - e \in 0..Depth, Dist(p, q) \in 0..Depth
  PROVE  Dist(Plus(p, d), Plus(q, e)) = Dist(p, q) + d - e
BY DepthIs DEF Dist, Plus

(* The pointers that the two comparisons are about.                        *)
LEMMA Meeting ==
  ASSUME NEW p \in Pointers, NEW q \in Pointers, NEW d \in {0, 1}, NEW k \in 0..Depth
  PROVE  /\ k = Dist(p, q) - d => Before(p, k) = Plus(q, d)
         /\ k + d = Depth => Opposite(Before(p, k)) = Plus(p, d)
BY DepthIs DEF Dist, Before, Opposite, Plus

LEMMA WordsIs ==
  ASSUME wbin \in Pointers, rbin \in Pointers
  PROVE  Words = Dist(wbin, rbin)
<1>1. wbin \in 0..(2 * Depth - 1) /\ rbin \in 0..(2 * Depth - 1) /\ Depth \in Nat /\ Depth > 0
  BY DepthIs
<1>2. wbin + 2 * Depth - rbin \in 0..(2 * (2 * Depth) - 1) /\ 2 * Depth \in Nat /\ 2 * Depth > 0
  BY <1>1
<1>3. Words = IF wbin + 2 * Depth - rbin < 2 * Depth THEN wbin + 2 * Depth - rbin ELSE wbin - rbin
  BY <1>1, <1>2, ModOnce DEF Words
<1> QED BY <1>1, <1>3 DEF Dist

-----------------------------------------------------------------------------
(* The inductive invariant.                                                *)

(* Behind the write pointer stand, w1 and w2 words back, the samples the   *)
(* reader holds, then the read pointer, then, r1 and r2 words back, the    *)
(* samples the writer holds.  A reader that is let in has a word by its    *)
(* older sample, a writer that is let in has room by its own: this is what *)
(* the two flags add, and what the order of ages rests on.                 *)
Aged(w1, w2, r1, r2) ==
  /\ rq1_wptr = Gray(Before(wbin, w1)) /\ rq2_wptr = Gray(Before(wbin, w2))
  /\ wq1_rptr = Gray(Before(wbin, r1)) /\ wq2_rptr = Gray(Before(wbin, r2))
  /\ w1 <= w2 /\ w2 <= Dist(wbin, rbin) /\ Dist(wbin, rbin) <= r1 /\ r1 <= r2
  /\ ~rempty => w2 < Dist(wbin, rbin)
  /\ ~wfull => r2 < Depth

PointersTyped ==
  /\ wbin \in Pointers /\ rbin \in Pointers /\ Dist(wbin, rbin) \in 0..Depth
  /\ wptr = Gray(wbin) /\ rptr = Gray(rbin)
  /\ wfull \in BOOLEAN /\ rempty \in BOOLEAN

WordsTyped == mem \in [0..(Depth - 1) -> Data] /\ taken \in Data

SamplesAged == \E w1, w2, r1, r2 \in 0..Depth : Aged(w1, w2, r1, r2)

FifoInv == PointersTyped /\ WordsTyped /\ SamplesAged

(* What an edge does, by the words it moves.                               *)
WriteMoves(a, wdata, seen) ==
  /\ a \in {0, 1} /\ (a = 1 => ~wfull)
  /\ wbin' = Plus(wbin, a) /\ wptr' = Gray(Plus(wbin, a))
  /\ wq1_rptr' = seen /\ wq2_rptr' = wq1_rptr
  /\ wfull' \in BOOLEAN
  /\ ~wfull' => Gray(Plus(wbin, a)) # FullAhead(wq2_rptr)
  /\ mem' = IF a = 1 THEN [mem EXCEPT ![wbin % Depth] = wdata] ELSE mem

ReadMoves(b, seen) ==
  /\ b \in {0, 1} /\ (b = 1 => ~rempty)
  /\ rbin' = Plus(rbin, b) /\ rptr' = Gray(Plus(rbin, b))
  /\ rq1_wptr' = seen /\ rq2_wptr' = rq1_wptr
  /\ rempty' \in BOOLEAN
  /\ ~rempty' => Gray(Plus(rbin, b)) # rq2_wptr
  /\ taken' = IF b = 1 THEN mem[rbin % Depth] ELSE taken

LEMMA WriteEdgeMoves ==
  ASSUME wbin \in Pointers, wfull \in BOOLEAN, NEW winc \in BOOLEAN, NEW wdata, NEW seen,
         WriteEdge(winc, wdata, seen)
  PROVE  /\ WriteMoves(One(winc /\ ~wfull), wdata, seen)
         /\ Add(wbin, winc /\ ~wfull) = Plus(wbin, One(winc /\ ~wfull))
<1> DEFINE write == winc /\ ~wfull
<1>1. write \in BOOLEAN /\ One(write) \in {0, 1} /\ Add(wbin, write) = Plus(wbin, One(write))
  BY AddPlus
<1>2. One(write) = 1 <=> write
  BY DEF One
<1>3. /\ mem' = IF write THEN [mem EXCEPT ![wbin % Depth] = wdata] ELSE mem
      /\ wbin' = Add(wbin, write) /\ wptr' = Gray(Add(wbin, write))
      /\ wq1_rptr' = seen /\ wq2_rptr' = wq1_rptr
      /\ wfull' = (Gray(Add(wbin, write)) = FullAhead(wq2_rptr))
  BY DEF WriteEdge, FullFlag
<1>4. write => ~wfull
  OBVIOUS
<1> HIDE DEF write
<1> QED BY <1>1, <1>2, <1>3, <1>4 DEF WriteMoves, write

LEMMA ReadEdgeMoves ==
  ASSUME rbin \in Pointers, rempty \in BOOLEAN, NEW rinc \in BOOLEAN, NEW seen,
         ReadEdge(rinc, seen)
  PROVE  /\ ReadMoves(One(rinc /\ ~rempty), seen)
         /\ Add(rbin, rinc /\ ~rempty) = Plus(rbin, One(rinc /\ ~rempty))
<1> DEFINE read == rinc /\ ~rempty
<1>1. read \in BOOLEAN /\ One(read) \in {0, 1} /\ Add(rbin, read) = Plus(rbin, One(read))
  BY AddPlus
<1>2. One(read) = 1 <=> read
  BY DEF One
<1>3. /\ taken' = IF read THEN mem[rbin % Depth] ELSE taken
      /\ rbin' = Add(rbin, read) /\ rptr' = Gray(Add(rbin, read))
      /\ rq1_wptr' = seen /\ rq2_wptr' = rq1_wptr
      /\ rempty' = (Gray(Add(rbin, read)) = rq2_wptr)
  BY DEF ReadEdge, EmptyFlag
<1>4. read => ~rempty
  OBVIOUS
<1> HIDE DEF read
<1> QED BY <1>1, <1>2, <1>3, <1>4 DEF ReadMoves, read

(* A sample taken in the middle of a step is one of the two pointers.      *)
LEMMA SeenIsEither ==
  ASSUME NEW n \in Pointers, NEW inc \in BOOLEAN, NEW p \in Samples(Gray(n), Gray(Add(n, inc)))
  PROVE  p = Gray(n) \/ p = Gray(Plus(n, One(inc)))
BY SampleIsEither, AddPlus

(* The steps, with the flags read as distances.                            *)
LEMMA WriteRoom ==
  ASSUME PointersTyped, NEW w1 \in 0..Depth, NEW w2 \in 0..Depth, NEW r1 \in 0..Depth,
         NEW r2 \in 0..Depth, Aged(w1, w2, r1, r2),
         NEW a, NEW wdata, NEW seen, WriteMoves(a, wdata, seen)
  PROVE  r2 + a <= Depth /\ (~wfull' => r2 + a < Depth)
<1>1. /\ wbin \in Pointers /\ rbin \in Pointers /\ a \in {0, 1}
      /\ wq2_rptr = Gray(Before(wbin, r2)) /\ (a = 1 => r2 < Depth)
      /\ ~wfull' => Gray(Plus(wbin, a)) # FullAhead(wq2_rptr)
  BY DEF PointersTyped, Aged, WriteMoves
<1>2. r2 + a <= Depth
  BY <1>1, DepthIs
<1>3. Before(wbin, r2) \in Pointers
  BY <1>1, PointerArithmetic
<1>4. FullAhead(wq2_rptr) = Gray(Opposite(Before(wbin, r2)))
  BY <1>1, <1>3, FullAheadIs
<1>5. r2 + a = Depth => FullAhead(wq2_rptr) = Gray(Plus(wbin, a))
  BY <1>1, <1>4, Meeting
<1>6. ~wfull' => r2 + a # Depth
  BY <1>1, <1>5
<1>7. r2 + a # Depth => r2 + a < Depth
  BY <1>1, <1>2, DepthIs
<1> QED BY <1>2, <1>6, <1>7

LEMMA ReadWord ==
  ASSUME PointersTyped, NEW w1 \in 0..Depth, NEW w2 \in 0..Depth, NEW r1 \in 0..Depth,
         NEW r2 \in 0..Depth, Aged(w1, w2, r1, r2),
         NEW b, NEW seen, ReadMoves(b, seen)
  PROVE  w2 + b <= Dist(wbin, rbin) /\ (~rempty' => w2 + b < Dist(wbin, rbin))
<1> DEFINE d == Dist(wbin, rbin)
<1>1. /\ wbin \in Pointers /\ rbin \in Pointers /\ b \in {0, 1} /\ d \in 0..Depth
      /\ rq2_wptr = Gray(Before(wbin, w2)) /\ w2 <= d /\ (b = 1 => w2 < d)
      /\ ~rempty' => Gray(Plus(rbin, b)) # rq2_wptr
  BY DEF PointersTyped, Aged, ReadMoves
<1>5. w2 = d - b => rq2_wptr = Gray(Plus(rbin, b))
  BY <1>1, Meeting
<1>6. ~rempty' => w2 # d - b
  BY <1>1, <1>5
<1> HIDE DEF d
<1>2. w2 + b <= d
  BY <1>1, DepthIs
<1>7. w2 # d - b => w2 + b < d
  BY <1>1, <1>2, DepthIs
<1> QED BY <1>2, <1>6, <1>7 DEF d

(* One edge of wclk: the writer's samples are a step older.                *)
LEMMA WriteStep ==
  ASSUME PointersTyped, SamplesAged, NEW winc \in BOOLEAN, NEW wdata, WriteEdge(winc, wdata, rptr),
         UNCHANGED rVars
  PROVE  PointersTyped' /\ SamplesAged'
<1>0. PICK d : d = Dist(wbin, rbin)
  OBVIOUS
<1>1. PICK w1, w2, r1, r2 \in 0..Depth : Aged(w1, w2, r1, r2)
  BY DEF SamplesAged
<1>2. PICK a : WriteMoves(a, wdata, rptr)
  BY WriteEdgeMoves DEF PointersTyped
<1>3. r2 + a <= Depth /\ (~wfull' => r2 + a < Depth)
  BY <1>0, <1>1, <1>2, WriteRoom
<1>4. /\ wbin \in Pointers /\ rbin \in Pointers /\ d \in 0..Depth /\ a \in {0, 1}
      /\ rptr = Gray(rbin) /\ rempty \in BOOLEAN /\ rempty' = rempty /\ rbin' = rbin /\ rptr' = rptr
      /\ rq1_wptr' = rq1_wptr /\ rq2_wptr' = rq2_wptr
      /\ wbin' = Plus(wbin, a) /\ wptr' = Gray(Plus(wbin, a)) /\ wfull' \in BOOLEAN
      /\ wq1_rptr' = rptr /\ wq2_rptr' = wq1_rptr
  BY <1>0, <1>2 DEF PointersTyped, WriteMoves, rVars
<1>5. /\ rq1_wptr = Gray(Before(wbin, w1)) /\ rq2_wptr = Gray(Before(wbin, w2))
      /\ wq1_rptr = Gray(Before(wbin, r1))
      /\ w1 <= w2 /\ w2 <= d /\ d <= r1 /\ r1 <= r2 /\ (~rempty => w2 < d)
  BY <1>0, <1>1 DEF Aged
<1>6. Dist(wbin', rbin') = d + a /\ d + a \in 0..Depth
  <2>1. d + a - 0 \in 0..Depth
    BY <1>3, <1>4, <1>5, DepthIs
  <2>2. Dist(Plus(wbin, a), Plus(rbin, 0)) = d + a - 0
    BY <1>4, <2>1, <1>0, DistStep
  <2>3. Plus(rbin, 0) = rbin
    BY DEF Plus
  <2>4. d + a - 0 = d + a
    BY <1>4, DepthIs
  <2> QED BY <1>4, <2>1, <2>2, <2>3, <2>4
<1>7. PointersTyped'
  <2>1. wbin' \in Pointers
    BY <1>4, PointerArithmetic
  <2> QED BY <1>4, <1>6, <2>1 DEF PointersTyped
<1>8. \A k \in 0..Depth : Before(wbin', k + a) = Before(wbin, k)
  BY <1>4, BeforeStep
<1>9. Before(wbin, d) = rbin
  BY <1>0, <1>4, PointerArithmetic
<1>10. /\ w1 + a \in 0..Depth /\ w2 + a \in 0..Depth /\ d + a \in 0..Depth /\ r1 + a \in 0..Depth
       /\ w1 + a <= w2 + a /\ w2 + a <= d + a /\ d + a <= d + a /\ d + a <= r1 + a
       /\ (w2 < d => w2 + a < d + a)
       /\ (r2 + a < Depth => r1 + a < Depth)
  BY <1>3, <1>4, <1>5, DepthIs
<1>11. Aged(w1 + a, w2 + a, d + a, r1 + a)'
  BY <1>3, <1>4, <1>5, <1>6, <1>8, <1>9, <1>10 DEF Aged
<1>12. SamplesAged'
  BY <1>10, <1>11 DEF SamplesAged
<1> QED BY <1>7, <1>12

(* One edge of rclk.                                                       *)
LEMMA ReadStep ==
  ASSUME PointersTyped, SamplesAged, NEW rinc \in BOOLEAN, ReadEdge(rinc, wptr), UNCHANGED wVars
  PROVE  PointersTyped' /\ SamplesAged'
<1>0. PICK d : d = Dist(wbin, rbin)
  OBVIOUS
<1>1. PICK w1, w2, r1, r2 \in 0..Depth : Aged(w1, w2, r1, r2)
  BY DEF SamplesAged
<1>2. PICK b : ReadMoves(b, wptr)
  BY ReadEdgeMoves DEF PointersTyped
<1>3. w2 + b <= d /\ (~rempty' => w2 + b < d)
  BY <1>0, <1>1, <1>2, ReadWord
<1>4. /\ wbin \in Pointers /\ rbin \in Pointers /\ d \in 0..Depth /\ b \in {0, 1}
      /\ wptr = Gray(wbin) /\ wfull \in BOOLEAN /\ wfull' = wfull /\ wbin' = wbin /\ wptr' = wptr
      /\ wq1_rptr' = wq1_rptr /\ wq2_rptr' = wq2_rptr
      /\ rbin' = Plus(rbin, b) /\ rptr' = Gray(Plus(rbin, b)) /\ rempty' \in BOOLEAN
      /\ rq1_wptr' = wptr /\ rq2_wptr' = rq1_wptr
  BY <1>0, <1>2 DEF PointersTyped, ReadMoves, wVars
<1>5. /\ rq1_wptr = Gray(Before(wbin, w1))
      /\ wq1_rptr = Gray(Before(wbin, r1)) /\ wq2_rptr = Gray(Before(wbin, r2))
      /\ w1 <= w2 /\ w2 <= d /\ d <= r1 /\ r1 <= r2 /\ (~wfull => r2 < Depth)
  BY <1>0, <1>1 DEF Aged
<1>6. Dist(wbin', rbin') = d - b /\ d - b \in 0..Depth
  <2>1. d + 0 - b \in 0..Depth
    BY <1>3, <1>4, <1>5, DepthIs
  <2>2. Dist(Plus(wbin, 0), Plus(rbin, b)) = d + 0 - b
    BY <1>4, <2>1, <1>0, DistStep
  <2>3. Plus(wbin, 0) = wbin
    BY DEF Plus
  <2>4. d + 0 - b = d - b
    BY <1>4, DepthIs
  <2> QED BY <1>4, <2>1, <2>2, <2>3, <2>4
<1>7. PointersTyped'
  <2>1. rbin' \in Pointers
    BY <1>4, PointerArithmetic
  <2> QED BY <1>4, <1>6, <2>1 DEF PointersTyped
<1>8. Before(wbin, 0) = wbin
  BY <1>4, PointerArithmetic
<1>9. /\ 0 \in 0..Depth /\ 0 <= w1 /\ w1 <= d - b /\ d - b <= r1
      /\ (w2 + b < d => w1 < d - b)
  BY <1>3, <1>4, <1>5, DepthIs
<1>10. Aged(0, w1, r1, r2)'
  BY <1>3, <1>4, <1>5, <1>6, <1>8, <1>9 DEF Aged
<1>11. SamplesAged'
  BY <1>9, <1>10 DEF SamplesAged
<1> QED BY <1>7, <1>11

(* Both edges together: each side samples the other while it moves.        *)
LEMMA BothStep ==
  ASSUME PointersTyped, SamplesAged, NEW winc \in BOOLEAN, NEW rinc \in BOOLEAN, NEW wdata,
         NEW rseen \in Samples(rptr, Gray(Add(rbin, rinc /\ ~rempty))),
         NEW wseen \in Samples(wptr, Gray(Add(wbin, winc /\ ~wfull))),
         WriteEdge(winc, wdata, rseen), ReadEdge(rinc, wseen)
  PROVE  PointersTyped' /\ SamplesAged'
<1> DEFINE m == One(winc /\ ~wfull)
           n == One(rinc /\ ~rempty)
<1>0. PICK d : d = Dist(wbin, rbin)
  OBVIOUS
<1>1. PICK w1, w2, r1, r2 \in 0..Depth : Aged(w1, w2, r1, r2)
  BY DEF SamplesAged
<1>2. WriteMoves(m, wdata, rseen) /\ ReadMoves(n, wseen)
  BY WriteEdgeMoves, ReadEdgeMoves DEF PointersTyped
<1>2a. /\ rseen = Gray(rbin) \/ rseen = Gray(Plus(rbin, n))
       /\ wseen = Gray(wbin) \/ wseen = Gray(Plus(wbin, m))
  BY SeenIsEither DEF PointersTyped
<1> HIDE DEF m, n
<1>3. PICK a, b :
        /\ WriteMoves(a, wdata, rseen) /\ ReadMoves(b, wseen)
        /\ rseen = Gray(rbin) \/ rseen = Gray(Plus(rbin, b))
        /\ wseen = Gray(wbin) \/ wseen = Gray(Plus(wbin, a))
  BY <1>2, <1>2a
<1>4. /\ r2 + a <= Depth /\ (~wfull' => r2 + a < Depth)
      /\ w2 + b <= d /\ (~rempty' => w2 + b < d)
  BY <1>0, <1>1, <1>3, WriteRoom, ReadWord
<1>5. /\ wbin \in Pointers /\ rbin \in Pointers /\ d \in 0..Depth /\ a \in {0, 1} /\ b \in {0, 1}
      /\ wbin' = Plus(wbin, a) /\ wptr' = Gray(Plus(wbin, a)) /\ wfull' \in BOOLEAN
      /\ wq1_rptr' = rseen /\ wq2_rptr' = wq1_rptr
      /\ rbin' = Plus(rbin, b) /\ rptr' = Gray(Plus(rbin, b)) /\ rempty' \in BOOLEAN
      /\ rq1_wptr' = wseen /\ rq2_wptr' = rq1_wptr
  BY <1>0, <1>3 DEF PointersTyped, WriteMoves, ReadMoves
<1>6. /\ rq1_wptr = Gray(Before(wbin, w1)) /\ wq1_rptr = Gray(Before(wbin, r1))
      /\ w1 <= w2 /\ w2 <= d /\ d <= r1 /\ r1 <= r2
  BY <1>0, <1>1 DEF Aged
<1>7. Dist(wbin', rbin') = d + a - b /\ d + a - b \in 0..Depth
  <2>1. d + a - b \in 0..Depth
    BY <1>4, <1>5, <1>6, DepthIs
  <2> QED BY <1>5, <2>1, <1>0, DistStep
<1>8. wbin' \in Pointers /\ rbin' \in Pointers
  BY <1>5, PointerArithmetic
<1>9. PointersTyped'
  BY <1>5, <1>7, <1>8 DEF PointersTyped
<1>10. \A k \in 0..Depth : Before(wbin', k + a) = Before(wbin, k)
  BY <1>5, BeforeStep
<1>11. Before(wbin, d) = rbin /\ Before(wbin, 0) = wbin /\ Before(wbin', 0) = wbin'
       /\ Before(wbin', d + a - b) = rbin'
  BY <1>0, <1>5, <1>7, <1>8, PointerArithmetic
<1>12. /\ 0 \in 0..Depth /\ a \in 0..Depth /\ w1 + a \in 0..Depth /\ d + a \in 0..Depth
       /\ r1 + a \in 0..Depth
       /\ 0 <= w1 + a /\ 0 + a <= w1 + a /\ 0 + a = a /\ w1 + a <= d + a - b
       /\ d + a - b <= d + a /\ d + a - b <= d + a - b
       /\ d + a <= r1 + a /\ d + a - b <= r1 + a
       /\ (w2 + b < d => w1 + a < d + a - b)
       /\ (r2 + a < Depth => r1 + a < Depth)
  BY <1>4, <1>5, <1>6, DepthIs
<1>13. \E w \in {0, a} : w \in 0..Depth /\ wseen = Gray(Before(wbin', w)) /\ w <= w1 + a
  BY <1>3, <1>5, <1>10, <1>11, <1>12
<1>14. \E r \in {d + a, d + a - b} : r \in 0..Depth /\ rseen = Gray(Before(wbin', r))
                                     /\ d + a - b <= r /\ r <= r1 + a
  <2>1. d \in 0..Depth
    BY <1>5
  <2>2. Before(wbin', d + a) = rbin
    BY <1>10, <1>11, <2>1
  <2> QED BY <1>3, <1>5, <1>7, <1>11, <1>12, <2>2
<1>15. PICK w \in 0..Depth : wseen = Gray(Before(wbin', w)) /\ w <= w1 + a
  BY <1>13
<1>16. PICK r \in 0..Depth : rseen = Gray(Before(wbin', r)) /\ d + a - b <= r /\ r <= r1 + a
  BY <1>14
<1>17. Aged(w, w1 + a, r, r1 + a)'
  BY <1>4, <1>5, <1>6, <1>7, <1>10, <1>12, <1>15, <1>16 DEF Aged
<1>18. SamplesAged'
  BY <1>12, <1>15, <1>16, <1>17 DEF SamplesAged
<1> QED BY <1>9, <1>18

(* After a reset, and at power-up.                                         *)
Cleared ==
  /\ wbin = 0 /\ rbin = 0 /\ wptr = Gray(0) /\ rptr = Gray(0) /\ wfull = FALSE /\ rempty = TRUE
  /\ wq1_rptr = Gray(0) /\ wq2_rptr = Gray(0) /\ rq1_wptr = Gray(0) /\ rq2_wptr = Gray(0)

LEMMA ClearedPointers == Cleared => PointersTyped /\ SamplesAged
<1> SUFFICES ASSUME Cleared PROVE PointersTyped /\ SamplesAged
  OBVIOUS
<1>1. /\ 0 \in Pointers /\ 0 \in 0..Depth /\ Dist(0, 0) = 0 /\ Before(0, 0) = 0 /\ 0 < Depth
      /\ 0 <= 0
  BY DepthIs DEF Dist, Before
<1>2. PointersTyped
  BY <1>1 DEF PointersTyped, Cleared
<1>3. Aged(0, 0, 0, 0)
  BY <1>1 DEF Aged, Cleared
<1> QED BY <1>1, <1>2, <1>3 DEF SamplesAged

LEMMA PowerUp ==
  ASSUME Init
  PROVE  FifoInv
<1>1. PointersTyped /\ SamplesAged
  BY ClearedPointers DEF Init, Cleared
<1>2. WordsTyped
  BY DataAssumption DEF Init, WordsTyped, DataAssumption
<1> QED BY <1>1, <1>2 DEF FifoInv

LEMMA ResetKeeps ==
  ASSUME FifoInv, Reset
  PROVE  FifoInv'
<1>1. PointersTyped' /\ SamplesAged'
  <2>1. (Cleared => PointersTyped /\ SamplesAged)'
    BY ClearedPointers, PTL
  <2> QED BY <2>1 DEF Reset, Cleared
<1>2. WordsTyped'
  BY DataAssumption DEF Reset, WordsTyped, FifoInv, DataAssumption
<1> QED BY <1>1, <1>2 DEF FifoInv

LEMMA SlotInMem ==
  ASSUME NEW p \in Pointers
  PROVE  p % Depth \in 0..(Depth - 1) /\ p % Depth = IF p < Depth THEN p ELSE p - Depth
<1>1. p % Depth = IF p < Depth THEN p ELSE p - Depth
  BY DepthIs, ModOnce
<1> QED BY <1>1, DepthIs

(* Every step keeps the words in the memory, whichever edge it is.         *)
LEMMA WordsKept ==
  ASSUME wbin \in Pointers, rbin \in Pointers, WordsTyped,
         mem' = mem \/ \E wdata \in Data : mem' = [mem EXCEPT ![wbin % Depth] = wdata],
         taken' = taken \/ taken' = mem[rbin % Depth]
  PROVE  WordsTyped'
BY SlotInMem DEF WordsTyped

LEMMA FifoStep ==
  ASSUME FifoInv, [Next]_vars
  PROVE  FifoInv'
<1> USE DEF FifoInv
<1>0. wbin \in Pointers /\ rbin \in Pointers /\ wfull \in BOOLEAN /\ rempty \in BOOLEAN
  BY DEF PointersTyped
<1>1. CASE Write(Data)
  <2>1. PICK winc \in BOOLEAN, wdata \in Data : WriteEdge(winc, wdata, rptr)
    BY <1>1 DEF Write
  <2>2. PointersTyped' /\ SamplesAged'
    BY <1>1, <2>1, WriteStep DEF Write
  <2>3. WriteMoves(One(winc /\ ~wfull), wdata, rptr)
    BY <1>0, <2>1, WriteEdgeMoves
  <2>4. WordsTyped'
    BY <1>0, <1>1, <2>3, WordsKept DEF WriteMoves, Write, rVars
  <2> QED BY <2>2, <2>4
<1>2. CASE Read
  <2>1. PICK rinc \in BOOLEAN : ReadEdge(rinc, wptr)
    BY <1>2 DEF Read
  <2>2. PointersTyped' /\ SamplesAged'
    BY <1>2, <2>1, ReadStep DEF Read
  <2>3. ReadMoves(One(rinc /\ ~rempty), wptr)
    BY <1>0, <2>1, ReadEdgeMoves
  <2>4. WordsTyped'
    BY <1>0, <1>2, <2>3, WordsKept DEF ReadMoves, Read, wVars
  <2> QED BY <2>2, <2>4
<1>3. CASE Both(Data)
  <2>1. PICK winc \in BOOLEAN, rinc \in BOOLEAN, wdata \in Data :
          \E rseen \in Samples(rptr, Gray(Add(rbin, rinc /\ ~rempty))),
             wseen \in Samples(wptr, Gray(Add(wbin, winc /\ ~wfull))) :
            WriteEdge(winc, wdata, rseen) /\ ReadEdge(rinc, wseen)
    BY <1>3 DEF Both
  <2>2. PICK rseen \in Samples(rptr, Gray(Add(rbin, rinc /\ ~rempty))),
             wseen \in Samples(wptr, Gray(Add(wbin, winc /\ ~wfull))) :
            WriteEdge(winc, wdata, rseen) /\ ReadEdge(rinc, wseen)
    BY <2>1
  <2>3. PointersTyped' /\ SamplesAged'
    BY <2>2, BothStep
  <2>4. /\ WriteMoves(One(winc /\ ~wfull), wdata, rseen)
        /\ ReadMoves(One(rinc /\ ~rempty), wseen)
    BY <1>0, <2>2, WriteEdgeMoves, ReadEdgeMoves
  <2>5. WordsTyped'
    BY <1>0, <2>4, WordsKept DEF WriteMoves, ReadMoves
  <2> QED BY <2>3, <2>5
<1>4. CASE Reset
  BY <1>4, ResetKeeps
<1>5. CASE UNCHANGED vars
  <2>1. PointersTyped' /\ WordsTyped'
    BY <1>5 DEF PointersTyped, WordsTyped, vars, wVars, rVars
  <2>2. PICK w1, w2, r1, r2 \in 0..Depth : Aged(w1, w2, r1, r2)
    BY DEF SamplesAged
  <2>3. Aged(w1, w2, r1, r2)'
    BY <1>5, <2>2 DEF Aged, vars, wVars, rVars
  <2>4. SamplesAged'
    BY <2>3 DEF SamplesAged
  <2> QED BY <2>1, <2>4
<1> QED BY <1>1, <1>2, <1>3, <1>4, <1>5 DEF Next, Clocks

LEMMA FifoAlways == Spec => []FifoInv
<1>1. Init => FifoInv
  BY PowerUp
<1>2. FifoInv /\ [Next]_vars => FifoInv'
  BY FifoStep
<1> QED BY <1>1, <1>2, PTL DEF Spec

-----------------------------------------------------------------------------
LEMMA BackIsBefore ==
  ASSUME NEW p \in Pointers, NEW k \in 0..Depth
  PROVE  (p + 2 * Depth - k) % (2 * Depth) = Before(p, k)
<1>1. /\ 2 * Depth \in Nat /\ 2 * Depth > 0 /\ p + 2 * Depth - k \in 0..(2 * (2 * Depth) - 1)
      /\ (p + 2 * Depth - k) - 2 * Depth = p - k /\ (p + 2 * Depth - k < 2 * Depth <=> ~(k <= p))
  BY DepthIs
<1> QED BY <1>1, ModOnce DEF Before

(* No pointer is ever sampled that the other side did not have, and the    *)
(* samples age in order, whatever the two clocks do.                       *)
THEOREM SamplesAreOldPointers == Spec => []SamplesLag
<1>1. ASSUME FifoInv PROVE SamplesLag
  <2>1. wbin \in Pointers /\ rbin \in Pointers /\ Words = Dist(wbin, rbin)
    BY <1>1, WordsIs DEF FifoInv, PointersTyped
  <2>2. PICK w1, w2, r1, r2 \in 0..Depth : Aged(w1, w2, r1, r2)
    BY <1>1 DEF FifoInv, SamplesAged
  <2>3. \A k \in {w1, w2, r1, r2} :
          Gray((wbin + 2 * Depth - k) % (2 * Depth)) = Gray(Before(wbin, k))
    BY <2>1, BackIsBefore
  <2> QED BY <2>1, <2>2, <2>3 DEF Aged, SamplesLag
<1>2. FifoInv => SamplesLag
  BY <1>1
<1> QED BY <1>2, FifoAlways, PTL

(* The registers hold what they have bits for, and the pointers are never  *)
(* more than the size of the FIFO apart.                                   *)
THEOREM AsyncFifoTypeCorrect == Spec => []TypeOK
<1>1. ASSUME FifoInv PROVE TypeOK
  <2>1. wbin \in Pointers /\ rbin \in Pointers /\ Words \in 0..Depth
    BY <1>1, WordsIs DEF FifoInv, PointersTyped
  <2>2. \A p \in Pointers : Gray(p) \in [Bits -> BOOLEAN]
    <3>1. Pointers \subseteq Nat
      BY DepthIs
    <3> QED BY <3>1, GrayBit
  <2>3. PICK w1, w2, r1, r2 \in 0..Depth : Aged(w1, w2, r1, r2)
    BY <1>1 DEF FifoInv, SamplesAged
  <2>4. \A k \in {w1, w2, r1, r2} : Before(wbin, k) \in Pointers
    BY <2>1, PointerArithmetic
  <2>5. {wptr, wq1_rptr, wq2_rptr, rptr, rq1_wptr, rq2_wptr} \subseteq [Bits -> BOOLEAN]
    BY <1>1, <2>1, <2>2, <2>3, <2>4 DEF Aged, FifoInv, PointersTyped
  <2> QED BY <1>1, <2>1, <2>5 DEF TypeOK, FifoInv, PointersTyped, WordsTyped
<1>2. FifoInv => TypeOK
  BY <1>1
<1> QED BY <1>2, FifoAlways, PTL

-----------------------------------------------------------------------------
(* The words stored.                                                       *)

LEMMA ModTwice ==
  ASSUME NEW n \in Nat, n > 0, NEW x \in 0..(3 * n - 1)
  PROVE  x % n = IF x < n THEN x ELSE IF x < 2 * n THEN x - n ELSE x - 2 * n
OBVIOUS

(* The slot k words after the pointer q.                                   *)
Slot(q, k) == (q + k) % Depth

LEMMA SlotIs ==
  ASSUME NEW q \in Pointers, NEW k \in 0..Depth
  PROVE  Slot(q, k) = IF q + k < Depth THEN q + k
                      ELSE IF q + k < 2 * Depth THEN q + k - Depth ELSE q + k - 2 * Depth
<1> DEFINE x == q + k
<1>1. Depth \in Nat /\ Depth > 0 /\ x \in 0..(3 * Depth - 1)
  BY DepthIs
<1> HIDE DEF x
<1>2. x % Depth = IF x < Depth THEN x ELSE IF x < 2 * Depth THEN x - Depth ELSE x - 2 * Depth
  BY <1>1, ModTwice
<1>3. Slot(q, k) = x % Depth
  BY DEF Slot, x
<1>4. Slot(q, k) = IF x < Depth THEN x ELSE IF x < 2 * Depth THEN x - Depth ELSE x - 2 * Depth
  BY <1>2, <1>3
<1> QED BY <1>4, DepthIs DEF x

LEMMA SlotStep ==
  ASSUME NEW q \in Pointers, NEW k \in 0..(Depth - 1)
  PROVE  /\ Slot(q, k) \in 0..(Depth - 1)
         /\ Slot(Plus(q, 1), k) = Slot(q, k + 1)
         /\ \A m \in 0..(Depth - 1) : m # k => Slot(q, m) # Slot(q, k)
<1>1. k \in 0..Depth /\ k + 1 \in 0..Depth /\ 0..(Depth - 1) \subseteq 0..Depth
  BY DepthIs
<1>2. Plus(q, 1) \in Pointers
  BY PointerArithmetic
<1>3. Slot(q, k) \in 0..(Depth - 1)
  <2>1. Slot(q, k) = IF q + k < Depth THEN q + k
                     ELSE IF q + k < 2 * Depth THEN q + k - Depth ELSE q + k - 2 * Depth
    BY <1>1, SlotIs
  <2> QED BY <2>1, DepthIs
<1>4. Slot(Plus(q, 1), k) = Slot(q, k + 1)
  BY <1>1, <1>2, SlotIs, DepthIs DEF Plus
<1>5. ASSUME NEW m \in 0..(Depth - 1), m # k PROVE Slot(q, m) # Slot(q, k)
  <2>1. m \in 0..Depth
    BY <1>1
  <2>2. Slot(q, k) = IF q + k < Depth THEN q + k
                     ELSE IF q + k < 2 * Depth THEN q + k - Depth ELSE q + k - 2 * Depth
    BY <1>1, SlotIs
  <2>3. Slot(q, m) = IF q + m < Depth THEN q + m
                     ELSE IF q + m < 2 * Depth THEN q + m - Depth ELSE q + m - 2 * Depth
    BY <2>1, SlotIs
  <2> QED BY <1>5, <2>2, <2>3, DepthIs
<1> QED BY <1>3, <1>4, <1>5

LEMMA SlotAtPointer ==
  ASSUME NEW p \in Pointers, NEW q \in Pointers, Dist(p, q) \in 0..Depth
  PROVE  p % Depth = Slot(q, Dist(p, q)) /\ q % Depth = Slot(q, 0)
<1>1. p % Depth = IF p < Depth THEN p ELSE p - Depth
  BY SlotInMem
<1>2. Slot(q, Dist(p, q)) = IF p < Depth THEN p ELSE p - Depth
  BY SlotIs, DepthIs DEF Dist
<1>3. q + 0 = q
  BY DepthIs
<1> QED BY <1>1, <1>2, <1>3 DEF Slot

(* Sequences from their cells.                                             *)
LEMMA SeqPut ==
  ASSUME NEW D, NEW s \in Seq(D), NEW t \in Seq(D), NEW d \in D, Len(t) = Len(s) + 1,
         \A i \in 1..Len(t) : t[i] = IF i <= Len(s) THEN s[i] ELSE d
  PROVE  t = Append(s, d)
<1>1. Len(s) \in Nat
  BY LenProperties
<1>2. Append(s, d) \in Seq(D) /\ Len(Append(s, d)) = Len(t)
  BY AppendProperties
<1>3. ASSUME NEW i \in 1..Len(t) PROVE t[i] = Append(s, d)[i]
  <2>1. i \in 1..Len(s) \/ i = Len(s) + 1
    BY <1>1
  <2> QED BY <1>1, <2>1, AppendProperties
<1> QED BY <1>2, <1>3, SeqEqual

LEMMA SeqGet ==
  ASSUME NEW D, NEW s \in Seq(D), NEW t \in Seq(D), Len(s) > 0, Len(t) = Len(s) - 1,
         \A i \in 1..Len(t) : t[i] = s[i + 1]
  PROVE  s # <<>> /\ t = Tail(s) /\ Head(s) = s[1]
<1>1. Len(s) \in Nat
  BY LenProperties
<1>2. s # <<>>
  BY EmptySeq
<1>3. /\ Tail(s) \in Seq(D) /\ Len(Tail(s)) = Len(t)
      /\ \A i \in 1..Len(Tail(s)) : Tail(s)[i] = s[i + 1]
  BY <1>2, HeadTailProperties
<1>4. t = Tail(s)
  BY <1>3, SeqEqual
<1> QED BY <1>2, <1>4

LEMMA SeqPutGet ==
  ASSUME NEW D, NEW s \in Seq(D), NEW t \in Seq(D), NEW d \in D, Len(s) > 0, Len(t) = Len(s),
         \A i \in 1..Len(t) : t[i] = IF i < Len(s) THEN s[i + 1] ELSE d
  PROVE  s # <<>> /\ t = Append(Tail(s), d) /\ Head(s) = s[1]
<1>1. Len(s) \in Nat
  BY LenProperties
<1>2. s # <<>>
  BY EmptySeq
<1>3. /\ Tail(s) \in Seq(D) /\ Len(Tail(s)) = Len(s) - 1
      /\ \A i \in 1..Len(Tail(s)) : Tail(s)[i] = s[i + 1]
  BY <1>2, HeadTailProperties
<1>4. \A i \in 1..Len(t) : t[i] = IF i <= Len(Tail(s)) THEN Tail(s)[i] ELSE d
  BY <1>1, <1>3
<1>5. t = Append(Tail(s), d)
  BY <1>1, <1>3, <1>4, SeqPut
<1>6. Head(s) = s[1]
  BY <1>2
<1> QED BY <1>2, <1>5, <1>6

(* What a step does to the words stored: a words go in and b come out.     *)
Count == Dist(wbin, rbin)

Moves(a, b, d) ==
  /\ a \in {0, 1} /\ (a = 1 => Count < Depth)
  /\ b \in {0, 1} /\ (b = 1 => 0 < Count)
  /\ wbin' = Plus(wbin, a) /\ rbin' = Plus(rbin, b)
  /\ mem' = IF a = 1 THEN [mem EXCEPT ![wbin % Depth] = d] ELSE mem
  /\ taken' = IF b = 1 THEN mem[rbin % Depth] ELSE taken

LEMMA StepMoves ==
  ASSUME FifoInv, [Next]_vars
  PROVE  (\E a, b \in {0, 1} : \E d \in Data : Moves(a, b, d)) \/ Reset
<1>1. wbin \in Pointers /\ rbin \in Pointers /\ wfull \in BOOLEAN /\ rempty \in BOOLEAN
  BY DEF FifoInv, PointersTyped
<1>2. (~wfull => Count < Depth) /\ (~rempty => 0 < Count)
  <2>1. PICK w1, w2, r1, r2 \in 0..Depth : Aged(w1, w2, r1, r2)
    BY DEF FifoInv, SamplesAged
  <2>2. /\ Count \in 0..Depth /\ Count <= r1 /\ r1 <= r2 /\ (~wfull => r2 < Depth)
        /\ (~rempty => w2 < Count)
    BY <2>1 DEF Aged, FifoInv, PointersTyped, Count
  <2>3. (r2 < Depth => Count < Depth) /\ (w2 < Count => 0 < Count)
    BY <2>2, DepthIs
  <2> QED BY <2>2, <2>3
<1>3. Plus(wbin, 0) = wbin /\ Plus(rbin, 0) = rbin
  BY DEF Plus
<1>4. ASSUME NEW a, NEW wdata \in Data, NEW seen, WriteMoves(a, wdata, seen)
      PROVE  /\ a \in {0, 1} /\ (a = 1 => Count < Depth) /\ wbin' = Plus(wbin, a)
             /\ mem' = IF a = 1 THEN [mem EXCEPT ![wbin % Depth] = wdata] ELSE mem
  BY <1>2, <1>4 DEF WriteMoves
<1>5. ASSUME NEW b, NEW seen, ReadMoves(b, seen)
      PROVE  /\ b \in {0, 1} /\ (b = 1 => 0 < Count) /\ rbin' = Plus(rbin, b)
             /\ taken' = IF b = 1 THEN mem[rbin % Depth] ELSE taken
  BY <1>2, <1>5 DEF ReadMoves
<1>6. Zero \in Data
  BY DataAssumption DEF DataAssumption
<1>7. CASE Write(Data)
  <2>1. PICK winc \in BOOLEAN, wdata \in Data : WriteEdge(winc, wdata, rptr)
    BY <1>7 DEF Write
  <2>2. PICK a : WriteMoves(a, wdata, rptr)
    BY <1>1, <2>1, WriteEdgeMoves
  <2>3. Moves(a, 0, wdata)
    BY <1>3, <1>4, <1>7, <2>2 DEF Moves, Write, rVars
  <2> QED BY <1>4, <2>2, <2>3
<1>8. CASE Read
  <2>1. PICK rinc \in BOOLEAN : ReadEdge(rinc, wptr)
    BY <1>8 DEF Read
  <2>2. PICK b : ReadMoves(b, wptr)
    BY <1>1, <2>1, ReadEdgeMoves
  <2>3. Moves(0, b, Zero)
    BY <1>3, <1>5, <1>8, <2>2 DEF Moves, Read, wVars
  <2> QED BY <1>5, <1>6, <2>2, <2>3
<1>9. CASE Both(Data)
  <2>1. PICK winc \in BOOLEAN, rinc \in BOOLEAN, wdata \in Data :
          \E rseen, wseen : WriteEdge(winc, wdata, rseen) /\ ReadEdge(rinc, wseen)
    BY <1>9 DEF Both
  <2>2. PICK a, b : \E rseen, wseen : WriteMoves(a, wdata, rseen) /\ ReadMoves(b, wseen)
    BY <1>1, <2>1, WriteEdgeMoves, ReadEdgeMoves
  <2>3. a \in {0, 1} /\ b \in {0, 1} /\ Moves(a, b, wdata)
    BY <1>4, <1>5, <2>2 DEF Moves
  <2> QED BY <2>3
<1>10. CASE UNCHANGED vars
  <2>1. Moves(0, 0, Zero)
    BY <1>3, <1>10 DEF Moves, vars, wVars, rVars
  <2> QED BY <1>6, <2>1
<1> QED BY <1>7, <1>8, <1>9, <1>10 DEF Next, Clocks

StoredFacts ==
  /\ Stored \in Seq(Data)
  /\ Len(Stored) = Count
  /\ \A i \in 1..Count : Stored[i] = mem[Slot(rbin, i - 1)]

LEMMA StoredWords == FifoInv => StoredFacts
<1> SUFFICES ASSUME FifoInv PROVE StoredFacts
  OBVIOUS
<1>1. wbin \in Pointers /\ rbin \in Pointers /\ Count \in 0..Depth /\ Words = Count
      /\ mem \in [0..(Depth - 1) -> Data]
  BY WordsIs DEF FifoInv, PointersTyped, WordsTyped, Count
<1>2. Count \in Nat
  BY <1>1, DepthIs
<1>3. ASSUME NEW i \in 1..Count
      PROVE  mem[(rbin + i - 1) % Depth] = mem[Slot(rbin, i - 1)] /\ mem[Slot(rbin, i - 1)] \in Data
  <2>1. i - 1 \in 0..(Depth - 1) /\ rbin + i - 1 = rbin + (i - 1)
    BY <1>1, DepthIs
  <2>2. Slot(rbin, i - 1) \in 0..(Depth - 1)
    BY <1>1, <2>1, SlotStep
  <2>3. (rbin + i - 1) % Depth = Slot(rbin, i - 1)
    BY <2>1 DEF Slot
  <2> QED BY <1>1, <2>2, <2>3
<1>4. Stored = [i \in 1..Count |-> mem[(rbin + i - 1) % Depth]]
  BY <1>1 DEF Stored
<1>5. \A i \in 1..Count : Stored[i] = mem[Slot(rbin, i - 1)]
  BY <1>3, <1>4
<1>6. Stored \in [1..Count -> Data]
  BY <1>3, <1>4
<1>7. Stored \in Seq(Data)
  BY <1>2, <1>6, SeqDef
<1>8. Len(Stored) = Count
  BY <1>2, <1>6, <1>7, LenProperties
<1> QED BY <1>5, <1>7, <1>8 DEF StoredFacts

LEMMA StoredWordsNext == (FifoInv => StoredFacts)'
  BY StoredWords, PTL

(* The cells after a step: those stored before, from the b-th on, and the  *)
(* word that went in.                                                      *)
LEMMA CellsMove ==
  ASSUME FifoInv, FifoInv', NEW a \in {0, 1}, NEW b \in {0, 1}, NEW d \in Data, Moves(a, b, d)
  PROVE  /\ Stored \in Seq(Data) /\ Stored' \in Seq(Data)
         /\ Len(Stored) \in 0..Depth /\ Len(Stored') = Len(Stored) + a - b
         /\ \A i \in 1..Len(Stored') :
              Stored'[i] = IF i + b <= Len(Stored) THEN Stored[i + b] ELSE d
         /\ b = 1 => taken' = Stored[1]
<1>0. PICK n : n = Count
  OBVIOUS
<1>1. /\ wbin \in Pointers /\ rbin \in Pointers /\ n \in 0..Depth /\ n + a - b \in 0..Depth
      /\ mem \in [0..(Depth - 1) -> Data]
      /\ wbin' = Plus(wbin, a) /\ rbin' = Plus(rbin, b)
      /\ (a = 1 => n < Depth) /\ (b = 1 => 0 < n)
  <2>1. /\ wbin \in Pointers /\ rbin \in Pointers /\ n \in 0..Depth
        /\ mem \in [0..(Depth - 1) -> Data]
        /\ wbin' = Plus(wbin, a) /\ rbin' = Plus(rbin, b)
        /\ (a = 1 => n < Depth) /\ (b = 1 => 0 < n)
    BY <1>0 DEF FifoInv, PointersTyped, WordsTyped, Count, Moves
  <2>2. n + a - b \in 0..Depth
    BY <2>1, DepthIs
  <2> QED BY <2>1, <2>2
<1>2. Count' = n + a - b
  BY <1>0, <1>1, DistStep DEF Count
<1>3. /\ Stored \in Seq(Data) /\ Len(Stored) = n
      /\ Stored' \in Seq(Data) /\ Len(Stored') = n + a - b
      /\ \A i \in 1..n : Stored[i] = mem[Slot(rbin, i - 1)]
      /\ \A i \in 1..(n + a - b) : Stored'[i] = mem'[Slot(Plus(rbin, b), i - 1)]
  <2>1. StoredFacts /\ StoredFacts'
    BY StoredWords, StoredWordsNext
  <2>2. /\ Stored' \in Seq(Data) /\ Len(Stored') = Count'
        /\ \A i \in 1..Count' : Stored'[i] = mem'[Slot(rbin', i - 1)]
    BY <2>1 DEF StoredFacts, Slot
  <2> QED BY <1>0, <1>1, <1>2, <2>1, <2>2 DEF StoredFacts
<1>4. wbin % Depth = Slot(rbin, n) /\ rbin % Depth = Slot(rbin, 0)
  BY <1>0, <1>1, SlotAtPointer DEF Count
<1>5. ASSUME NEW i \in 1..(n + a - b)
      PROVE  Stored'[i] = IF i + b <= n THEN Stored[i + b] ELSE d
  <2>1. /\ i - 1 \in 0..(Depth - 1) /\ i - 1 + b \in 0..(Depth - 1) /\ (i + b) - 1 = i - 1 + b
        /\ (i - 1) + 1 = i - 1 + 1 /\ (i - 1) + 0 = i - 1
        /\ (i + b <= n => i + b \in 1..n /\ i - 1 + b # n)
        /\ (~(i + b <= n) => a = 1 /\ i - 1 + b = n)
        /\ (a = 1 => n \in 0..(Depth - 1))
    BY <1>1, DepthIs
  <2>2. Slot(Plus(rbin, b), i - 1) = Slot(rbin, i - 1 + b)
    <3>1. CASE b = 1
      BY <1>1, <2>1, <3>1, SlotStep
    <3>2. CASE b = 0
      <4>1. Plus(rbin, b) = rbin
        BY <3>2 DEF Plus
      <4> QED BY <2>1, <3>2, <4>1
    <3> QED BY <3>1, <3>2
  <2>3. Stored'[i] = mem'[Slot(rbin, i - 1 + b)] /\ Slot(rbin, i - 1 + b) \in 0..(Depth - 1)
    BY <1>1, <1>3, <2>1, <2>2, SlotStep
  <2>4. CASE i + b <= n
    <3>1. Stored[i + b] = mem[Slot(rbin, i - 1 + b)]
      BY <1>3, <2>1, <2>4
    <3>2. a = 1 => Slot(rbin, i - 1 + b) # wbin % Depth
      BY <1>1, <1>4, <2>1, <2>4, SlotStep
    <3>3. mem'[Slot(rbin, i - 1 + b)] = mem[Slot(rbin, i - 1 + b)]
      BY <1>1, <2>3, <3>2 DEF Moves
    <3> QED BY <2>3, <2>4, <3>1, <3>3
  <2>5. CASE ~(i + b <= n)
    <3>1. a = 1 /\ Slot(rbin, i - 1 + b) = wbin % Depth
      BY <1>4, <2>1, <2>5
    <3>2. mem'[Slot(rbin, i - 1 + b)] = d
      BY <1>1, <2>3, <3>1 DEF Moves
    <3> QED BY <2>3, <2>5, <3>2
  <2> QED BY <2>4, <2>5
<1>6. b = 1 => taken' = Stored[1]
  <2> SUFFICES ASSUME b = 1 PROVE taken' = Stored[1]
    OBVIOUS
  <2>1. 1 \in 1..n /\ 1 - 1 = 0
    BY <1>1, DepthIs
  <2>2. Stored[1] = mem[Slot(rbin, 0)]
    BY <1>3, <2>1
  <2> QED BY <1>4, <2>2 DEF Moves
<1> QED BY <1>1, <1>3, <1>5, <1>6

LEMMA ClearedStored == FifoInv /\ Cleared => Stored = <<>>
<1> SUFFICES ASSUME FifoInv, Cleared PROVE Stored = <<>>
  OBVIOUS
<1>1. Count = 0
  BY DepthIs DEF Count, Dist, Cleared
<1>2. Stored \in Seq(Data) /\ Len(Stored) = 0
  BY <1>1, StoredWords DEF StoredFacts
<1> QED BY <1>2, EmptySeq

LEMMA ClearedStoredNext == (FifoInv /\ Cleared => Stored = <<>>)'
  BY ClearedStored, PTL

(* The two sides implement a bounded FIFO, whatever the rates of their     *)
(* clocks: no word is lost, repeated, overtaken or overwritten unread.     *)
THEOREM AsyncFifoIsFifo == Spec => IsFifo
<1>1. Init => Fifo!Init
  <2> SUFFICES ASSUME Init PROVE Fifo!Init
    OBVIOUS
  <2>1. FifoInv /\ Cleared /\ taken = Zero
    BY PowerUp DEF Init, Cleared
  <2> QED BY <2>1, ClearedStored DEF Fifo!Init
<1>2. FifoInv /\ FifoInv' /\ [Next]_vars => [Fifo!Next]_(Fifo!vars)
  <2> SUFFICES ASSUME FifoInv, FifoInv', [Next]_vars
               PROVE  [Fifo!Next]_<<Stored, taken>>
    BY DEF Fifo!vars
  <2>1. CASE Reset
    <3>1. Stored' = <<>> /\ taken' = Zero
      BY <2>1, ClearedStoredNext DEF Reset, Cleared
    <3> QED BY <3>1 DEF Fifo!Next, Fifo!Clear
  <2>2. ASSUME NEW a \in {0, 1}, NEW b \in {0, 1}, NEW d \in Data, Moves(a, b, d)
        PROVE  [Fifo!Next]_<<Stored, taken>>
    <3>1. /\ Stored \in Seq(Data) /\ Stored' \in Seq(Data)
          /\ Len(Stored) \in Nat /\ Len(Stored') = Len(Stored) + a - b
          /\ \A i \in 1..Len(Stored') :
               Stored'[i] = IF i + b <= Len(Stored) THEN Stored[i + b] ELSE d
          /\ b = 1 => taken' = Stored[1]
      BY <2>2, CellsMove, DepthIs
    <3>2. /\ a = 1 => Len(Stored) < Depth
          /\ b = 1 => 0 < Len(Stored)
          /\ b = 0 => taken' = taken
      BY <2>2, StoredWords DEF Moves, StoredFacts
    <3> DEFINE s == Stored
               t == Stored'
    <3> HIDE DEF s, t
    <3>3. /\ s \in Seq(Data) /\ t \in Seq(Data) /\ Len(s) \in Nat /\ Len(t) = Len(s) + a - b
          /\ \A i \in 1..Len(t) : t[i] = IF i + b <= Len(s) THEN s[i + b] ELSE d
      BY <3>1 DEF s, t
    <3>4. CASE a = 1 /\ b = 0
      <4>1. t = Append(s, d)
        <5>1. Len(t) = Len(s) + 1 /\ \A i \in 1..Len(t) : t[i] = IF i <= Len(s) THEN s[i] ELSE d
          BY <3>3, <3>4
        <5> QED BY <3>3, <5>1, SeqPut
      <4> QED BY <3>2, <3>4, <4>1 DEF s, t, Fifo!Next, Fifo!Put
    <3>5. CASE a = 0 /\ b = 1
      <4>1. s # <<>> /\ t = Tail(s) /\ Head(s) = s[1]
        <5>1. Len(s) > 0 /\ Len(t) = Len(s) - 1 /\ \A i \in 1..Len(t) : t[i] = s[i + 1]
          BY <3>2, <3>3, <3>5 DEF s
        <5> QED BY <3>3, <5>1, SeqGet
      <4> QED BY <3>1, <3>5, <4>1 DEF s, t, Fifo!Next, Fifo!Get
    <3>6. CASE a = 1 /\ b = 1
      <4>1. s # <<>> /\ t = Append(Tail(s), d) /\ Head(s) = s[1]
        <5>1. /\ Len(s) > 0 /\ Len(t) = Len(s)
              /\ \A i \in 1..Len(t) : t[i] = IF i < Len(s) THEN s[i + 1] ELSE d
          BY <3>2, <3>3, <3>6 DEF s
        <5> QED BY <3>3, <5>1, SeqPutGet
      <4> QED BY <3>1, <3>2, <3>6, <4>1 DEF s, t, Fifo!Next, Fifo!PutGet
    <3>7. CASE a = 0 /\ b = 0
      <4>1. Len(t) = Len(s) /\ \A i \in 1..Len(t) : t[i] = s[i]
        BY <3>3, <3>7
      <4>2. t = s
        BY <3>3, <4>1, SeqEqual
      <4> QED BY <3>2, <3>7, <4>2 DEF s, t
    <3> QED BY <3>4, <3>5, <3>6, <3>7
  <2> QED BY <2>1, <2>2, StepMoves
<1>3. Init => FifoInv
  BY PowerUp
<1>4. FifoInv /\ [Next]_vars => FifoInv'
  BY FifoStep
<1> QED BY <1>1, <1>2, <1>3, <1>4, PTL DEF Spec, IsFifo, Fifo!Spec
=============================================================================
