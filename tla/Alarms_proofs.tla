---------------------------- MODULE Alarms_proofs ----------------------------
(***************************************************************************)
(* Proofs about the alarms, for any number of them and every width of the  *)
(* tick count.                                                             *)
(***************************************************************************)
EXTENDS Alarms, FiniteSetTheorems, WellFoundedInduction, TLAPS

Nodes == Alarm \cup {Head}

TypeInv ==
  /\ rate \in {0, Rate} /\ nticks \in 0..(Wrap - 1)
  /\ next \in [Nodes -> Nodes \cup {Unset}] /\ previous \in [Nodes -> Nodes \cup {Unset}]
  /\ time \in [Alarm -> 0..(Wrap - 1)] /\ rollover \in [Alarm -> BOOLEAN]
  /\ alarm \in Nodes /\ cached \in Nodes /\ called \in BOOLEAN
  /\ started \subseteq Alarm /\ wait \in [Alarm -> 0..Wrap]

(* An alarm that is off the ring points to itself, or nowhere.             *)
OffRing ==
  \A a \in Alarm \ started : next[a] \in {a, Unset} /\ previous[a] = next[a]

(* The ring is s[0] = Head, the k alarms started, and Head again.          *)
Ordered(k, s) ==
  /\ s[0] = Head /\ s[k + 1] = Head
  /\ \A i \in 1..k : s[i] \in started
  /\ \A a \in started : \E i \in 1..k : s[i] = a
  /\ \A i, j \in 1..k : i # j => s[i] # s[j]
  /\ \A i \in 0..k : next[s[i]] = s[i + 1] /\ previous[s[i + 1]] = s[i]

(* The time of an alarm is the count when it is due, in its width; the     *)
(* flag says whether the count wraps before.  An alarm that alt_tick has   *)
(* not come to yet may have a flag the count has just made obsolete.       *)
Due(a, wraps) == nticks + wait[a] = time[a] + (IF wraps THEN Wrap ELSE 0)

Visited(a) == wait[a] = Wrap \/ (wait[a] > 0 /\ Due(a, rollover[a]))
ToVisit(a) == wait[a] = Wrap \/ Due(a, rollover[a] /\ nticks # 0)
InCall(a)  == wait[a] = 0 /\ time[a] = nticks /\ ~rollover[a]
Seen(a)    == Visited(a) \/ (called /\ a = alarm /\ InCall(a))

(* Where alt_tick goes on.                                                 *)
Cursor == IF called THEN cached ELSE alarm

TickInv ==
  /\ called => alarm \in Alarm /\ (alarm \in started => Seen(alarm))
  /\ \A a \in started : ToVisit(a)
  /\ next[alarm] # Unset /\ next[cached] # Unset

(* alt_tick goes on at place j, and the alarms before it are seen to; or   *)
(* it goes on with an alarm that is off the ring.                          *)
Going(k, s, j) ==
  /\ j \in 0..(k + 1)
  /\ IF j = 0 THEN Cursor \in Alarm \ started ELSE Cursor = s[j]
  /\ \A i \in 1..k : i < j => Seen(s[i])

Sized(k, s) == k \in Nat /\ s \in [0..(k + 1) -> Nodes]

RingInv == \E k, s, j : Sized(k, s) /\ Ordered(k, s) /\ Going(k, s, j)

AlarmInv == TypeInv /\ OffRing /\ TickInv /\ RingInv

-----------------------------------------------------------------------------
LEMMA Numbers ==
  /\ Wrap \in Nat /\ MaxTicks \in Nat /\ MaxTicks < Wrap
  /\ Rate \in Nat /\ Rate > 0
  /\ Head \notin Alarm /\ Unset \notin Alarm /\ Unset # Head
<1>1. /\ Wrap \in Nat /\ Rate \in Nat /\ Rate > 0 /\ MaxTicks \in Nat /\ MaxTicks < Wrap
      /\ Head \notin Alarm /\ Unset \notin Alarm \cup {Head}
  BY AlarmAssumption DEF AlarmAssumption
<1> QED BY <1>1

(* The places of the ring are distinct, but for the two of Head.           *)
LEMMA Places ==
  ASSUME TypeInv, NEW k, NEW s, Sized(k, s), Ordered(k, s)
  PROVE  /\ \A i \in 1..k : s[i] \in Alarm /\ s[i] # Head
         /\ \A i, m \in 0..k : s[i] = s[m] => i = m
         /\ \A i, m \in 1..(k + 1) : s[i] = s[m] => i = m
         /\ \A i \in 0..(k + 1) : s[i] \in started \cup {Head} /\ s[i] \in Nodes
         /\ \A i \in 0..(k + 1) : next[s[i]] \in Nodes
<1>1. \A i \in 1..k : s[i] \in started /\ s[i] \in Alarm /\ s[i] # Head
  BY Numbers DEF TypeInv, Ordered
<1>2. k \in Nat /\ s[0] = Head /\ s[k + 1] = Head
  BY DEF Sized, Ordered
<1>3. \A i \in 0..k : i = 0 \/ i \in 1..k
  BY <1>2
<1>4. \A i \in 1..(k + 1) : i = k + 1 \/ i \in 1..k
  BY <1>2
<1>5. \A i \in 0..(k + 1) : i = k + 1 \/ i = 0 \/ i \in 1..k
  BY <1>2
<1>6. \A i, m \in 1..k : s[i] = s[m] => i = m
  BY DEF Ordered
<1>7. \A i, m \in 0..k : s[i] = s[m] => i = m
  BY <1>1, <1>2, <1>3, <1>6
<1>8. \A i, m \in 1..(k + 1) : s[i] = s[m] => i = m
  BY <1>1, <1>2, <1>4, <1>6
<1>9. \A i \in 0..(k + 1) : s[i] \in started \cup {Head} /\ s[i] \in Nodes
  BY <1>1, <1>2, <1>5 DEF Nodes
<1>10. \A i \in 0..(k + 1) : next[s[i]] \in Nodes
  <2>1. \A i \in 0..k : next[s[i]] = s[i + 1] /\ i + 1 \in 0..(k + 1)
    BY <1>2 DEF Ordered
  <2>2. 0 \in 0..k /\ \A i \in 0..(k + 1) : i = k + 1 \/ i \in 0..k
    BY <1>2
  <2>3. \A i \in 0..k : next[s[i]] \in Nodes
    BY <1>9, <2>1
  <2> QED BY <1>2, <2>2, <2>3
<1> QED BY <1>1, <1>7, <1>8, <1>9, <1>10

(* The ring with an alarm put first, and without its m-th.                 *)
With(k, s, a) == [i \in 0..(k + 2) |-> IF i = 0 THEN Head ELSE IF i = 1 THEN a ELSE s[i - 1]]
Without(k, s, m) == [i \in 0..k |-> IF i < m THEN s[i] ELSE s[i + 1]]

LEMMA InsertOrder ==
  ASSUME TypeInv, OffRing, NEW k, NEW s, Sized(k, s), Ordered(k, s),
         NEW a \in Alarm, a \notin started, Insert(a), started' = started \cup {a}
  PROVE  /\ Sized(k + 1, With(k, s, a)) /\ Ordered(k + 1, With(k, s, a))'
         /\ OffRing'
         /\ next' \in [Nodes -> Nodes \cup {Unset}] /\ previous' \in [Nodes -> Nodes \cup {Unset}]
         /\ \A b \in Nodes : next[b] # Unset => next'[b] # Unset
<1> DEFINE t == With(k, s, a)
<1>1. /\ k \in Nat /\ s \in [0..(k + 1) -> Nodes] /\ s[0] = Head /\ s[k + 1] = Head
      /\ a \in Nodes /\ a # Head /\ Head \in Nodes
      /\ next \in [Nodes -> Nodes \cup {Unset}] /\ previous \in [Nodes -> Nodes \cup {Unset}]
  BY Numbers DEF Sized, Ordered, TypeInv, Nodes
<1>2. /\ \A i \in 0..k : next[s[i]] = s[i + 1] /\ previous[s[i + 1]] = s[i]
      /\ \A i \in 0..(k + 1) : s[i] \in started \cup {Head} /\ s[i] \in Nodes /\ s[i] # a
  BY <1>1, Places DEF Ordered
<1>3. 0 \in 0..k /\ 0 + 1 = 1 /\ 1 \in 0..(k + 1)
  BY <1>1
<1>4. next[Head] = s[1] /\ s[1] \in Nodes /\ s[1] # a
  BY <1>1, <1>2, <1>3
<1>5. /\ next' = [next EXCEPT ![a] = s[1], ![Head] = a]
      /\ previous' = [previous EXCEPT ![s[1]] = a, ![a] = Head]
  BY <1>4 DEF Insert
<1>6. /\ next'[Head] = a /\ next'[a] = s[1]
      /\ \A b \in Nodes \ {a, Head} : next'[b] = next[b]
      /\ previous'[s[1]] = a /\ previous'[a] = Head
      /\ \A b \in Nodes \ {a, s[1]} : previous'[b] = previous[b]
      /\ next' \in [Nodes -> Nodes \cup {Unset}] /\ previous' \in [Nodes -> Nodes \cup {Unset}]
  BY <1>1, <1>4, <1>5
<1>7. /\ t[0] = Head /\ t[1] = a /\ t[(k + 1) + 1] = Head /\ t \in [0..((k + 1) + 1) -> Nodes]
      /\ \A i \in 2..(k + 2) : t[i] = s[i - 1] /\ i - 1 \in 1..(k + 1)
  <2>1. 0..((k + 1) + 1) = 0..(k + 2) /\ (k + 1) + 1 = k + 2 /\ (k + 2) - 1 = k + 1 /\ k + 2 # 0 /\ k + 2 # 1
        /\ k + 2 \in 0..(k + 2) /\ 0 \in 0..(k + 2) /\ 1 \in 0..(k + 2)
    BY <1>1
  <2>2. \A i \in 0..(k + 2) : i # 0 /\ i # 1 => i - 1 \in 0..(k + 1)
    BY <1>1
  <2>3. \A i \in 2..(k + 2) : i \in 0..(k + 2) /\ i # 0 /\ i # 1 /\ i - 1 \in 1..(k + 1)
    BY <1>1
  <2> QED BY <1>1, <2>1, <2>2, <2>3 DEF With
<1>8. Sized(k + 1, t)
  <2>1. k + 1 \in Nat
    BY <1>1
  <2> QED BY <1>7, <2>1 DEF Sized
<1> HIDE DEF t
<1>9. \A i \in 1..(k + 1) : i = 1 \/ (i \in 2..(k + 2) /\ i - 1 \in 1..k)
  BY <1>1
<1>10. \A i \in 1..(k + 1) : t[i] \in started'
  BY <1>7, <1>9 DEF Ordered
<1>11. ASSUME NEW b \in started' PROVE \E i \in 1..(k + 1) : t[i] = b
  <2>1. CASE b = a
    BY <1>1, <1>7, <2>1
  <2>2. CASE b \in started
    <3>1. PICK i \in 1..k : s[i] = b
      BY <2>2 DEF Ordered
    <3>2. i + 1 \in 1..(k + 1) /\ i + 1 \in 2..(k + 2) /\ (i + 1) - 1 = i
      BY <1>1, <3>1
    <3> QED BY <1>7, <3>1, <3>2
  <2> QED BY <2>1, <2>2
<1>12. ASSUME NEW i \in 1..(k + 1), NEW m \in 1..(k + 1), i # m PROVE t[i] # t[m]
  <2>1. CASE i = 1
    BY <1>2, <1>7, <1>9, <1>12, <2>1
  <2>2. CASE m = 1
    BY <1>2, <1>7, <1>9, <1>12, <2>2
  <2>3. CASE i # 1 /\ m # 1
    <3>1. i - 1 \in 1..k /\ m - 1 \in 1..k /\ i - 1 # m - 1
      BY <1>1, <1>9, <1>12, <2>3
    <3> QED BY <1>7, <1>9, <2>3, <3>1 DEF Ordered
  <2> QED BY <2>1, <2>2, <2>3
<1>13. ASSUME NEW i \in 0..(k + 1) PROVE next'[t[i]] = t[i + 1] /\ previous'[t[i + 1]] = t[i]
  <2>1. CASE i = 0
    <3>1. 1 \in 0..(k + 1) /\ 0 + 1 = 1
      BY <1>1
    <3> QED BY <1>6, <1>7, <2>1, <3>1
  <2>2. CASE i = 1
    <3>1. 2 \in 2..(k + 2) /\ 2 - 1 = 1 /\ 1 + 1 = 2
      BY <1>1
    <3> QED BY <1>6, <1>7, <2>2, <3>1
  <2>3. CASE i # 0 /\ i # 1
    <3>1. /\ i \in 2..(k + 2) /\ i + 1 \in 2..(k + 2) /\ (i + 1) - 1 = i /\ i - 1 \in 0..k
          /\ (i - 1) + 1 = i /\ i - 1 \in 1..k /\ i \in 1..(k + 1) /\ 1 \in 1..(k + 1)
      BY <1>1, <2>3
    <3>2. t[i] = s[i - 1] /\ t[i + 1] = s[i] /\ next[s[i - 1]] = s[i] /\ previous[s[i]] = s[i - 1]
      BY <1>2, <1>7, <3>1
    <3>3. s[i - 1] \in Nodes \ {a, Head}
      <4>1. i - 1 \in 0..(k + 1) /\ i - 1 \in 1..k
        BY <1>1, <3>1
      <4>2. s[i - 1] # Head
        BY <4>1, Places
      <4> QED BY <1>2, <4>1, <4>2
    <3>4. s[i] \in Nodes \ {a, s[1]}
      <4>1. i \in 0..(k + 1)
        BY <1>1
      <4>2. s[i] # s[1]
        BY <2>3, <3>1, Places
      <4> QED BY <1>2, <4>1, <4>2
    <3> QED BY <1>6, <3>2, <3>3, <3>4
  <2> QED BY <2>1, <2>2, <2>3
<1>14. Ordered(k + 1, t)'
  BY <1>7, <1>10, <1>11, <1>12, <1>13 DEF Ordered
<1>15. OffRing'
  <2> SUFFICES ASSUME NEW b \in Alarm, b \notin started' PROVE next'[b] \in {b, Unset} /\ previous'[b] = next'[b]
    BY DEF OffRing
  <2>1. b \in Nodes /\ b # a /\ b # Head /\ b # s[1] /\ b \in Alarm \ started
    BY <1>2, <1>3, Numbers DEF Nodes
  <2> QED BY <1>6, <2>1 DEF OffRing
<1>16. \A b \in Nodes : next[b] # Unset => next'[b] # Unset
  BY <1>1, <1>4, <1>6, Numbers DEF Nodes
<1> QED BY <1>6, <1>8, <1>14, <1>15, <1>16 DEF t

LEMMA RemoveOrder ==
  ASSUME TypeInv, OffRing, NEW k, NEW s, Sized(k, s), Ordered(k, s),
         NEW m \in 1..k, Remove(s[m]), started' = started \ {s[m]}
  PROVE  /\ k - 1 \in Nat /\ Without(k, s, m) \in [0..((k - 1) + 1) -> Nodes]
         /\ Ordered(k - 1, Without(k, s, m))'
         /\ OffRing'
         /\ next' \in [Nodes -> Nodes \cup {Unset}] /\ previous' \in [Nodes -> Nodes \cup {Unset}]
<1> DEFINE t == Without(k, s, m)
           a == s[m]
<1>1. /\ k \in Nat /\ s \in [0..(k + 1) -> Nodes] /\ s[0] = Head /\ s[k + 1] = Head
      /\ a \in Nodes /\ a \in Alarm /\ a \in started /\ a # Head
      /\ next \in [Nodes -> Nodes \cup {Unset}] /\ previous \in [Nodes -> Nodes \cup {Unset}]
  <2>1. s[m] \in Alarm /\ s[m] # Head
    BY Places
  <2>2. s[m] \in started
    BY DEF Ordered
  <2> QED BY <2>1, <2>2 DEF Sized, Ordered, TypeInv, Nodes
<1>2. /\ m \in 0..k /\ m - 1 \in 0..k /\ (m - 1) + 1 = m /\ m + 1 \in 1..(k + 1)
      /\ m + 1 \in 0..(k + 1) /\ m - 1 \in 0..(k + 1) /\ m \in 1..(k + 1) /\ m # m + 1 /\ m # m - 1
  BY <1>1
<1>3. /\ \A i \in 0..k : next[s[i]] = s[i + 1] /\ previous[s[i + 1]] = s[i]
      /\ \A i \in 0..(k + 1) : s[i] \in started \cup {Head} /\ s[i] \in Nodes
      /\ \A i, n \in 0..k : s[i] = s[n] => i = n
      /\ \A i, n \in 1..(k + 1) : s[i] = s[n] => i = n
  BY Places DEF Ordered
<1>4. next[a] = s[m + 1] /\ previous[a] = s[m - 1] /\ s[m - 1] # a /\ s[m + 1] # a
  BY <1>2, <1>3
<1>5. s[m - 1] \in Nodes /\ s[m + 1] \in Nodes
  BY <1>2, <1>3
<1>6. /\ next' = [next EXCEPT ![s[m - 1]] = s[m + 1], ![a] = a]
      /\ previous' = [previous EXCEPT ![s[m + 1]] = s[m - 1], ![a] = a]
  BY <1>4 DEF Remove
<1> HIDE DEF a
<1>7. /\ next'[s[m - 1]] = s[m + 1] /\ next'[a] = a
      /\ \A b \in Nodes \ {a, s[m - 1]} : next'[b] = next[b]
      /\ previous'[s[m + 1]] = s[m - 1] /\ previous'[a] = a
      /\ \A b \in Nodes \ {a, s[m + 1]} : previous'[b] = previous[b]
      /\ next' \in [Nodes -> Nodes \cup {Unset}] /\ previous' \in [Nodes -> Nodes \cup {Unset}]
  BY <1>1, <1>4, <1>5, <1>6
<1>8. /\ \A i \in 0..k : i < m => t[i] = s[i]
      /\ \A i \in 0..k : ~(i < m) => t[i] = s[i + 1] /\ i + 1 \in 1..(k + 1) /\ i + 1 \in 0..(k + 1)
      /\ k - 1 \in Nat /\ (k - 1) + 1 = k /\ t \in [0..((k - 1) + 1) -> Nodes]
  <2>1. k - 1 \in Nat /\ (k - 1) + 1 = k /\ 0..k \subseteq 0..(k + 1)
        /\ \A i \in 0..k : ~(i < m) => i + 1 \in 1..(k + 1) /\ i + 1 \in 0..(k + 1)
    BY <1>1
  <2> QED BY <1>1, <2>1 DEF Without
<1>9. t[0] = Head /\ t[(k - 1) + 1] = Head
  <2>1. 0 \in 0..k /\ 0 < m /\ k \in 0..k /\ ~(k < m)
    BY <1>1
  <2> QED BY <1>1, <1>8, <2>1
<1> HIDE DEF t
(* Place i of the shorter ring is place P(i) of the longer one.            *)
<1> DEFINE P(i) == IF i < m THEN i ELSE i + 1
<1>10. \A i \in 1..(k - 1) : P(i) \in 1..k /\ P(i) # m /\ t[i] = s[P(i)]
  <2>1. \A i \in 1..(k - 1) : P(i) \in 1..k /\ P(i) # m /\ i \in 0..k
    BY <1>1
  <2> QED BY <1>8, <2>1
<1>11. \A i \in 1..(k - 1) : t[i] \in started'
  <2>1. \A i \in 1..k : i # m => s[i] # a
    BY DEF a, Ordered
  <2> QED BY <1>10, <2>1 DEF Ordered, a
<1>12. ASSUME NEW b \in started' PROVE \E i \in 1..(k - 1) : t[i] = b
  <2>1. PICK n \in 1..k : s[n] = b
    BY DEF Ordered
  <2>2. n # m
    BY <2>1
  <2>3. CASE n < m
    <3>1. n \in 1..(k - 1) /\ P(n) = n
      BY <1>1, <2>3
    <3> QED BY <1>10, <2>1, <3>1
  <2>4. CASE ~(n < m)
    <3>1. n - 1 \in 1..(k - 1) /\ P(n - 1) = n
      BY <1>1, <2>2, <2>4
    <3> QED BY <1>10, <2>1, <3>1
  <2> QED BY <2>3, <2>4
<1>13. ASSUME NEW i \in 1..(k - 1), NEW n \in 1..(k - 1), i # n PROVE t[i] # t[n]
  <2>1. P(i) # P(n)
    BY <1>1, <1>13
  <2> HIDE DEF P
  <2> QED BY <1>10, <2>1 DEF Ordered
<1>14. ASSUME NEW i \in 0..(k - 1) PROVE next'[t[i]] = t[i + 1] /\ previous'[t[i + 1]] = t[i]
  <2>1. CASE i < m - 1
    <3>1. /\ i \in 0..k /\ i + 1 \in 0..k /\ i < m /\ i + 1 < m /\ i # m - 1 /\ i # m
          /\ i + 1 \in 1..(k + 1) /\ i + 1 # m + 1 /\ i + 1 # m /\ i \in 0..(k + 1) /\ i + 1 \in 0..(k + 1)
      BY <1>1, <1>2, <2>1
    <3>2. s[i] \in Nodes \ {a, s[m - 1]}
      BY <1>2, <1>3, <3>1 DEF a
    <3>3. s[i + 1] \in Nodes \ {a, s[m + 1]}
      BY <1>2, <1>3, <3>1 DEF a
    <3> QED BY <1>3, <1>7, <1>8, <3>1, <3>2, <3>3
  <2>2. CASE i = m - 1
    <3>1. i \in 0..k /\ i + 1 \in 0..k /\ i < m /\ ~(i + 1 < m) /\ i + 1 = m
      BY <1>1, <1>2, <2>2
    <3>2. t[i] = s[m - 1] /\ t[i + 1] = s[m + 1]
      BY <1>8, <2>2, <3>1
    <3> QED BY <1>7, <3>2
  <2>3. CASE ~(i < m - 1) /\ i # m - 1
    <3>1. /\ i \in 0..k /\ i + 1 \in 0..k /\ ~(i < m) /\ ~(i + 1 < m) /\ i + 1 # m - 1 /\ i + 1 # m
          /\ (i + 1) + 1 \in 1..(k + 1) /\ (i + 1) + 1 # m + 1 /\ (i + 1) + 1 # m
          /\ i + 1 \in 0..(k + 1) /\ (i + 1) + 1 \in 0..(k + 1)
      BY <1>1, <1>2, <2>3
    <3>2. s[i + 1] \in Nodes \ {a, s[m - 1]}
      BY <1>2, <1>3, <3>1 DEF a
    <3>3. s[(i + 1) + 1] \in Nodes \ {a, s[m + 1]}
      BY <1>2, <1>3, <3>1 DEF a
    <3>4. t[i] = s[i + 1] /\ t[i + 1] = s[(i + 1) + 1]
      BY <1>8, <3>1
    <3>5. next[s[i + 1]] = s[(i + 1) + 1] /\ previous[s[(i + 1) + 1]] = s[i + 1]
      BY <1>3, <3>1
    <3>6. next'[s[i + 1]] = next[s[i + 1]] /\ previous'[s[(i + 1) + 1]] = previous[s[(i + 1) + 1]]
      BY <1>7, <3>2, <3>3
    <3> QED BY <3>4, <3>5, <3>6
  <2> QED BY <2>1, <2>2, <2>3
<1>15. Ordered(k - 1, t)'
  BY <1>9, <1>11, <1>12, <1>13, <1>14 DEF Ordered
<1>16. OffRing'
  <2> SUFFICES ASSUME NEW b \in Alarm, b \notin started' PROVE next'[b] \in {b, Unset} /\ previous'[b] = next'[b]
    BY DEF OffRing
  <2>1. CASE b = a
    BY <1>7, <2>1
  <2>2. CASE b # a
    <3>1. b \in Nodes /\ b # a /\ b # Head /\ b \in Alarm \ started
      BY <2>2, Numbers DEF Nodes, a
    <3>2. b # s[m - 1] /\ b # s[m + 1]
      BY <1>2, <1>3, <3>1
    <3> QED BY <1>7, <3>1, <3>2 DEF OffRing
  <2> QED BY <2>1, <2>2
<1> QED BY <1>7, <1>8, <1>15, <1>16 DEF t

-----------------------------------------------------------------------------
(* The times.                                                              *)

LEMMA ModOnce ==
  ASSUME NEW n \in Nat, n > 0, NEW x \in 0..(2 * n - 1)
  PROVE  x % n = IF x < n THEN x ELSE x - n
OBVIOUS

LEMMA TimeSet ==
  ASSUME NEW c \in 0..(Wrap - 1), NEW x \in 0..(Wrap - 1)
  PROVE  c + x = Mod(c + x) + (IF Mod(c + x) < c THEN Wrap ELSE 0)
<1> DEFINE y == c + x
<1>1. y \in 0..(2 * Wrap - 1) /\ Wrap \in Nat /\ Wrap > 0
  BY Numbers
<1> HIDE DEF y
<1>2. y % Wrap = IF y < Wrap THEN y ELSE y - Wrap
  BY <1>1, ModOnce
<1>3. Mod(c + x) = IF c + x < Wrap THEN c + x ELSE c + x - Wrap
  BY <1>1, <1>2, Numbers DEF Mod, y
<1> QED BY <1>3, Numbers

LEMMA ModType == \A x \in Int : Mod(x) \in 0..(Wrap - 1)
BY Numbers DEF Mod

(* An alarm whose time is set x ticks from now is due in x ticks.          *)
LEMMA SetTimeDue ==
  ASSUME TypeInv, NEW a \in Alarm, NEW at, NEW x \in 1..Wrap, at = nticks + x,
         SetTime(a, at), nticks' = nticks, wait'[a] = x
  PROVE  /\ Visited(a)'
         /\ time' \in [Alarm -> 0..(Wrap - 1)] /\ rollover' \in [Alarm -> BOOLEAN]
         /\ \A b \in Alarm \ {a} : time'[b] = time[b] /\ rollover'[b] = rollover[b]
<1>1. /\ time' = [time EXCEPT ![a] = Mod(at)] /\ rollover' = [rollover EXCEPT ![a] = (Mod(at) < nticks)]
      /\ time \in [Alarm -> 0..(Wrap - 1)] /\ rollover \in [Alarm -> BOOLEAN] /\ nticks \in 0..(Wrap - 1)
  BY DEF SetTime, Wraps, TypeInv
<1>2. Mod(at) \in 0..(Wrap - 1)
  <2>1. at \in Int
    BY <1>1, Numbers
  <2> QED BY <2>1, ModType
<1>3. (Mod(at) < nticks) \in BOOLEAN
  OBVIOUS
<1>4. time'[a] = Mod(at) /\ (rollover'[a] <=> Mod(at) < nticks)
  BY <1>1
<1>5. Visited(a)'
  <2>1. CASE x = Wrap
    BY <2>1 DEF Visited
  <2>2. CASE x # Wrap
    <3>1. x \in 0..(Wrap - 1) /\ x > 0
      BY <2>2, Numbers
    <3>2. nticks + x = Mod(at) + (IF Mod(at) < nticks THEN Wrap ELSE 0)
      BY <1>1, <3>1, TimeSet
    <3>3. Due(a, rollover[a])'
      BY <1>4, <3>2 DEF Due
    <3> QED BY <3>1, <3>3 DEF Visited
  <2> QED BY <2>1, <2>2
<1>6. time' \in [Alarm -> 0..(Wrap - 1)] /\ rollover' \in [Alarm -> BOOLEAN]
  BY <1>1, <1>2, <1>3
<1>7. \A b \in Alarm \ {a} : time'[b] = time[b] /\ rollover'[b] = rollover[b]
  BY <1>1
<1> QED BY <1>5, <1>6, <1>7

(* A time that is good stays good when it is put off, but for one put off  *)
(* to Wrap ticks from now or more.                                         *)
LEMMA RenewDue ==
  ASSUME TypeInv, NEW a \in Alarm, a = alarm, NEW n \in 1..MaxTicks, Renew(n), nticks' = nticks,
         wait[a] = Wrap \/ Due(a, rollover[a]), wait'[a] = Cap(wait[a] + n)
  PROVE  Visited(a)'
<1>1. /\ nticks \in 0..(Wrap - 1) /\ wait[a] \in 0..Wrap /\ time[a] \in 0..(Wrap - 1)
      /\ rollover[a] \in BOOLEAN /\ time \in [Alarm -> 0..(Wrap - 1)] /\ rollover \in [Alarm -> BOOLEAN]
  BY DEF TypeInv
<1>2. PICK at : at = Mod(time[a] + n)
  OBVIOUS
<1>3. /\ at \in 0..(Wrap - 1) /\ Mod(at) = at
      /\ at = IF time[a] + n < Wrap THEN time[a] + n ELSE time[a] + n - Wrap
  <2>1. PICK y : y = time[a] + n
    OBVIOUS
  <2>2. y \in 0..(2 * Wrap - 1) /\ Wrap \in Nat /\ Wrap > 0
    BY <1>1, <2>1, Numbers
  <2>3. y % Wrap = IF y < Wrap THEN y ELSE y - Wrap
    BY <2>2, ModOnce
  <2>4. at = IF y < Wrap THEN y ELSE y - Wrap
    BY <1>2, <2>1, <2>3 DEF Mod
  <2>5. at \in 0..(Wrap - 1) /\ at \in 0..(2 * Wrap - 1) /\ at < Wrap
    BY <2>2, <2>4
  <2>6. at % Wrap = at
    BY <2>2, <2>5, ModOnce
  <2>7. at = IF time[a] + n < Wrap THEN time[a] + n ELSE time[a] + n - Wrap
    <3>1. CASE y < Wrap
      BY <1>1, <2>1, <2>2, <2>4, <3>1, Numbers
    <3>2. CASE ~(y < Wrap)
      BY <1>1, <2>1, <2>2, <2>4, <3>2, Numbers
    <3> QED BY <3>1, <3>2
  <2>8. Mod(at) = at
    BY <2>6 DEF Mod
  <2> QED BY <2>5, <2>7, <2>8
<1>4. time'[a] = at /\ (rollover'[a] <=> rollover[a] \/ at < nticks)
  <2>1. /\ time' = [time EXCEPT ![a] = at]
        /\ rollover' = [rollover EXCEPT ![a] = (rollover[a] \/ at < nticks)]
    BY <1>2, <1>3 DEF Renew, Wraps
  <2> QED BY <1>1, <2>1
<1>5. CASE wait[a] + n < Wrap
  <2>1. wait'[a] = wait[a] + n /\ wait'[a] > 0 /\ wait[a] # Wrap
    BY <1>1, <1>5, Numbers DEF Cap
  <2>2. nticks + wait[a] = time[a] + (IF rollover[a] THEN Wrap ELSE 0)
    BY <2>1 DEF Due
  <2>3. nticks + (wait[a] + n) = at + (IF rollover[a] \/ at < nticks THEN Wrap ELSE 0)
    <3>1. CASE rollover[a] = TRUE
      <4>1. nticks + wait[a] = time[a] + Wrap
        BY <2>2, <3>1
      <4>2. time[a] + n < Wrap /\ at = time[a] + n
        BY <1>1, <1>3, <1>5, <4>1, Numbers
      <4>3. nticks + (wait[a] + n) = at + Wrap
        BY <1>1, <4>1, <4>2, Numbers
      <4> QED BY <3>1, <4>3
    <3>2. CASE rollover[a] = FALSE
      <4>1. nticks + wait[a] = time[a]
        BY <1>1, <2>2, <3>2
      <4>2. nticks + (wait[a] + n) = at + (IF at < nticks THEN Wrap ELSE 0)
        BY <1>1, <1>3, <1>5, <4>1, Numbers
      <4> QED BY <3>2, <4>2
    <3> QED BY <1>1, <3>1, <3>2
  <2>4. Due(a, rollover[a])'
    BY <1>4, <2>1, <2>3 DEF Due
  <2> QED BY <2>1, <2>4 DEF Visited
<1>6. CASE ~(wait[a] + n < Wrap)
  BY <1>6 DEF Cap, Visited
<1> QED BY <1>5, <1>6

LEMMA SameTimes ==
  ASSUME NEW b, nticks' = nticks, wait'[b] = wait[b], time'[b] = time[b], rollover'[b] = rollover[b]
  PROVE  /\ Visited(b) => Visited(b)'
         /\ ToVisit(b) => ToVisit(b)'
         /\ InCall(b) => InCall(b)'
         /\ called' = called /\ alarm' = alarm /\ Seen(b) => Seen(b)'
<1>1. /\ Visited(b) => Visited(b)'
      /\ ToVisit(b) => ToVisit(b)'
      /\ InCall(b) => InCall(b)'
  BY DEF Visited, ToVisit, InCall, Due
<1> QED BY <1>1 DEF Seen

(* An alarm that is seen to, or in its call, has a flag that is good.      *)
SeenAreGood == \A b \in Alarm : Seen(b) => ToVisit(b)

LEMMA SeenIs == TypeInv => SeenAreGood
<1> SUFFICES ASSUME TypeInv, NEW b \in Alarm, Seen(b) PROVE ToVisit(b)
  BY DEF SeenAreGood
<1>1. nticks \in 0..(Wrap - 1) /\ wait[b] \in 0..Wrap /\ time[b] \in 0..(Wrap - 1) /\ rollover[b] \in BOOLEAN
  BY DEF TypeInv
<1>2. CASE wait[b] = Wrap
  BY <1>2 DEF ToVisit
<1>3. CASE InCall(b)
  BY <1>1, <1>3, Numbers DEF InCall, ToVisit, Due
<1>4. CASE wait[b] # Wrap /\ Due(b, rollover[b])
  <2>1. CASE rollover[b] = FALSE
    BY <1>4, <2>1 DEF ToVisit, Due
  <2>2. CASE rollover[b] = TRUE
    <3>1. nticks + wait[b] = time[b] + Wrap
      BY <1>4, <2>2 DEF Due
    <3>2. nticks # 0
      BY <1>1, <1>4, <3>1, Numbers
    <3> QED BY <2>2, <3>1, <3>2 DEF ToVisit, Due
  <2> QED BY <1>1, <2>1, <2>2
<1> QED BY <1>2, <1>3, <1>4 DEF Seen, Visited

LEMMA SeenNext == ASSUME TypeInv', NEW b \in Alarm PROVE Seen(b)' => ToVisit(b)'
<1>1. SeenAreGood'
  BY SeenIs, PTL
<1> QED BY <1>1 DEF SeenAreGood

LEMMA WithIs ==
  ASSUME NEW k \in Nat, NEW s, NEW a
  PROVE  /\ With(k, s, a)[1] = a
         /\ \A i \in 2..(k + 2) : With(k, s, a)[i] = s[i - 1]
<1>1. \A i \in 2..(k + 2) : i \in 0..(k + 2) /\ i # 0 /\ i # 1
  OBVIOUS
<1>2. 1 \in 0..(k + 2)
  OBVIOUS
<1> QED BY <1>1, <1>2 DEF With

LEMMA WithoutIs ==
  ASSUME NEW k \in Nat, NEW s, NEW m \in 1..k
  PROVE  \A i \in 0..k : Without(k, s, m)[i] = IF i < m THEN s[i] ELSE s[i + 1]
BY DEF Without

(* alt_alarm_start.                                                        *)
LEMMA StartStep ==
  ASSUME AlarmInv, NEW a \in Alarm, NEW n \in 0..MaxTicks, Start(a, n)
  PROVE  AlarmInv'
<1>1. /\ TypeInv /\ OffRing /\ TickInv /\ a \notin started /\ SetTime(a, n + nticks + 1) /\ Insert(a)
      /\ started' = started \cup {a} /\ wait' = [wait EXCEPT ![a] = Cap(n + 1)]
      /\ rate' = rate /\ nticks' = nticks /\ alarm' = alarm /\ cached' = cached /\ called' = called
  BY DEF AlarmInv, Start, tick
<1>2. PICK k, s, j : Sized(k, s) /\ Ordered(k, s) /\ Going(k, s, j)
  BY DEF AlarmInv, RingInv
<1> DEFINE t == With(k, s, a)
<1>3. /\ Sized(k + 1, t) /\ Ordered(k + 1, t)' /\ OffRing'
      /\ next' \in [Nodes -> Nodes \cup {Unset}] /\ previous' \in [Nodes -> Nodes \cup {Unset}]
      /\ \A b \in Nodes : next[b] # Unset => next'[b] # Unset
  BY <1>1, <1>2, InsertOrder
<1>4. Cap(n + 1) = n + 1 /\ n + 1 \in 0..Wrap /\ n + 1 \in 1..Wrap /\ n + nticks + 1 = nticks + (n + 1)
  BY <1>1, Numbers DEF TypeInv, Cap
<1>5. /\ wait' \in [Alarm -> 0..Wrap] /\ wait'[a] = n + 1
      /\ \A b \in Alarm \ {a} : wait'[b] = wait[b]
  BY <1>1, <1>4 DEF TypeInv
<1>6. /\ Visited(a)' /\ time' \in [Alarm -> 0..(Wrap - 1)] /\ rollover' \in [Alarm -> BOOLEAN]
      /\ \A b \in Alarm \ {a} : time'[b] = time[b] /\ rollover'[b] = rollover[b]
  BY <1>1, <1>4, <1>5, SetTimeDue
<1>7. TypeInv'
  BY <1>1, <1>3, <1>5, <1>6 DEF TypeInv
<1>8. Seen(a)' /\ ToVisit(a)'
  <2>1. Seen(a)'
    BY <1>6 DEF Seen
  <2> QED BY <1>7, <2>1, SeenNext
<1>9. \A b \in started : (Seen(b) => Seen(b)') /\ (ToVisit(b) => ToVisit(b)')
  <2> TAKE b \in started
  <2>1. b \in Alarm \ {a}
    BY <1>1 DEF TypeInv
  <2> QED BY <1>1, <1>5, <1>6, <2>1, SameTimes
<1>10. TickInv'
  <2>1. PICK c : c = alarm
    OBVIOUS
  <2>2. called' /\ c \in started' => c \in Alarm /\ Seen(c)'
    BY <1>1, <1>8, <1>9, <2>1 DEF TickInv
  <2>3. \A b \in started' : ToVisit(b)'
    BY <1>1, <1>8, <1>9 DEF TickInv
  <2>4. next'[alarm] # Unset /\ next'[cached] # Unset
    BY <1>1, <1>3 DEF TickInv, TypeInv
  <2>5. alarm' = c /\ (called' => c \in Alarm)
    BY <1>1, <2>1 DEF TickInv
  <2> QED BY <1>1, <2>2, <2>3, <2>4, <2>5 DEF TickInv
<1>11. k \in Nat /\ j \in 0..(k + 1) /\ (\A i \in 1..k : s[i] \in started)
       /\ t[1] = a /\ (\A i \in 2..(k + 2) : t[i] = s[i - 1])
  <2>1. k \in Nat /\ j \in 0..(k + 1) /\ (\A i \in 1..k : s[i] \in started)
    BY <1>2 DEF Sized, Ordered, Going
  <2> QED BY <2>1, WithIs
<1>12. Cursor' = Cursor
  BY <1>1 DEF Cursor
<1> HIDE DEF t
<1>13. \E p : Going(k + 1, t, p)'
  <2>1. CASE j = 0 /\ Cursor = a
    <3>1. 1 \in 0..((k + 1) + 1) /\ \A i \in 1..(k + 1) : ~(i < 1)
      BY <1>11
    <3>2. Going(k + 1, t, 1)'
      BY <1>11, <1>12, <2>1, <3>1 DEF Going
    <3> QED BY <3>2
  <2>2. CASE j = 0 /\ Cursor # a
    <3>1. 0 \in 0..((k + 1) + 1) /\ \A i \in 1..(k + 1) : ~(i < 0)
      BY <1>11
    <3>2. Cursor' \in Alarm \ started'
      BY <1>1, <1>2, <1>12, <2>2 DEF Going
    <3>3. Going(k + 1, t, 0)'
      BY <3>1, <3>2 DEF Going
    <3> QED BY <3>3
  <2>3. CASE j # 0
    <3>1. j + 1 \in 0..((k + 1) + 1) /\ j + 1 # 0 /\ j + 1 \in 2..(k + 2) /\ (j + 1) - 1 = j
      BY <1>11, <2>3
    <3>2. Cursor' = t[j + 1]
      BY <1>2, <1>11, <1>12, <2>3, <3>1 DEF Going
    <3>3. ASSUME NEW i \in 1..(k + 1), i < j + 1 PROVE Seen(t[i])'
      <4>1. CASE i = 1
        BY <1>8, <1>11, <4>1
      <4>2. CASE i # 1
        <5>1. i \in 2..(k + 2) /\ i - 1 \in 1..k /\ i - 1 < j
          BY <1>11, <3>3, <4>2
        <5>2. t[i] = s[i - 1] /\ s[i - 1] \in started
          BY <1>11, <5>1
        <5>3. Seen(s[i - 1])
          BY <1>2, <5>1 DEF Going
        <5> QED BY <1>9, <5>2, <5>3
      <4> QED BY <4>1, <4>2
    <3>4. Going(k + 1, t, j + 1)'
      BY <3>1, <3>2, <3>3 DEF Going
    <3> QED BY <3>4
  <2> QED BY <2>1, <2>2, <2>3
<1>14. RingInv'
  BY <1>3, <1>13 DEF RingInv, t
<1> QED BY <1>3, <1>7, <1>10, <1>14 DEF AlarmInv

(* An alarm is taken off the ring, by alt_alarm_stop or when its callback  *)
(* returns 0.                                                              *)
LEMMA TakeOff ==
  ASSUME AlarmInv, NEW a \in Alarm, next[a] # Unset, Remove(a),
         started' = started \ {a}, wait' = [wait EXCEPT ![a] = 0],
         rate' = rate, nticks' = nticks, time' = time, rollover' = rollover, cached' = cached,
         \/ alarm' = alarm /\ called' = called
         \/ called /\ called' = FALSE /\ alarm = a /\ alarm' = cached
  PROVE  AlarmInv'
<1>1. TypeInv /\ OffRing /\ TickInv
  BY DEF AlarmInv
<1>2. PICK k, s, j : Sized(k, s) /\ Ordered(k, s) /\ Going(k, s, j)
  BY DEF AlarmInv, RingInv
<1>3. wait' \in [Alarm -> 0..Wrap] /\ \A b \in Alarm \ {a} : wait'[b] = wait[b]
  BY <1>1, Numbers DEF TypeInv
<1>4. Cursor' = Cursor
  BY DEF Cursor
<1>5. \A b \in started \ {a} : (Seen(b) => Seen(b)') /\ (ToVisit(b) => ToVisit(b)')
  <2> TAKE b \in started \ {a}
  <2>1. b \in Alarm \ {a}
    BY <1>1 DEF TypeInv
  <2>2. Seen(b) /\ alarm = a => Visited(b)
    BY DEF Seen
  <2>3. Visited(b)' => Seen(b)'
    BY DEF Seen
  <2> QED BY <1>3, <2>1, <2>2, <2>3, SameTimes
<1>6. \A b \in Nodes : next[b] # Unset => next'[b] # Unset
  <2>1. /\ next \in [Nodes -> Nodes \cup {Unset}] /\ a \in Nodes /\ a # Unset
        /\ next' = [next EXCEPT ![previous[a]] = next[a], ![a] = a]
    BY <1>1, Numbers DEF Remove, TypeInv, Nodes
  <2> QED BY <2>1
<1>7. TickInv'
  <2>1. PICK c : c = alarm
    OBVIOUS
  <2>2. called' => alarm' = c /\ c \in Alarm /\ (c \in started' => Seen(c)')
    BY <1>1, <1>5, <2>1 DEF TickInv
  <2>3. \A b \in started' : ToVisit(b)'
    BY <1>1, <1>5 DEF TickInv
  <2>4. next'[alarm'] # Unset /\ next'[cached'] # Unset
    BY <1>1, <1>6 DEF TickInv, TypeInv
  <2> QED BY <2>2, <2>3, <2>4 DEF TickInv
<1>8. alarm' \in Nodes /\ called' \in BOOLEAN /\ cached' \in Nodes /\ started' \subseteq Alarm
  BY <1>1 DEF TypeInv
<1>9. CASE a \notin started
  <2>1. next[a] = a /\ previous[a] = a /\ next \in [Nodes -> Nodes \cup {Unset}]
        /\ previous \in [Nodes -> Nodes \cup {Unset}] /\ a \in Nodes
    BY <1>1, <1>9 DEF OffRing, TypeInv, Nodes
  <2>2. next' = next /\ previous' = previous /\ started' = started
    BY <1>9, <2>1 DEF Remove
  <2>3. TypeInv' /\ OffRing'
    BY <1>1, <1>3, <1>8, <2>2 DEF TypeInv, OffRing
  <2>4. Ordered(k, s)'
    BY <1>2, <2>2 DEF Ordered
  <2>5. \A i \in 1..k : s[i] \in started \ {a}
    BY <1>2, <1>9 DEF Ordered
  <2>6. Going(k, s, j)'
    BY <1>2, <1>4, <1>5, <2>2, <2>5 DEF Going
  <2> QED BY <1>2, <1>7, <2>3, <2>4, <2>6 DEF AlarmInv, RingInv
<1>10. CASE a \in started
  <2>1. PICK m \in 1..k : s[m] = a
    BY <1>2, <1>10 DEF Ordered
  <2> DEFINE t == Without(k, s, m)
             p == IF m < j THEN j - 1 ELSE j
             P(i) == IF i < m THEN i ELSE i + 1
  <2>2. /\ k - 1 \in Nat /\ t \in [0..((k - 1) + 1) -> Nodes] /\ Ordered(k - 1, t)' /\ OffRing'
        /\ next' \in [Nodes -> Nodes \cup {Unset}] /\ previous' \in [Nodes -> Nodes \cup {Unset}]
    BY <1>1, <1>2, <2>1, RemoveOrder
  <2>3. TypeInv'
    BY <1>1, <1>3, <1>8, <2>2 DEF TypeInv
  <2>4. /\ k \in Nat /\ j \in 0..(k + 1)
        /\ \A i \in 1..k : s[i] \in started
        /\ \A i \in 1..k : i # m => s[i] # a
    BY <1>2, <2>1 DEF Sized, Ordered, Going
  <2>5. \A i \in 0..k : t[i] = IF i < m THEN s[i] ELSE s[i + 1]
    BY <2>4, WithoutIs
  <2>6. Sized(k - 1, t)
    BY <2>2 DEF Sized
  <2> HIDE DEF t
  <2>7. \E q : Going(k - 1, t, q)'
    <3>1. CASE Cursor = a \/ j = 0
      <4>1. Cursor' \in Alarm \ started'
        BY <1>2, <1>4, <3>1 DEF Going
      <4>2. 0 \in 0..((k - 1) + 1) /\ \A i \in 1..(k - 1) : ~(i < 0)
        BY <2>4
      <4>3. Going(k - 1, t, 0)'
        BY <4>1, <4>2 DEF Going
      <4> QED BY <4>3
    <3>2. CASE Cursor # a /\ j # 0
      <4>1. Cursor = s[j] /\ m # j
        BY <1>2, <2>1, <3>2 DEF Going
      <4>2. p \in 0..((k - 1) + 1) /\ p # 0
        BY <2>4, <3>2, <4>1
      <4>3. t[p] = s[j]
        <5>1. CASE m < j
          <6>1. p = j - 1 /\ p \in 0..k /\ ~(p < m) /\ p + 1 = j
            BY <2>4, <5>1
          <6> QED BY <2>5, <6>1
        <5>2. CASE ~(m < j)
          <6>1. p = j /\ p \in 0..k /\ p < m
            BY <2>4, <4>1, <5>2
          <6> QED BY <2>5, <6>1
        <5> QED BY <5>1, <5>2
      <4>4. ASSUME NEW i \in 1..(k - 1), i < p PROVE Seen(t[i])'
        <5>1. P(i) \in 1..k /\ P(i) # m /\ i \in 0..k /\ P(i) < j
          BY <2>4, <4>1, <4>4
        <5>2. t[i] = s[P(i)]
          BY <2>5, <5>1
        <5> HIDE DEF P, p
        <5>3. s[P(i)] \in started \ {a} /\ Seen(s[P(i)])
          BY <1>2, <2>4, <5>1 DEF Going
        <5> QED BY <1>5, <5>2, <5>3
      <4> HIDE DEF p
      <4>5. Going(k - 1, t, p)'
        BY <1>4, <4>1, <4>2, <4>3, <4>4 DEF Going
      <4> QED BY <4>5
    <3> QED BY <3>1, <3>2
  <2>8. RingInv'
    BY <2>2, <2>6, <2>7 DEF RingInv
  <2> QED BY <1>7, <2>2, <2>3, <2>8 DEF AlarmInv
<1> QED BY <1>9, <1>10

LEMMA StopStep ==
  ASSUME AlarmInv, NEW a \in Alarm, Stop(a)
  PROVE  AlarmInv'
BY TakeOff DEF Stop, tick

(* A callback returns: 0 takes its alarm off the ring, anything else puts  *)
(* it off.                                                                 *)
LEMMA ReturnOff ==
  ASSUME AlarmInv, Return(0)
  PROVE  AlarmInv'
<1>1. PICK a : a = alarm
  OBVIOUS
<1>2. a \in Alarm /\ next[a] # Unset /\ Remove(a) /\ started' = started \ {a}
  BY <1>1 DEF AlarmInv, TickInv, Return
<1>3. wait' = [wait EXCEPT ![a] = 0]
  BY <1>1, <1>2 DEF Return
<1>4. /\ rate' = rate /\ nticks' = nticks /\ time' = time /\ rollover' = rollover /\ cached' = cached
      /\ called /\ called' = FALSE /\ alarm' = cached
  BY DEF Return
<1> QED BY <1>1, <1>2, <1>3, <1>4, TakeOff

LEMMA ReturnAgain ==
  ASSUME AlarmInv, NEW n \in 0..MaxTicks, n # 0, Return(n)
  PROVE  AlarmInv'
<1>0. PICK a : a = alarm
  OBVIOUS
<1>1. /\ TypeInv /\ OffRing /\ TickInv /\ called = TRUE /\ Renew(n) /\ a \in Alarm
      /\ next' = next /\ previous' = previous /\ started' = started
      /\ wait' = [wait EXCEPT ![a] = IF a \in started THEN Cap(wait[a] + n) ELSE 0] /\ rate' = rate
      /\ nticks' = nticks /\ alarm' = cached /\ cached' = cached /\ called' = FALSE
  BY <1>0 DEF AlarmInv, Return, TypeInv, TickInv, ring
<1>2. PICK k, s, j : Sized(k, s) /\ Ordered(k, s) /\ Going(k, s, j)
  BY DEF AlarmInv, RingInv
<1>3. n \in 1..MaxTicks
  BY Numbers
<1>4. wait' \in [Alarm -> 0..Wrap] /\ \A b \in Alarm \ {a} : wait'[b] = wait[b]
  <2>1. wait \in [Alarm -> 0..Wrap] /\ 0 \in 0..Wrap
    BY <1>1, Numbers DEF TypeInv
  <2>2. Cap(wait[a] + n) \in 0..Wrap
    BY <1>1, <1>3, <2>1, Numbers DEF Cap
  <2> QED BY <1>1, <2>1, <2>2
<1>5. /\ time' \in [Alarm -> 0..(Wrap - 1)] /\ rollover' \in [Alarm -> BOOLEAN]
      /\ \A b \in Alarm \ {a} : time'[b] = time[b] /\ rollover'[b] = rollover[b]
  <2>1. time \in [Alarm -> 0..(Wrap - 1)] /\ rollover \in [Alarm -> BOOLEAN]
    BY <1>1 DEF TypeInv
  <2>2. PICK at : at = Mod(time[a] + n)
    OBVIOUS
  <2>3. at \in 0..(Wrap - 1)
    <3>1. time[a] + n \in Int
      BY <1>1, <1>3, <2>1, Numbers
    <3> QED BY <2>2, <3>1, ModType
  <2>4. (rollover[a] \/ Wraps(at)) \in BOOLEAN
    OBVIOUS
  <2>5. time' = [time EXCEPT ![a] = at] /\ rollover' = [rollover EXCEPT ![a] = (rollover[a] \/ Wraps(at))]
    BY <1>0, <1>1, <2>2 DEF Renew
  <2> QED BY <1>1, <2>1, <2>3, <2>4, <2>5
<1>6. TypeInv' /\ OffRing'
  BY <1>1, <1>4, <1>5 DEF TypeInv, OffRing
<1>7. a \in started => Seen(a)' /\ ToVisit(a)'
  <2> SUFFICES ASSUME a \in started PROVE Seen(a)' /\ ToVisit(a)'
    OBVIOUS
  <2>1. wait[a] = Wrap \/ Due(a, rollover[a])
    <3>1. CASE Visited(a)
      BY <3>1 DEF Visited
    <3>2. CASE InCall(a)
      <4>1. time[a] \in 0..(Wrap - 1)
        BY <1>1 DEF TypeInv
      <4> QED BY <3>2, <4>1, Numbers DEF InCall, Due
    <3>3. Seen(a)
      BY <1>0, <1>1 DEF TickInv
    <3> QED BY <3>1, <3>2, <3>3 DEF Seen
  <2>2. wait'[a] = Cap(wait[a] + n)
    BY <1>1 DEF TypeInv
  <2>3. Visited(a)'
    BY <1>0, <1>1, <1>3, <2>1, <2>2, RenewDue
  <2>4. Seen(a)'
    BY <2>3 DEF Seen
  <2> QED BY <1>1, <1>6, <2>4, SeenNext
<1>8. \A b \in started : (Seen(b) => Seen(b)') /\ (ToVisit(b) => ToVisit(b)')
  <2> TAKE b \in started
  <2>1. CASE b = a
    BY <1>7, <2>1
  <2>2. CASE b # a
    <3>1. b \in Alarm \ {a}
      BY <1>1, <2>2 DEF TypeInv
    <3>2. Seen(b) => Visited(b)
      BY <1>0, <2>2 DEF Seen
    <3>3. Visited(b)' => Seen(b)'
      BY DEF Seen
    <3> QED BY <1>1, <1>4, <1>5, <3>1, <3>2, <3>3, SameTimes
  <2> QED BY <2>1, <2>2
<1>9. TickInv'
  BY <1>1, <1>8 DEF TickInv
<1>10. Cursor' = Cursor
  BY <1>1 DEF Cursor
<1>11. Ordered(k, s)'
  BY <1>1, <1>2 DEF Ordered
<1>12. \A i \in 1..k : s[i] \in started
  BY <1>2 DEF Ordered
<1>13. Going(k, s, j)'
  BY <1>1, <1>2, <1>8, <1>10, <1>12 DEF Going
<1> QED BY <1>2, <1>6, <1>9, <1>11, <1>13 DEF AlarmInv, RingInv

(* alt_tick comes to an alarm: it is due if its wait is over, and else its *)
(* flag says again whether the count has to wrap.                          *)
LEMMA Expiry ==
  ASSUME TypeInv, NEW b \in Alarm, ToVisit(b), NEW roll \in BOOLEAN, roll <=> rollover[b] /\ nticks # 0
  PROVE  /\ Expired(b, roll) => wait[b] = Wrap \/ (wait[b] = 0 /\ time[b] = nticks /\ ~roll)
         /\ ~Expired(b, roll) => wait[b] > 0
         /\ wait[b] = Wrap \/ Due(b, roll)
<1>1. nticks \in 0..(Wrap - 1) /\ wait[b] \in 0..Wrap /\ time[b] \in 0..(Wrap - 1)
  BY DEF TypeInv
<1>2. CASE wait[b] = Wrap
  BY <1>2, Numbers
<1>3. CASE wait[b] # Wrap
  <2>1. nticks + wait[b] = time[b] + (IF roll THEN Wrap ELSE 0)
    BY <1>3 DEF ToVisit, Due
  <2>2. CASE roll = TRUE
    <3>1. wait[b] > 0
      BY <1>1, <2>1, <2>2, Numbers
    <3>2. ~Expired(b, roll)
      BY <2>2 DEF Expired
    <3> QED BY <2>1, <3>1, <3>2 DEF Due
  <2>3. CASE roll = FALSE
    <3>1. nticks + wait[b] = time[b]
      BY <1>1, <2>1, <2>3, Numbers
    <3>2. Expired(b, roll) <=> time[b] <= nticks
      BY <2>3 DEF Expired
    <3>3. /\ time[b] <= nticks => wait[b] = 0 /\ time[b] = nticks
          /\ ~(time[b] <= nticks) => wait[b] > 0
      BY <1>1, <3>1, Numbers
    <3> QED BY <2>1, <2>3, <3>2, <3>3 DEF Due
  <2> QED BY <2>2, <2>3
<1> QED BY <1>2, <1>3

LEMMA VisitStep ==
  ASSUME AlarmInv, Visit
  PROVE  AlarmInv'
<1>0. PICK a, roll : a = alarm /\ roll = (rollover[alarm] /\ nticks # 0)
  OBVIOUS
<1>1. /\ TypeInv /\ OffRing /\ TickInv /\ a # Head /\ a \in Alarm /\ called = FALSE /\ roll \in BOOLEAN
      /\ (roll <=> rollover[a] /\ nticks # 0)
      /\ rollover' = [rollover EXCEPT ![a] = roll] /\ called' = Expired(a, roll)
      /\ alarm' = (IF Expired(a, roll) THEN a ELSE next[a]) /\ cached' = next[a]
      /\ next' = next /\ previous' = previous /\ started' = started
      /\ wait' = wait /\ rate' = rate /\ nticks' = nticks /\ time' = time
  BY <1>0 DEF AlarmInv, Visit, TypeInv, ring, Nodes
<1>2. PICK k, s, j : Sized(k, s) /\ Ordered(k, s) /\ Going(k, s, j)
  BY DEF AlarmInv, RingInv
<1>3. /\ rollover' \in [Alarm -> BOOLEAN] /\ (rollover'[a] <=> roll)
      /\ \A b \in Alarm \ {a} : rollover'[b] = rollover[b]
  BY <1>1 DEF TypeInv
<1>4. called' \in BOOLEAN /\ (called' <=> Expired(a, roll))
  BY <1>1 DEF Expired
<1>5. next[a] \in Nodes
  BY <1>0, <1>1 DEF TypeInv, TickInv, Nodes
<1>6. TypeInv' /\ OffRing'
  BY <1>1, <1>3, <1>4, <1>5 DEF TypeInv, OffRing, Nodes
<1>7. a \in started => Seen(a)' /\ ToVisit(a)'
  <2> SUFFICES ASSUME a \in started PROVE Seen(a)' /\ ToVisit(a)'
    OBVIOUS
  <2>1. ToVisit(a)
    BY <1>1 DEF TickInv
  <2>2. /\ Expired(a, roll) => wait[a] = Wrap \/ (wait[a] = 0 /\ time[a] = nticks /\ ~roll)
        /\ ~Expired(a, roll) => wait[a] > 0
        /\ wait[a] = Wrap \/ Due(a, roll)
    BY <1>1, <2>1, Expiry
  <2>3. CASE wait[a] = Wrap
    BY <1>1, <1>6, <2>3, SeenNext DEF Seen, Visited
  <2>4. CASE Expired(a, roll) /\ wait[a] # Wrap
    <3>1. InCall(a)'
      BY <1>1, <1>3, <2>2, <2>4 DEF InCall
    <3>2. Seen(a)'
      BY <1>1, <1>4, <2>4, <3>1 DEF Seen
    <3> QED BY <1>1, <1>6, <3>2, SeenNext
  <2>5. CASE ~Expired(a, roll) /\ wait[a] # Wrap
    <3>1. Due(a, rollover[a])'
      BY <1>1, <1>3, <2>2, <2>5 DEF Due
    <3>2. Seen(a)'
      BY <1>1, <2>2, <2>5, <3>1 DEF Seen, Visited
    <3> QED BY <1>1, <1>6, <3>2, SeenNext
  <2> QED BY <2>3, <2>4, <2>5
<1>8. \A b \in started : (b # a /\ Seen(b) => Seen(b)') /\ (ToVisit(b) => ToVisit(b)')
  <2> TAKE b \in started
  <2>1. CASE b = a
    BY <1>7, <2>1
  <2>2. CASE b # a
    <3>1. b \in Alarm \ {a}
      BY <1>1, <2>2 DEF TypeInv
    <3>2. Seen(b) => Visited(b)
      BY <1>1 DEF Seen
    <3>3. Visited(b)' => Seen(b)'
      BY DEF Seen
    <3> QED BY <1>1, <1>3, <3>1, <3>2, <3>3, SameTimes
  <2> QED BY <2>1, <2>2
<1>9. Cursor' = next[a] /\ Cursor = a
  BY <1>0, <1>1, <1>4 DEF Cursor
<1>10. Ordered(k, s)'
  BY <1>1, <1>2 DEF Ordered
<1>11. k \in Nat /\ j \in 0..(k + 1) /\ s[k + 1] = Head /\ \A i \in 1..k : s[i] \in started
  BY <1>2 DEF Sized, Ordered, Going
<1>12. /\ next[next[a]] # Unset
       /\ \E p : Going(k, s, p)'
  <2>1. CASE j = 0
    <3>1. next[a] = a
      BY <1>0, <1>1, <1>2, <1>9, <2>1 DEF Going, OffRing, TickInv
    <3>2. Cursor' \in Alarm \ started'
      BY <1>1, <1>2, <1>9, <2>1, <3>1 DEF Going
    <3>3. Going(k, s, 0)'
      <4>1. 0 \in 0..(k + 1) /\ \A i \in 1..k : ~(i < 0)
        BY <1>11
      <4> QED BY <3>2, <4>1 DEF Going
    <3> QED BY <1>1, <3>1, <3>3, Numbers
  <2>2. CASE j # 0
    <3>1. a = s[j] /\ j \in 1..k /\ j \in 0..k /\ j + 1 \in 0..(k + 1) /\ j + 1 # 0
      <4>1. a = s[j]
        BY <1>2, <1>9, <2>2 DEF Going
      <4>2. j # k + 1
        BY <1>1, <1>11, <4>1
      <4> QED BY <1>11, <2>2, <4>1, <4>2
    <3>2. next[a] = s[j + 1]
      BY <1>2, <3>1 DEF Ordered
    <3>3. next[s[j + 1]] \in Nodes
      BY <1>1, <1>2, <3>1, Places
    <3>4. ASSUME NEW i \in 1..k, i < j + 1 PROVE Seen(s[i])'
      <4>1. CASE i = j
        BY <1>7, <1>11, <3>1, <4>1
      <4>2. CASE i # j
        <5>1. i < j /\ s[i] # a /\ s[i] \in started
          BY <1>2, <1>11, <3>1, <3>4, <4>2 DEF Ordered
        <5>2. Seen(s[i])
          BY <1>2, <5>1 DEF Going
        <5> QED BY <1>8, <5>1, <5>2
      <4> QED BY <4>1, <4>2
    <3>5. Going(k, s, j + 1)'
      BY <1>9, <3>1, <3>2, <3>4 DEF Going
    <3>6. Unset \notin Nodes
      BY Numbers DEF Nodes
    <3> QED BY <3>2, <3>3, <3>5, <3>6
  <2> QED BY <2>1, <2>2
<1>13. TickInv'
  <2>1. called' => alarm' = a
    BY <1>1, <1>4
  <2>2. \A b \in started' : ToVisit(b)'
    BY <1>1, <1>8 DEF TickInv
  <2>3. next'[alarm'] # Unset /\ next'[cached'] # Unset
    BY <1>0, <1>1, <1>12 DEF TickInv
  <2> QED BY <1>1, <1>7, <2>1, <2>2, <2>3 DEF TickInv
<1> QED BY <1>2, <1>6, <1>10, <1>12, <1>13 DEF AlarmInv, RingInv

(* The interrupt: the count goes up by one, or round, and every alarm is   *)
(* to be visited.                                                          *)
LEMMA TickDue ==
  ASSUME TypeInv, NEW b \in Alarm, Visited(b), wait[b] # Wrap, nticks' = Mod(nticks + 1),
         wait'[b] = wait[b] - 1, time'[b] = time[b], rollover'[b] = rollover[b]
  PROVE  ToVisit(b)'
<1>1. /\ nticks \in 0..(Wrap - 1) /\ wait[b] \in 1..(Wrap - 1) /\ time[b] \in 0..(Wrap - 1)
      /\ rollover[b] \in BOOLEAN
  BY Numbers DEF TypeInv, Visited
<1>2. nticks + wait[b] = time[b] + (IF rollover[b] THEN Wrap ELSE 0)
  BY DEF Visited, Due
<1>3. nticks + 1 \in 0..(2 * Wrap - 1) /\ Wrap > 0
  BY <1>1, Numbers
<1>4. nticks' = IF nticks + 1 < Wrap THEN nticks + 1 ELSE nticks + 1 - Wrap
  <2> DEFINE y == nticks + 1
  <2>1. y \in 0..(2 * Wrap - 1) /\ Wrap \in Nat /\ Wrap > 0
    BY <1>3, Numbers
  <2> HIDE DEF y
  <2>2. y % Wrap = IF y < Wrap THEN y ELSE y - Wrap
    BY <2>1, ModOnce
  <2>3. y % Wrap = IF nticks + 1 < Wrap THEN nticks + 1 ELSE nticks + 1 - Wrap
    BY <1>1, <2>2, Numbers DEF y
  <2>4. nticks' = y % Wrap
    BY DEF Mod, y
  <2> QED BY <2>3, <2>4
<1>5. PICK n : n = nticks'
  OBVIOUS
<1>6. SUFFICES n + (wait[b] - 1) = time[b] + (IF rollover[b] /\ n # 0 THEN Wrap ELSE 0)
  BY <1>5 DEF ToVisit, Due
<1>7. CASE rollover[b] = TRUE
  <2>1. nticks + wait[b] = time[b] + Wrap
    BY <1>2, <1>7
  <2>2. n + (wait[b] - 1) = time[b] + (IF n # 0 THEN Wrap ELSE 0)
    BY <1>1, <1>4, <1>5, <2>1, Numbers
  <2> QED BY <1>7, <2>2
<1>8. CASE rollover[b] = FALSE
  <2>1. nticks + wait[b] = time[b]
    BY <1>1, <1>2, <1>8
  <2>2. n + (wait[b] - 1) = time[b]
    BY <1>1, <1>4, <1>5, <2>1, Numbers
  <2>3. time[b] + 0 = time[b]
    BY <1>1
  <2> QED BY <1>8, <2>2, <2>3
<1> QED BY <1>1, <1>7, <1>8

LEMMA AtHead ==
  ASSUME AlarmInv, alarm = Head
  PROVE  called = FALSE /\ \A a \in started : Visited(a)
<1>1. PICK k, s, j : Sized(k, s) /\ Ordered(k, s) /\ Going(k, s, j)
  BY DEF AlarmInv, RingInv
<1>2. called = FALSE
  BY Numbers DEF AlarmInv, TypeInv, TickInv
<1>3. Cursor = Head /\ Head \notin Alarm
  BY <1>2, Numbers DEF Cursor
<1>4. k \in Nat /\ j \in 0..(k + 1) /\ j # 0 /\ s[j] = Head /\ \A i \in 1..k : s[i] # Head
  BY <1>1, <1>3, Places DEF Sized, Going, AlarmInv
<1>5. \A i \in 1..k : i < j
  BY <1>4
<1>6. \A a \in started : Seen(a)
  BY <1>1, <1>5 DEF Going, Ordered
<1> QED BY <1>2, <1>6 DEF Seen

LEMMA TickKeeps ==
  ASSUME AlarmInv, Tick
  PROVE  AlarmInv'
<1>1. /\ TypeInv /\ OffRing /\ TickInv /\ alarm = Head /\ nticks' = Mod(nticks + 1) /\ alarm' = next[Head]
      /\ wait' = [a \in Alarm |->
                    IF a \in started /\ wait[a] < Wrap THEN wait[a] - 1 ELSE wait[a]]
      /\ rate' = rate /\ next' = next /\ previous' = previous /\ time' = time /\ rollover' = rollover
      /\ cached' = cached /\ called' = called /\ started' = started
  BY DEF AlarmInv, Tick, ring
<1>2. PICK k, s, j : Sized(k, s) /\ Ordered(k, s) /\ Going(k, s, j)
  BY DEF AlarmInv, RingInv
<1>3. called = FALSE /\ \A a \in started : Visited(a)
  BY <1>1, AtHead
<1>4. ASSUME NEW a \in started
      PROVE  /\ a \in Alarm /\ wait[a] \in 1..Wrap
             /\ wait'[a] = IF wait[a] = Wrap THEN Wrap ELSE wait[a] - 1
  <2>1. a \in Alarm /\ wait[a] \in 0..Wrap /\ wait[a] # 0
    BY <1>1, <1>3, Numbers DEF TypeInv, Visited
  <2>2. wait[a] \in 1..Wrap /\ (wait[a] < Wrap <=> wait[a] # Wrap)
    BY <2>1, Numbers
  <2> QED BY <1>1, <2>1, <2>2
<1>5. wait' \in [Alarm -> 0..Wrap]
  <2> SUFFICES ASSUME NEW a \in Alarm PROVE wait'[a] \in 0..Wrap
    BY <1>1
  <2>1. wait[a] \in 0..Wrap /\ (a \in started => wait[a] # 0)
    <3>1. wait[a] \in 0..Wrap
      BY <1>1 DEF TypeInv
    <3>2. a \in started => wait[a] \in 1..Wrap
      BY <1>4
    <3> QED BY <3>1, <3>2, Numbers
  <2>2. wait'[a] = IF a \in started /\ wait[a] < Wrap THEN wait[a] - 1 ELSE wait[a]
    BY <1>1
  <2> QED BY <2>1, <2>2, Numbers
<1>6. nticks' \in 0..(Wrap - 1)
  <2>1. nticks + 1 \in Int
    BY <1>1, Numbers DEF TypeInv
  <2> QED BY <1>1, <2>1, ModType
<1>7. /\ k \in Nat /\ 1 \in 0..(k + 1) /\ 0 \in 0..k /\ 0 + 1 = 1 /\ s[0] = Head
      /\ s \in [0..(k + 1) -> Nodes] /\ \A i \in 1..k : ~(i < 1)
  BY <1>2 DEF Sized, Ordered
<1>8. alarm' = s[1] /\ s[1] \in Nodes /\ next[s[1]] \in Nodes
  <2>1. alarm' = s[1]
    BY <1>1, <1>2, <1>7 DEF Ordered
  <2> QED BY <1>1, <1>2, <1>7, <2>1, Places
<1>9. TypeInv' /\ OffRing'
  BY <1>1, <1>5, <1>6, <1>8 DEF TypeInv, OffRing
<1>10. Ordered(k, s)'
  BY <1>1, <1>2 DEF Ordered
<1>11. \A b \in started : ToVisit(b)'
  <2> TAKE b \in started
  <2>1. CASE wait[b] = Wrap
    BY <1>4, <2>1 DEF ToVisit
  <2>2. CASE wait[b] # Wrap
    BY <1>1, <1>3, <1>4, <2>2, TickDue
  <2> QED BY <2>1, <2>2
<1>12. TickInv'
  <2>1. Unset \notin Nodes
    BY Numbers DEF Nodes
  <2>2. next'[alarm'] # Unset /\ next'[cached'] # Unset
    BY <1>1, <1>8, <2>1 DEF TickInv
  <2> QED BY <1>1, <1>3, <1>11, <2>2 DEF TickInv
<1>13. Cursor' = s[1]
  BY <1>1, <1>3, <1>8 DEF Cursor
<1>14. Going(k, s, 1)'
  BY <1>7, <1>13 DEF Going
<1> QED BY <1>2, <1>9, <1>10, <1>12, <1>14 DEF AlarmInv, RingInv

(* What leaves the ring, the times and the count alone.                    *)
LEMMA SameRing ==
  ASSUME AlarmInv, rate' \in {0, Rate}, UNCHANGED <<nticks, ring, time, rollover, tick, started, wait>>
  PROVE  AlarmInv'
<1>1. /\ nticks' = nticks /\ next' = next /\ previous' = previous /\ time' = time /\ rollover' = rollover
      /\ alarm' = alarm /\ cached' = cached /\ called' = called /\ started' = started /\ wait' = wait
  BY DEF ring, tick
<1>2. PICK k, s, j : Sized(k, s) /\ Ordered(k, s) /\ Going(k, s, j)
  BY DEF AlarmInv, RingInv
<1>3. TypeInv' /\ OffRing'
  BY <1>1 DEF AlarmInv, TypeInv, OffRing
<1>4. Ordered(k, s)'
  BY <1>1, <1>2 DEF Ordered
<1>5. \A b : (Seen(b) => Seen(b)') /\ (ToVisit(b) => ToVisit(b)')
  BY <1>1 DEF Seen, Visited, ToVisit, InCall, Due
<1>6. PICK c : c = alarm
  OBVIOUS
<1>7. TickInv'
  BY <1>1, <1>5, <1>6 DEF AlarmInv, TickInv
<1>8. Going(k, s, j)'
  BY <1>1, <1>2, <1>5 DEF Going, Cursor
<1> QED BY <1>2, <1>3, <1>4, <1>7, <1>8 DEF AlarmInv, RingInv

LEMMA AlarmInit == Init => AlarmInv
<1> SUFFICES ASSUME Init PROVE AlarmInv
  OBVIOUS
<1>1. /\ rate = 0 /\ nticks = 0 /\ previous = next /\ alarm = Head /\ cached = Head /\ called = FALSE
      /\ next = [a \in Nodes |-> IF a = Head THEN Head ELSE Unset]
      /\ time = [a \in Alarm |-> 0] /\ rollover = [a \in Alarm |-> FALSE]
      /\ started = {} /\ wait = [a \in Alarm |-> 0]
  BY DEF Init, Nodes
<1>2. next \in [Nodes -> Nodes \cup {Unset}] /\ next[Head] = Head /\ \A a \in Alarm : next[a] = Unset
  BY <1>1, Numbers DEF Nodes
<1>3. 0 \in 0..(Wrap - 1) /\ 0 \in 0..Wrap
  BY Numbers
<1>4. TypeInv
  BY <1>1, <1>2, <1>3 DEF TypeInv, Nodes
<1>5. OffRing
  BY <1>1, <1>2 DEF OffRing
<1>6. TickInv
  BY <1>1, <1>2, Numbers DEF TickInv
<1> DEFINE s == [i \in 0..1 |-> Head]
<1>7. s \in [0..(0 + 1) -> Nodes] /\ s[0] = Head /\ s[1] = Head /\ 0 + 1 = 1 /\ 0..0 = {0} /\ 1..0 = {}
  BY DEF Nodes
<1> HIDE DEF s
<1>8. Sized(0, s)
  BY <1>7 DEF Sized
<1>9. Ordered(0, s)
  BY <1>1, <1>2, <1>7 DEF Ordered
<1>10. Going(0, s, 1)
  BY <1>1, <1>7 DEF Going, Cursor
<1> QED BY <1>4, <1>5, <1>6, <1>8, <1>9, <1>10 DEF AlarmInv, RingInv

LEMMA AlarmStep == AlarmInv /\ [Next]_vars => AlarmInv'
<1> SUFFICES ASSUME AlarmInv, [Next]_vars PROVE AlarmInv'
  OBVIOUS
<1>1. CASE SysclkInit
  BY <1>1, SameRing DEF SysclkInit
<1>2. CASE Program
  BY <1>2, StopStep, StartStep DEF Program
<1>3. CASE \E t \in Times : SetTimeOfDay(t)
  BY <1>3, SameRing DEF SetTimeOfDay, AlarmInv, TypeInv
<1>4. CASE Tick
  BY <1>4, TickKeeps
<1>5. CASE Visit
  BY <1>5, VisitStep
<1>6. CASE \E n \in 0..MaxTicks : Return(n)
  BY <1>6, ReturnOff, ReturnAgain
<1>7. CASE Callback
  BY <1>7, StopStep, StartStep DEF Callback
<1>8. CASE UNCHANGED vars
  <2>1. rate' \in {0, Rate}
    BY <1>8 DEF vars, AlarmInv, TypeInv
  <2> QED BY <1>8, <2>1, SameRing DEF vars
<1> QED BY <1>1, <1>2, <1>3, <1>4, <1>5, <1>6, <1>7, <1>8 DEF Next, TickStep

LEMMA AlarmAlways == Spec => []AlarmInv
<1>1. Init => AlarmInv
  BY AlarmInit
<1>2. AlarmInv /\ [Next]_vars => AlarmInv'
  BY AlarmStep
<1> QED BY <1>1, <1>2, PTL DEF Spec

-----------------------------------------------------------------------------
(* An alarm is called back in the tick in which it is due and in no other, *)
(* whether or not the count of ticks wraps in between, whatever callbacks  *)
(* start and stop.                                                         *)
THEOREM AlarmsCalledOnTime == Spec => CalledOnTime
<1> DEFINE P == /\ ~called /\ called' /\ alarm \in started => wait[alarm] \in {0, Wrap}
                /\ alarm' = Head => \A a \in started' : wait'[a] # 0
           Idle == alarm = Head => \A a \in started : wait[a] # 0
<1>1. AlarmInv => Idle
  BY AtHead, Numbers DEF Visited
<1>2. AlarmInv /\ Idle' /\ [Next]_vars => P
  <2> SUFFICES ASSUME AlarmInv, [Next]_vars, ~called, called', alarm \in started
               PROVE  wait[alarm] \in {0, Wrap}
    OBVIOUS
  <2>1. Visit
    BY DEF Next, TickStep, SysclkInit, Program, SetTimeOfDay, Tick, Return, Callback, Start, Stop, tick, vars
  <2>2. TypeInv /\ alarm \in Alarm /\ ToVisit(alarm)
    BY DEF AlarmInv, TypeInv, TickInv
  <2>3. PICK roll : roll = (rollover[alarm] /\ nticks # 0)
    OBVIOUS
  <2>4. Expired(alarm, roll) /\ roll \in BOOLEAN
    BY <2>1, <2>3 DEF Visit
  <2> QED BY <2>2, <2>3, <2>4, Expiry
<1>3. AlarmInv /\ Idle' /\ [Next]_vars => [P]_vars
  BY <1>2
<1> HIDE DEF Idle
<1> QED BY <1>1, <1>3, AlarmAlways, PTL DEF Spec, CalledOnTime

(* alt_tick is led off the ring only by a callback that stops the alarm    *)
(* read to come next: not by what it stops or starts else, its own alarm   *)
(* included, nor by returning 0.                                           *)
LEMMA StrayIs ==
  ASSUME AlarmInv
  PROVE  Stray <=> Cursor \notin started \cup {Head}
BY Numbers DEF AlarmInv, TypeInv, TickInv, Stray, Cursor

(* From a node of the ring the next pointer leads to one of the ring.      *)
LEMMA RingClosed ==
  ASSUME AlarmInv, NEW a \in started \cup {Head}
  PROVE  next[a] \in started \cup {Head}
<1>1. PICK k, s, j : Sized(k, s) /\ Ordered(k, s) /\ Going(k, s, j)
  BY DEF AlarmInv, RingInv
<1>2. TypeInv
  BY DEF AlarmInv
<1>3. PICK i \in 0..k : s[i] = a
  <2>1. k \in Nat /\ 0 \in 0..k /\ 1..k \subseteq 0..k
    BY <1>1 DEF Sized
  <2> QED BY <1>1, <2>1 DEF Ordered
<1>4. next[a] = s[i + 1] /\ i + 1 \in 0..(k + 1)
  BY <1>1, <1>3 DEF Ordered, Sized
<1> QED BY <1>1, <1>2, <1>4, Places

(* KeepsToRing (alt_tick.c:102, 117): alt_tick stays on the ring while     *)
(* callbacks start and stop alarms, unless one stops the alarm read next.  *)
THEOREM TickKeepsToRing == Spec => KeepsToRing
<1> DEFINE On == Cursor \in started \cup {Head}
           P == ~Stray /\ Stray' => called /\ cached \in started \ started'
<1>1. AlarmInv => (Stray <=> ~On)
  BY StrayIs
<1>2. AlarmInv /\ [Next]_vars => (On /\ ~On' => called /\ cached \in started \ started')
  <2> SUFFICES ASSUME AlarmInv, [Next]_vars, On, ~On'
               PROVE  called /\ cached \in started \ started'
    OBVIOUS
  <2>1. ASSUME NEW a \in Alarm, Stop(a), called \/ alarm = Head PROVE called /\ cached \in started \ started'
    <3>1. Cursor' = Cursor /\ started' = started \ {a}
      BY <2>1 DEF Stop, tick, Cursor
    <3>2. Cursor = a
      BY <3>1
    <3> QED BY <2>1, <3>1, <3>2, Numbers DEF Cursor
  <2>2. ASSUME NEW a \in Alarm, NEW n \in 0..MaxTicks, Start(a, n) PROVE FALSE
    BY <2>2 DEF Start, tick, Cursor
  <2>3. CASE Program
    BY <2>1, <2>2, <2>3 DEF Program
  <2>4. CASE Callback
    BY <2>1, <2>2, <2>4 DEF Callback
  <2>5. CASE Tick
    <3>1. called = FALSE
      BY <2>5, AtHead DEF Tick
    <3> QED BY <2>5, <3>1, RingClosed DEF Tick, Cursor
  <2>6. CASE Visit
    <3>1. Cursor = alarm /\ Cursor' = next[alarm] /\ started' = started
      BY <2>6 DEF Visit, Cursor
    <3> QED BY <3>1, RingClosed
  <2>7. CASE \E n \in 0..MaxTicks : Return(n)
    <3>1. called /\ Cursor = cached /\ Cursor' = cached /\ started' \in {started, started \ {alarm}}
      BY <2>7 DEF Return, Cursor
    <3>2. cached \in Nodes /\ Head \notin started
      BY Numbers DEF AlarmInv, TypeInv
    <3> QED BY <3>1, <3>2
  <2>8. CASE SysclkInit \/ (\E t \in Times : SetTimeOfDay(t)) \/ UNCHANGED vars
    BY <2>8 DEF SysclkInit, SetTimeOfDay, vars, tick, Cursor
  <2> QED BY <2>3, <2>4, <2>5, <2>6, <2>7, <2>8 DEF Next, TickStep
<1> HIDE DEF On
<1>3. AlarmInv /\ (Stray' <=> ~On') /\ [Next]_vars => [P]_vars
  BY <1>1, <1>2
<1> HIDE DEF P
<1>4. Spec => [][P]_vars
  BY <1>1, <1>3, AlarmAlways, PTL DEF Spec
<1> QED BY <1>4 DEF P, KeepsToRing

-----------------------------------------------------------------------------
(* Once round the ring.                                                    *)

(* Induction: every set of numbers has a least one.                        *)
NatLess == {s \in Nat \X Nat : s[1] < s[2]}

LEMMA NatLessWF == IsWellFoundedOn(NatLess, Nat)
BY NatLessThanWellFounded DEF OpToRel, NatLess

LEMMA NatLessIs == \A a, b \in Nat : <<a, b>> \in NatLess <=> a < b
BY DEF NatLess

LEMMA Least ==
  ASSUME NEW S, S \subseteq Nat, S # {}
  PROVE  \E n \in S : \A m \in S : n <= m
<1>1. PICK x \in S : \A y \in S : ~(<<y, x>> \in NatLess)
  BY NatLessWF, WFMin
<1>2. ASSUME NEW y \in S PROVE x <= y
  <2>1. ~(<<y, x>> \in NatLess)
    BY <1>1
  <2>2. x \in Nat /\ y \in Nat
    OBVIOUS
  <2>3. ~(y < x)
    BY <2>1, <2>2, NatLessIs
  <2> QED BY <2>2, <2>3
<1> QED BY <1>2

(* What holds of 0, and of k + 1 if it holds of k, holds up to n.          *)
LEMMA UpTo ==
  ASSUME NEW n \in Nat, NEW S, 0 \in S, \A k \in 0..n : k \in S /\ k # n => k + 1 \in S
  PROVE  0..n \subseteq S
<1>1. SUFFICES ASSUME (0..n) \ S # {} PROVE FALSE
  OBVIOUS
<1>2. PICK k \in (0..n) \ S : \A m \in (0..n) \ S : k <= m
  <2>1. (0..n) \ S \subseteq Nat
    OBVIOUS
  <2> QED BY <1>1, <2>1, Least
<1>3. k # 0 /\ k - 1 \in 0..n /\ k - 1 # n
  BY <1>2
<1>4. k - 1 \in S
  BY <1>2, <1>3
<1>5. (k - 1) + 1 \in S
  BY <1>3, <1>4
<1> QED BY <1>5

(* The nodes met in at most n steps from the head of the ring.             *)
Reach(N, f) ==
  f = [n \in 0..N |->
         IF n = 0 THEN {next[Head]} ELSE f[n - 1] \cup {next[a] : a \in f[n - 1] \ {Head, Unset}}]

Met(s, m) == {s[i] : i \in 1..(m + 1)}

LEMMA MetStep ==
  ASSUME TypeInv, NEW k, NEW s, Sized(k, s), Ordered(k, s)
  PROVE  /\ Met(s, 0) = {next[Head]}
         /\ \A m \in 0..k : Met(s, IF m < k THEN m + 1 ELSE m)
                              = Met(s, m) \cup {next[a] : a \in Met(s, m) \ {Head, Unset}}
         /\ Met(s, k) = started \cup {Head}
<1>1. /\ k \in Nat /\ s[0] = Head /\ s[k + 1] = Head
      /\ \A i \in 0..k : next[s[i]] = s[i + 1]
      /\ \A i \in 1..k : s[i] \in started /\ s[i] # Head /\ s[i] # Unset
      /\ \A a \in started : \E i \in 1..k : s[i] = a
  <2>1. k \in Nat /\ s[0] = Head /\ s[k + 1] = Head
        /\ (\A i \in 0..k : next[s[i]] = s[i + 1])
        /\ (\A i \in 1..k : s[i] \in started)
        /\ (\A a \in started : \E i \in 1..k : s[i] = a)
    BY DEF Sized, Ordered
  <2>2. \A i \in 1..k : s[i] \in Alarm /\ s[i] # Head
    BY Places
  <2> QED BY <2>1, <2>2, Numbers
<1>2. Met(s, 0) = {next[Head]}
  <2>1. 0 \in 0..k /\ 0 + 1 = 1 /\ 1..(0 + 1) = {1}
    BY <1>1
  <2>2. next[Head] = s[1]
    BY <1>1, <2>1
  <2> QED BY <2>1, <2>2 DEF Met
<1>3. ASSUME NEW m \in 0..k, m < k
      PROVE  Met(s, m + 1) = Met(s, m) \cup {next[a] : a \in Met(s, m) \ {Head, Unset}}
  <2>1. \A i \in 1..(m + 1) : i \in 1..k /\ i \in 0..k /\ i + 1 \in 1..((m + 1) + 1) /\ i \in 1..((m + 1) + 1)
    BY <1>1, <1>3
  <2>2. \A i \in 1..((m + 1) + 1) : i \in 1..(m + 1) \/ (i - 1 \in 1..(m + 1) /\ (i - 1) + 1 = i)
    BY <1>1, <1>3
  <2>3. ASSUME NEW i \in 1..((m + 1) + 1)
        PROVE  s[i] \in Met(s, m) \cup {next[a] : a \in Met(s, m) \ {Head, Unset}}
    <3>1. CASE i \in 1..(m + 1)
      BY <3>1 DEF Met
    <3>2. CASE i - 1 \in 1..(m + 1) /\ (i - 1) + 1 = i
      <4>1. s[i - 1] \in Met(s, m) \ {Head, Unset} /\ next[s[i - 1]] = s[i]
        BY <1>1, <2>1, <3>2 DEF Met
      <4> QED BY <4>1
    <3> QED BY <2>2, <3>1, <3>2
  <2>4. ASSUME NEW i \in 1..(m + 1) PROVE s[i] \in Met(s, m + 1) /\ next[s[i]] \in Met(s, m + 1)
    BY <1>1, <2>1 DEF Met
  <2>5. Met(s, m + 1) \subseteq Met(s, m) \cup {next[a] : a \in Met(s, m) \ {Head, Unset}}
    BY <2>3 DEF Met
  <2>6. Met(s, m) \cup {next[a] : a \in Met(s, m) \ {Head, Unset}} \subseteq Met(s, m + 1)
    <3>1. \A b \in Met(s, m) : b \in Met(s, m + 1) /\ next[b] \in Met(s, m + 1)
      BY <2>4 DEF Met
    <3> QED BY <3>1
  <2> QED BY <2>5, <2>6
<1>4. Met(s, k) = Met(s, k) \cup {next[a] : a \in Met(s, k) \ {Head, Unset}}
  <2>1. \A i \in 1..(k + 1) : i = k + 1 \/ (i \in 0..k /\ i + 1 \in 1..(k + 1))
    BY <1>1
  <2>2. ASSUME NEW i \in 1..(k + 1), s[i] # Head PROVE next[s[i]] \in Met(s, k)
    <3>1. next[s[i]] = s[i + 1] /\ i + 1 \in 1..(k + 1)
      BY <1>1, <2>1, <2>2
    <3> QED BY <3>1 DEF Met
  <2>3. \A a \in Met(s, k) \ {Head, Unset} : next[a] \in Met(s, k)
    BY <2>2 DEF Met
  <2> QED BY <2>3
<1>5. Met(s, k) = started \cup {Head}
  <2>1. k + 1 \in 1..(k + 1) /\ 1..k \subseteq 1..(k + 1) /\ \A i \in 1..(k + 1) : i = k + 1 \/ i \in 1..k
    BY <1>1
  <2>2. Met(s, k) \subseteq started \cup {Head}
    BY <1>1, <2>1 DEF Met
  <2>3. started \cup {Head} \subseteq Met(s, k)
    BY <1>1, <2>1 DEF Met
  <2> QED BY <2>2, <2>3
<1>6. ASSUME NEW m \in 0..k
      PROVE  Met(s, IF m < k THEN m + 1 ELSE m)
               = Met(s, m) \cup {next[a] : a \in Met(s, m) \ {Head, Unset}}
  <2>1. CASE m < k
    BY <1>3, <2>1
  <2>2. CASE ~(m < k)
    <3>1. m = k
      BY <1>1, <2>2
    <3> QED BY <1>4, <2>2, <3>1
  <2> QED BY <2>1, <2>2
<1> QED BY <1>2, <1>5, <1>6

LEMMA RingMet ==
  ASSUME TypeInv, NEW k, NEW s, Sized(k, s), Ordered(k, s), NEW N \in Nat, k <= N
  PROVE  /\ \E f : Reach(N, f)
         /\ \A f : Reach(N, f) => f[N] = started \cup {Head}
<1> DEFINE C(n) == IF n < k THEN n ELSE k
           More(S) == S \cup {next[a] : a \in S \ {Head, Unset}}
           q == [n \in 0..N |-> Met(s, C(n))]
<1>1. k \in Nat /\ C(0) = 0 /\ C(N) = k
  BY DEF Sized
<1>2. \A n \in 0..N : n # 0 => n - 1 \in 0..N /\ C(n - 1) \in 0..k
                               /\ C(n) = IF C(n - 1) < k THEN C(n - 1) + 1 ELSE C(n - 1)
  BY <1>1
<1>3. Met(s, C(0)) = {next[Head]} /\ Met(s, C(N)) = started \cup {Head}
  BY <1>1, MetStep
<1> HIDE DEF C
<1>4. ASSUME NEW n \in 0..N, n # 0 PROVE Met(s, C(n)) = More(Met(s, C(n - 1)))
  BY <1>2, <1>4, MetStep
<1>5. Reach(N, q)
  <2>1. ASSUME NEW n \in 0..N
        PROVE  q[n] = IF n = 0 THEN {next[Head]} ELSE More(q[n - 1])
    <3>1. CASE n = 0
      BY <1>3, <3>1
    <3>2. CASE n # 0
      <4>1. q[n] = Met(s, C(n)) /\ q[n - 1] = Met(s, C(n - 1))
        BY <1>2, <3>2
      <4> HIDE DEF q, More
      <4> QED BY <1>4, <3>2, <4>1
    <3> QED BY <3>1, <3>2
  <2> QED BY <2>1 DEF Reach
<1>6. ASSUME NEW f, Reach(N, f) PROVE f[N] = started \cup {Head}
  <2> DEFINE Same == {n \in 0..N : f[n] = Met(s, C(n))}
  <2>1. \A n \in 0..N : f[n] = IF n = 0 THEN {next[Head]} ELSE More(f[n - 1])
    BY <1>6 DEF Reach
  <2>2. 0 \in Same
    <3>1. 0 \in 0..N
      OBVIOUS
    <3> QED BY <1>3, <2>1, <3>1
  <2>3. \A n \in 0..N : n \in Same /\ n # N => n + 1 \in Same
    <3> SUFFICES ASSUME NEW n \in Same, n # N PROVE n + 1 \in Same
      OBVIOUS
    <3>1. n \in 0..N /\ n + 1 \in 0..N /\ n + 1 # 0 /\ (n + 1) - 1 = n /\ f[n] = Met(s, C(n))
      OBVIOUS
    <3> HIDE DEF More
    <3>2. f[n + 1] = Met(s, C(n + 1))
      BY <1>4, <2>1, <3>1
    <3> QED BY <3>1, <3>2
  <2>4. 0..N \subseteq Same
    <3> HIDE DEF Same
    <3> QED BY <2>2, <2>3, UpTo
  <2>5. N \in 0..N
    OBVIOUS
  <2>6. f[N] = Met(s, C(N))
    BY <2>4, <2>5
  <2> QED BY <1>3, <2>6
<1> QED BY <1>5, <1>6

LEMMA RingFits ==
  ASSUME TypeInv, NEW k, NEW s, Sized(k, s), Ordered(k, s)
  PROVE  Cardinality(Alarm) \in Nat /\ k <= Cardinality(Alarm)
<1>1. IsFiniteSet(Alarm)
  BY AlarmAssumption DEF AlarmAssumption
<1>2. Cardinality(Alarm) \in Nat
  BY <1>1, FS_CardinalityType
<1>3. k \in Nat /\ (\A i \in 1..k : s[i] \in Alarm) /\ (\A i, m \in 1..k : s[i] = s[m] => i = m)
  BY Places DEF Sized, Ordered
<1> DEFINE f == [i \in 1..k |-> s[i]]
<1>4. f \in Injection(1..k, Alarm)
  BY <1>3 DEF Injection, IsInjective
<1> HIDE DEF f
<1>5. Cardinality(1..k) <= Cardinality(Alarm)
  BY <1>1, <1>4, FS_Injection
<1>6. Cardinality(1..k) = IF 1 > k THEN 0 ELSE k - 1 + 1
  BY <1>3, FS_Interval
<1> QED BY <1>2, <1>3, <1>5, <1>6

(* Once round the ring meets the alarms that are started and no others,    *)
(* whatever was started and stopped, and by whom, and each node knows the  *)
(* one before it.                                                          *)
THEOREM RingOfStarted == Spec => []RingIsStarted
<1>1. AlarmInv => RingIsStarted
  <2> SUFFICES ASSUME AlarmInv PROVE RingIsStarted
    OBVIOUS
  <2>1. PICK k, s, j : Sized(k, s) /\ Ordered(k, s) /\ Going(k, s, j)
    BY DEF AlarmInv, RingInv
  <2>2. TypeInv
    BY DEF AlarmInv
  <2> DEFINE N == Cardinality(Alarm)
             R == CHOOSE f : Reach(N, f)
  <2>3. N \in Nat /\ k <= N
    BY <2>1, <2>2, RingFits
  <2>4. (\E f : Reach(N, f)) /\ (\A f : Reach(N, f) => f[N] = started \cup {Head})
    <3> HIDE DEF N
    <3> QED BY <2>1, <2>2, <2>3, RingMet
  <2>5. Reached = R[N]
    BY DEF Reached, Reach
  <2>6. Reach(N, R)
    BY <2>4
  <2>7. Reached = started \cup {Head}
    BY <2>4, <2>5, <2>6
  <2>8. ASSUME NEW a \in started \cup {Head} PROVE previous[next[a]] = a
    <3>1. \E i \in 0..k : s[i] = a
      <4>1. k \in Nat /\ 0 \in 0..k /\ 1..k \subseteq 0..k
        BY <2>1 DEF Sized
      <4> QED BY <2>1, <4>1 DEF Ordered
    <3> QED BY <2>1, <3>1 DEF Ordered
  <2> QED BY <2>7, <2>8 DEF RingIsStarted
<1> QED BY <1>1, AlarmAlways, PTL

-----------------------------------------------------------------------------
(* The time of day: division.                                              *)

LEMMA DivMod ==
  ASSUME NEW n \in Int, NEW d \in Nat, d > 0
  PROVE  n \div d \in Int /\ n % d \in 0..(d - 1) /\ n = d * (n \div d) + (n % d)
<1>1. n \div d \in Int
  OBVIOUS
<1>2. n % d \in 0..(d - 1)
  OBVIOUS
<1>3. n = d * (n \div d) + (n % d)
  OBVIOUS
<1> QED BY <1>1, <1>2, <1>3

LEMMA Multiple ==
  ASSUME NEW d \in Nat, d > 0, NEW a \in Int, a > 0
  PROVE  d * a >= d
OBVIOUS

LEMMA Products ==
  ASSUME NEW d \in Int, NEW a \in Int, NEW b \in Int
  PROVE  /\ d * a \in Int /\ d * b \in Int /\ a * d = d * a
         /\ d * (a - b) = d * a - d * b /\ d * (a + b) = d * a + d * b
OBVIOUS

LEMMA OneQuotient ==
  ASSUME NEW d \in Nat, d > 0, NEW a \in Int, NEW b \in Int, NEW x \in 0..(d - 1), NEW y \in 0..(d - 1),
         d * a + x = d * b + y
  PROVE  a = b /\ x = y
<1>1. d * a \in Int /\ d * b \in Int
  BY Products
<1>2. ~(a > b)
  <2> SUFFICES ASSUME a > b PROVE FALSE
    OBVIOUS
  <2>1. d * (a - b) >= d
    BY Multiple
  <2>2. d * (a - b) = d * a - d * b
    BY Products
  <2>3. d * a - d * b = y - x
    BY <1>1
  <2> QED BY <2>1, <2>2, <2>3
<1>3. ~(b > a)
  <2> SUFFICES ASSUME b > a PROVE FALSE
    OBVIOUS
  <2>1. d * (b - a) >= d
    BY Multiple
  <2>2. d * (b - a) = d * b - d * a
    BY Products
  <2>3. d * b - d * a = x - y
    BY <1>1
  <2> QED BY <2>1, <2>2, <2>3
<1>4. a = b
  BY <1>2, <1>3
<1> QED BY <1>1, <1>4

(* What is n as a and x in the base d.                                     *)
LEMMA QuotientIs ==
  ASSUME NEW n \in Int, NEW d \in Nat, d > 0, NEW a \in Int, NEW x \in 0..(d - 1), n = d * a + x
  PROVE  n \div d = a /\ n % d = x
<1>1. n \div d \in Int /\ n % d \in 0..(d - 1) /\ n = d * (n \div d) + (n % d)
  BY DivMod
<1> QED BY <1>1, OneQuotient

(* A quotient goes up by one or not at all when what is divided goes up by *)
(* no more than the divisor.                                               *)
LEMMA QuotientSteps ==
  ASSUME NEW n \in Int, NEW d \in Nat, d > 0, NEW u \in 0..d
  PROVE  (n + u) \div d \in {n \div d, n \div d + 1}
<1> DEFINE a == n \div d
           x == n % d
<1>1. a \in Int /\ x \in 0..(d - 1) /\ n = d * a + x
  BY DivMod
<1> HIDE DEF a, x
<1>2. CASE x + u < d
  <2>1. x + u \in 0..(d - 1) /\ n + u \in Int /\ n + u = d * a + (x + u)
    <3>1. d * a \in Int
      BY <1>1, Products
    <3> QED BY <1>1, <1>2, <3>1
  <2>2. PICK m, y : m = n + u /\ y = x + u
    OBVIOUS
  <2>3. m \div d = a
    BY <1>1, <2>1, <2>2, QuotientIs
  <2> QED BY <2>2, <2>3 DEF a
<1>3. CASE ~(x + u < d)
  <2>1. x + u - d \in 0..(d - 1) /\ n + u \in Int /\ n + u = d * (a + 1) + (x + u - d) /\ a + 1 \in Int
    <3>1. d * a \in Int /\ d * (a + 1) = d * a + d * 1 /\ d * 1 = d
      BY <1>1, Products
    <3> QED BY <1>1, <1>3, <3>1
  <2>2. PICK m, y, b : m = n + u /\ y = x + u - d /\ b = a + 1
    OBVIOUS
  <2>3. m \div d = b
    BY <2>1, <2>2, QuotientIs
  <2> QED BY <2>2, <2>3 DEF a
<1> QED BY <1>2, <1>3

(* The seconds the count is ahead of its microseconds.                     *)
Ahead(n) == n \div Rate - (n * (ALT_US \div Rate)) \div ALT_US

(* Seconds and microseconds together are the count in microseconds, but    *)
(* for the seconds the one is ahead of the other.                          *)
LEMMA CountIs ==
  ASSUME NEW n \in Nat
  PROVE  LET u == ALT_US \div Rate
         IN  /\ u \in 0..ALT_US
             /\ n \div Rate \in Nat /\ (n * u) % ALT_US \in 0..(ALT_US - 1) /\ Ahead(n) \in Int
             /\ ALT_US * (n \div Rate) + ((n * u) % ALT_US) = n * u + ALT_US * Ahead(n)
<1> DEFINE u == ALT_US \div Rate
           a == n \div Rate
           p == n * u
           b == p \div ALT_US
           m == p % ALT_US
<1>1. Rate \in Nat /\ Rate > 0 /\ ALT_US \in Nat /\ ALT_US > 0
  BY AlarmAssumption DEF AlarmAssumption
<1>2. u \in Nat /\ a \in Nat
  BY <1>1
<1>3. u <= ALT_US
  <2>1. ALT_US = Rate * u + (ALT_US % Rate) /\ ALT_US % Rate \in 0..(Rate - 1)
    BY <1>1, DivMod
  <2>2. CASE u = 0
    BY <1>1, <2>2
  <2>3. CASE u # 0
    <3> HIDE DEF u
    <3>1. u * Rate >= u /\ u * Rate = Rate * u /\ Rate * u \in Int
      BY <1>1, <1>2, <2>3, Multiple, Products
    <3> QED BY <1>1, <1>2, <2>1, <3>1
  <2> QED BY <2>2, <2>3
<1>4. Ahead(n) = a - b
  BY DEF Ahead
<1> HIDE DEF u, a
<1>5. p \in Int
  BY <1>2
<1> HIDE DEF p
<1>6. b \in Int /\ m \in 0..(ALT_US - 1) /\ p = ALT_US * b + m
  BY <1>1, <1>5, DivMod
<1> HIDE DEF b, m
<1>7. ALT_US * a + m = p + ALT_US * (a - b)
  <2>1. ALT_US * (a - b) = ALT_US * a - ALT_US * b /\ ALT_US * a \in Int /\ ALT_US * b \in Int
    BY <1>1, <1>2, <1>6, Products
  <2> QED BY <1>1, <1>5, <1>6, <2>1
<1>8. a - b \in Int
  BY <1>2, <1>6
<1>9. u \in 0..ALT_US
  BY <1>1, <1>2, <1>3
<1> QED BY <1>2, <1>4, <1>6, <1>7, <1>8, <1>9 DEF u, a, p, m

LEMMA AheadSteps ==
  ASSUME NEW n \in Nat
  PROVE  Ahead(n + 1) - Ahead(n) \in {-1, 0, 1}
<1> DEFINE u == ALT_US \div Rate
<1>1. Rate \in Nat /\ Rate > 0 /\ ALT_US \in Nat /\ ALT_US > 0
  BY AlarmAssumption DEF AlarmAssumption
<1>2. u \in 0..ALT_US
  BY CountIs
<1> HIDE DEF u
<1>3. (n + 1) * u = n * u + u /\ n * u \in Int
  BY <1>1, <1>2
<1>4. PICK p, q : p = n * u /\ q = p + u
  OBVIOUS
<1>5. p \in Int /\ q \div ALT_US \in {p \div ALT_US, p \div ALT_US + 1} /\ p \div ALT_US \in Int
  <2>1. p \in Int
    BY <1>3, <1>4
  <2>2. (p + u) \div ALT_US \in {p \div ALT_US, p \div ALT_US + 1}
    BY <1>1, <1>2, <2>1, QuotientSteps
  <2>3. p \div ALT_US \in Int
    BY <1>1, <2>1, DivMod
  <2> QED BY <1>4, <2>1, <2>2, <2>3
<1>6. (n + 1) \div Rate \in {n \div Rate, n \div Rate + 1} /\ n \div Rate \in Int
  <2>1. 1 \in 0..Rate /\ n \in Int
    BY <1>1
  <2>2. (n + 1) \div Rate \in {n \div Rate, n \div Rate + 1}
    BY <1>1, <2>1, QuotientSteps
  <2> QED BY <1>1, <2>1, <2>2, DivMod
<1>7. PICK a, b, c, d : /\ a = n \div Rate /\ b = p \div ALT_US
                        /\ c = (n + 1) \div Rate /\ d = q \div ALT_US
  OBVIOUS
<1>8. Ahead(n) = a - b /\ Ahead(n + 1) = c - d
  BY <1>3, <1>4, <1>7 DEF Ahead, u
<1>9. a \in Int /\ b \in Int /\ c \in {a, a + 1} /\ d \in {b, b + 1}
  BY <1>5, <1>6, <1>7
<1> QED BY <1>8, <1>9

(* A rate that divides a second.                                           *)
LEMMA NeverAhead ==
  ASSUME NEW n \in Nat, ALT_US % Rate = 0
  PROVE  Ahead(n) = 0
<1> DEFINE u == ALT_US \div Rate
           a == n \div Rate
           x == n % Rate
<1>1. Rate \in Nat /\ Rate > 0 /\ ALT_US \in Nat /\ ALT_US > 0
  BY AlarmAssumption DEF AlarmAssumption
<1>2. u \in Int /\ ALT_US = Rate * u
  <2>1. u \in Int /\ ALT_US = Rate * u + (ALT_US % Rate)
    BY <1>1, DivMod
  <2> HIDE DEF u
  <2>2. Rate * u \in Int
    BY <1>1, <2>1, Products
  <2> QED BY <2>1, <2>2
<1>3. a \in Int /\ x \in 0..(Rate - 1) /\ n = Rate * a + x
  BY <1>1, DivMod
<1>4. Ahead(n) = a - (n * u) \div ALT_US
  BY DEF Ahead
<1> HIDE DEF u, a, x
<1>5. u \in Nat /\ u > 0 /\ u <= ALT_US
  BY <1>1, <1>2
<1>6. x * u \in Int /\ x * u >= 0 /\ x * u <= (Rate - 1) * u /\ (Rate - 1) * u = ALT_US - u
  BY <1>1, <1>2, <1>3, <1>5
<1>7. x * u \in 0..(ALT_US - 1)
  BY <1>1, <1>5, <1>6
<1>8. n * u = ALT_US * a + x * u /\ n * u \in Int
  BY <1>1, <1>2, <1>3, <1>5
<1>9. (n * u) \div ALT_US = a
  <2> DEFINE y == n * u
             z == x * u
  <2>1. y \in Int /\ z \in 0..(ALT_US - 1) /\ y = ALT_US * a + z
    BY <1>7, <1>8
  <2> HIDE DEF y, z
  <2>2. y \div ALT_US = a
    BY <1>1, <1>3, <2>1, QuotientIs
  <2> QED BY <2>2 DEF y
<1> QED BY <1>3, <1>4, <1>9

(* A time in seconds and microseconds, as the second loop leaves it.       *)
LEMMA NormalIs ==
  ASSUME NEW sec \in Nat, NEW usec \in Int, usec > -ALT_US, usec < 0 => sec > 0
  PROVE  LET t == Normal([sec |-> sec, usec |-> usec])
         IN  /\ t = [sec |-> t.sec, usec |-> t.usec] /\ t.sec \in Int /\ t.usec \in 0..(ALT_US - 1)
             /\ ALT_US * t.sec + t.usec = ALT_US * sec + usec
<1> DEFINE t == Normal([sec |-> sec, usec |-> usec])
<1>1. ALT_US \in Nat /\ ALT_US > 0
  BY AlarmAssumption DEF AlarmAssumption
<1>2. CASE usec < 0
  <2>1. t = [sec |-> sec - 1, usec |-> usec + ALT_US]
    BY <1>2 DEF Normal
  <2>2. usec + ALT_US \in 0..(ALT_US - 1) /\ sec - 1 \in Int
    BY <1>1, <1>2
  <2>3. ALT_US * (sec - 1) + (usec + ALT_US) = ALT_US * sec + usec
    BY <1>1
  <2> QED BY <2>1, <2>2, <2>3
<1>3. CASE ~(usec < 0)
  <2> DEFINE a == usec \div ALT_US
             x == usec % ALT_US
  <2>1. t = [sec |-> sec + a, usec |-> x]
    BY <1>3 DEF Normal
  <2>2. a \in Int /\ x \in 0..(ALT_US - 1) /\ usec = ALT_US * a + x
    BY <1>1, DivMod
  <2> HIDE DEF a, x
  <2>3. ALT_US * (sec + a) + x = ALT_US * sec + usec
    BY <1>1, <2>2
  <2>4. sec + a \in Int
    BY <2>2
  <2> QED BY <2>1, <2>2, <2>3, <2>4
<1> QED BY <1>2, <1>3

(* settimeofday is given times that are past all the count can reach: the  *)
(* time of day never comes to be before 0, where gettimeofday returns 0.   *)
TimesAssumption ==
  \A t \in Times : /\ t.sec \in Nat /\ t.usec \in 0..(ALT_US - 1)
                   /\ t.sec > (Wrap - 1) \div Rate

(* The offset alt_resettime to the count.                                  *)
ResetInv ==
  /\ resettime.sec \in Nat /\ resettime.usec \in Int
  /\ resettime.usec > -ALT_US /\ (resettime.usec < 0 => resettime.sec > 0)

ClockInv == nticks \in 0..(Wrap - 1) /\ ResetInv

LEMMA TimeIs ==
  ASSUME ClockInv
  PROVE  LET t == GetTimeOfDay
         IN  /\ t = [sec |-> t.sec, usec |-> t.usec] /\ t.sec \in Int /\ t.usec \in 0..(ALT_US - 1)
             /\ ALT_US * t.sec + t.usec
                  = (ALT_US * resettime.sec + resettime.usec)
                      + (nticks * (ALT_US \div Rate) + ALT_US * Ahead(nticks))
<1> DEFINE t == GetTimeOfDay
           u == ALT_US \div Rate
           a == resettime.sec
           x == resettime.usec
           s == Sec
           m == Usec64
           h == nticks * u + ALT_US * Ahead(nticks)
<1>1. ALT_US \in Nat /\ ALT_US > 0
  BY AlarmAssumption DEF AlarmAssumption
<1>2. nticks \in Nat /\ a \in Nat /\ x \in Int /\ x > -ALT_US /\ (x < 0 => a > 0)
  BY Numbers DEF ClockInv, ResetInv
<1>3. s \in Nat /\ m \in 0..(ALT_US - 1) /\ ALT_US * s + m = h
  BY <1>2, CountIs DEF Sec, Usec64
<1>4. t = Normal([sec |-> a + s, usec |-> x + m])
  BY DEF GetTimeOfDay
<1> HIDE DEF t, u, a, x, s, m, h
<1>5. a + s \in Nat /\ x + m \in Int /\ x + m > -ALT_US /\ (x + m < 0 => a + s > 0)
  BY <1>1, <1>2, <1>3
<1>6. /\ t = [sec |-> t.sec, usec |-> t.usec] /\ t.sec \in Int /\ t.usec \in 0..(ALT_US - 1)
      /\ ALT_US * t.sec + t.usec = ALT_US * (a + s) + (x + m)
  BY <1>4, <1>5, NormalIs
<1>7. ALT_US * (a + s) + (x + m) = (ALT_US * a + x) + h
  <2>1. ALT_US * (a + s) = ALT_US * a + ALT_US * s /\ ALT_US * a \in Int /\ ALT_US * s \in Int
    BY <1>1, <1>2, <1>3, Products
  <2> QED BY <1>2, <1>3, <2>1
<1> QED BY <1>6, <1>7 DEF t, u, a, x, h

LEMMA ClockAlways == ASSUME TimesAssumption PROVE Spec => []ClockInv
<1>1. Init => ResetInv
  BY AlarmAssumption DEF Init, ResetInv, AlarmAssumption
<1>2. AlarmInv /\ ResetInv /\ [Next]_vars => ResetInv'
  <2> SUFFICES ASSUME AlarmInv, ResetInv, [Next]_vars PROVE ResetInv'
    OBVIOUS
  <2>1. CASE \E t \in Times : SetTimeOfDay(t)
    <3>1. PICK t \in Times : SetTimeOfDay(t)
      BY <2>1
    <3>2. /\ nticks \in Nat /\ nticks <= Wrap - 1 /\ Wrap - 1 \in Nat /\ Rate \in Nat /\ Rate > 0
          /\ ALT_US \in Nat /\ ALT_US > 0
      BY Numbers, AlarmAssumption DEF AlarmInv, TypeInv, AlarmAssumption
    <3>3. Sec \in Nat /\ Sec <= (Wrap - 1) \div Rate
      <4>1. PICK n, w, a, b : /\ n = nticks /\ w = Wrap - 1 /\ a = n \div Rate /\ b = w \div Rate
        OBVIOUS
      <4>2. n \in Nat /\ w \in Nat /\ n <= w
        BY <3>2, <4>1
      <4>3. a \in Nat /\ n % Rate \in 0..(Rate - 1) /\ n = Rate * a + (n % Rate)
        BY <3>2, <4>1, <4>2, DivMod
      <4>4. b \in Int /\ w % Rate \in 0..(Rate - 1) /\ w = Rate * b + (w % Rate)
        <5>1. w \div Rate \in Int /\ w % Rate \in 0..(Rate - 1) /\ w = Rate * (w \div Rate) + (w % Rate)
          BY <3>2, <4>2, DivMod
        <5>2. b = w \div Rate
          BY <4>1
        <5> QED BY <5>1, <5>2
      <4>5. ~(a > b)
        <5> SUFFICES ASSUME a > b PROVE FALSE
          OBVIOUS
        <5>1. Rate * (a - b) >= Rate
          BY <3>2, <4>3, <4>4, Multiple
        <5>2. Rate * (a - b) = Rate * a - Rate * b /\ Rate * a \in Int /\ Rate * b \in Int
          BY <3>2, <4>3, <4>4, Products
        <5>3. Rate * a <= n
          BY <4>2, <4>3, <5>2
        <5>4. w < Rate * b + Rate
          BY <3>2, <4>2, <4>4, <5>2
        <5> QED BY <3>2, <4>2, <5>1, <5>2, <5>3, <5>4
      <4> QED BY <4>1, <4>3, <4>4, <4>5 DEF Sec
    <3>4. Usec32 \in 0..(ALT_US - 1)
      <4>1. nticks * (ALT_US \div Rate) \in Int
        BY <3>2
      <4>2. PICK p : p = nticks * (ALT_US \div Rate)
        OBVIOUS
      <4>3. Mod(p) \in Int
        BY <4>1, <4>2, Numbers DEF Mod
      <4> QED BY <3>2, <4>2, <4>3, DivMod DEF Usec32
    <3>5. resettime' = [sec |-> t.sec - Sec, usec |-> t.usec - Usec32]
      BY <3>1 DEF SetTimeOfDay
    <3>6. t.sec \in Nat /\ t.usec \in 0..(ALT_US - 1) /\ t.sec > (Wrap - 1) \div Rate /\ (Wrap - 1) \div Rate \in Int
      BY <3>2 DEF TimesAssumption
    <3>7. t.sec - Sec \in Nat /\ t.sec - Sec > 0 /\ t.usec - Usec32 \in Int /\ t.usec - Usec32 > -ALT_US
      BY <3>2, <3>3, <3>4, <3>6
    <3> QED BY <3>5, <3>7 DEF ResetInv
  <2>2. CASE resettime' = resettime
    BY <2>2 DEF ResetInv
  <2> QED BY <2>1, <2>2 DEF Next, TickStep, SysclkInit, Program, Tick, Visit, Return, Callback, Start, Stop, vars
<1>3. AlarmInv => nticks \in 0..(Wrap - 1)
  BY DEF AlarmInv, TypeInv
<1> QED BY <1>1, <1>2, <1>3, AlarmAlways, PTL DEF Spec, ClockInv

(* From one tick to the next the time of day goes on by the microseconds   *)
(* of a tick, whatever was set before and whichever way they carry; at a   *)
(* rate that does not divide a second, give or take a second.              *)
THEOREM ClockGoesOn == ASSUME TimesAssumption PROVE Spec => ClockAdvances
<1> DEFINE P == nticks' = nticks + 1 =>
                  \E s \in IF ALT_US % Rate = 0 THEN {0} ELSE {-1, 0, 1} :
                    LET t == GetTimeOfDay
                        us == t.usec + ALT_US \div Rate
                    IN  GetTimeOfDay' = [sec |-> t.sec + s + us \div ALT_US, usec |-> us % ALT_US]
<1>1. ClockInv /\ ClockInv' /\ [Next]_vars => P
  <2> SUFFICES ASSUME ClockInv, ClockInv', [Next]_vars, nticks' = nticks + 1
               PROVE  \E s \in IF ALT_US % Rate = 0 THEN {0} ELSE {-1, 0, 1} :
                        LET t == GetTimeOfDay
                            us == t.usec + ALT_US \div Rate
                        IN  GetTimeOfDay' = [sec |-> t.sec + s + us \div ALT_US, usec |-> us % ALT_US]
    OBVIOUS
  <2>1. resettime' = resettime
    <3>1. nticks \in Int
      BY Numbers DEF ClockInv
    <3>2. nticks' # nticks
      BY <3>1
    <3> QED BY <3>2 DEF Next, TickStep, SysclkInit, Program, Tick, Visit, Return, Callback, Start, Stop,
                        SetTimeOfDay, vars
  <2>2. PICK t, v, n, u, r, U, g, h, s :
               /\ t = GetTimeOfDay /\ v = GetTimeOfDay' /\ n = nticks
               /\ u = ALT_US \div Rate /\ U = ALT_US
               /\ r = ALT_US * resettime.sec + resettime.usec
               /\ g = Ahead(nticks) /\ h = Ahead(nticks + 1) /\ s = h - g
    OBVIOUS
  <2>3. /\ t.sec \in Int /\ t.usec \in 0..(U - 1) /\ U * t.sec + t.usec = r + (n * u + U * g)
    BY <2>2, TimeIs
  <2>4. /\ v = [sec |-> v.sec, usec |-> v.usec] /\ v.sec \in Int /\ v.usec \in 0..(U - 1)
        /\ U * v.sec + v.usec = r + ((n + 1) * u + U * h)
    <3>1. (LET w == GetTimeOfDay
           IN  ClockInv => /\ w = [sec |-> w.sec, usec |-> w.usec] /\ w.sec \in Int /\ w.usec \in 0..(ALT_US - 1)
                           /\ ALT_US * w.sec + w.usec
                                = (ALT_US * resettime.sec + resettime.usec)
                                    + (nticks * (ALT_US \div Rate) + ALT_US * Ahead(nticks)))'
      BY TimeIs, PTL
    <3>2. Ahead(nticks)' = h
      BY <2>2 DEF Ahead
    <3> QED BY <2>1, <2>2, <3>1, <3>2
  <2>5. /\ u \in Nat /\ U \in Nat /\ U > 0 /\ n \in Nat /\ r \in Int /\ g \in Int /\ h \in Int /\ s \in Int
        /\ s \in IF ALT_US % Rate = 0 THEN {0} ELSE {-1, 0, 1}
    <3>1. ALT_US \in Nat /\ ALT_US > 0
      BY AlarmAssumption DEF AlarmAssumption
    <3>2. n \in Nat /\ n + 1 \in Nat
      BY <2>2, Numbers DEF ClockInv
    <3>3. u \in Nat /\ g \in Int
      <4>1. u \in 0..ALT_US /\ g \in Int
        BY <2>2, <3>2, CountIs
      <4> QED BY <3>1, <4>1
    <3>4. h \in Int
      <4>1. PICK m \in Nat : m = n + 1
        BY <3>2
      <4>2. Ahead(m) \in Int
        BY CountIs
      <4> QED BY <2>2, <4>1, <4>2
    <3>5. ALT_US % Rate = 0 => g = 0 /\ h = 0
      <4>1. PICK m \in Nat : m = n + 1
        BY <3>2
      <4>2. ALT_US % Rate = 0 => Ahead(m) = 0 /\ Ahead(n) = 0
        BY <3>2, NeverAhead
      <4> QED BY <2>2, <4>1, <4>2
    <3>6. s \in {-1, 0, 1}
      BY <2>2, <3>2, AheadSteps
    <3>7. s \in Int
      BY <3>6
    <3>8. s \in IF ALT_US % Rate = 0 THEN {0} ELSE {-1, 0, 1}
      <4>1. CASE ALT_US % Rate = 0
        <5>1. s = 0
          BY <2>2, <3>5, <4>1
        <5> QED BY <4>1, <5>1
      <4>2. CASE ALT_US % Rate # 0
        BY <3>6, <4>2
      <4> QED BY <4>1, <4>2
    <3>9. r \in Int
      <4>1. resettime.sec \in Int /\ resettime.usec \in Int
        BY DEF ClockInv, ResetInv
      <4>2. ALT_US * resettime.sec \in Int
        BY <3>1, <4>1
      <4> QED BY <2>2, <4>1, <4>2
    <3> QED BY <2>2, <3>1, <3>2, <3>3, <3>4, <3>7, <3>8, <3>9
  <2>p. PICK us, a, x : us = t.usec + u /\ a = us \div U /\ x = us % U
    OBVIOUS
  <2>q. us \in Int
    BY <2>3, <2>5, <2>p
  <2>6. a \in Int /\ x \in 0..(U - 1) /\ us = U * a + x
    BY <2>5, <2>p, <2>q, DivMod
  <2>7. PICK y : y = t.sec + s + a
    OBVIOUS
  <2>8. y \in Int /\ U * v.sec + v.usec = U * y + x
    <3>1. (n + 1) * u = n * u + u /\ n * u \in Int
      BY <2>5
    <3>2. U * h = U * g + U * s /\ U * g \in Int /\ U * s \in Int
      <4>1. h = g + s
        BY <2>2, <2>5
      <4>2. U * (g + s) = U * g + U * s
        BY <2>5, Products
      <4> QED BY <2>5, <4>1, <4>2, Products
    <3>3. U * v.sec + v.usec = (U * t.sec + t.usec) + u + U * s
      BY <2>3, <2>4, <2>5, <3>1, <3>2
    <3>4. U * y = U * t.sec + U * s + U * a /\ U * t.sec \in Int /\ U * a \in Int
      <4>1. PICK z : z = t.sec + s
        OBVIOUS
      <4>2. z \in Int /\ U * z = U * t.sec + U * s
        BY <2>3, <2>5, <4>1, Products
      <4>3. U * (z + a) = U * z + U * a
        BY <2>5, <2>6, <4>2, Products
      <4> QED BY <2>3, <2>5, <2>6, <2>7, <4>1, <4>2, <4>3, Products
    <3>5. t.usec \in Int /\ x \in Int /\ u \in Int /\ v.usec \in Int
      BY <2>3, <2>4, <2>5, <2>6
    <3>6. U * a + x = t.usec + u
      BY <2>6, <2>p
    <3>7. y \in Int
      BY <2>3, <2>5, <2>6, <2>7
    <3>8. PICK A, B, C, Y, V : /\ A = U * t.sec /\ B = U * s /\ C = U * a /\ Y = U * y
                               /\ V = U * v.sec + v.usec
      OBVIOUS
    <3>9. A \in Int /\ B \in Int /\ C \in Int /\ Y = A + B + C /\ V = (A + t.usec) + u + B /\ C + x = t.usec + u
      BY <3>2, <3>3, <3>4, <3>6, <3>8
    <3>10. V = Y + x
      <4>1. PICK w \in Int : w = t.usec
        BY <3>5
      <4>2. V = (A + w) + u + B /\ C + x = w + u
        BY <3>9, <4>1
      <4> QED BY <3>5, <3>9, <4>2
    <3> QED BY <3>7, <3>8, <3>10
  <2>9. v.sec = y /\ v.usec = x
    <3>1. PICK z : z = v.sec
      OBVIOUS
    <3>2. z \in Int /\ U * z + v.usec = U * y + x
      BY <2>4, <2>8, <3>1
    <3>3. z = y /\ v.usec = x
      BY <2>4, <2>5, <2>6, <2>8, <3>2, OneQuotient
    <3> QED BY <3>1, <3>3
  <2>10. v = [sec |-> t.sec + s + us \div ALT_US, usec |-> us % ALT_US]
    BY <2>2, <2>4, <2>7, <2>9, <2>p
  <2> QED BY <2>2, <2>5, <2>10, <2>p
<1>2. ClockInv /\ ClockInv' /\ [Next]_vars => [P]_vars
  BY <1>1
<1> QED BY <1>2, ClockAlways, PTL DEF Spec, ClockAdvances
=============================================================================
