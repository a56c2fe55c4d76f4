----------------------------- MODULE AsyncFifo1 ------------------------------
(***************************************************************************)
(* S11_fifo/code/fifo1.v: a FIFO between two unrelated clocks.  Each side  *)
(* keeps its own pointer, one bit wider than an address, and sees the      *)
(* other side's through two flip-flops, Gray-coded.                        *)
(*                                                                         *)
(* The edges of the two clocks come in any order, at any relative rate, or *)
(* together.  Then each bit of a sampled pointer is taken before or after  *)
(* its change, whatever the other bits do.  The two resets are driven      *)
(* together.                                                               *)
(***************************************************************************)
EXTENDS Integers, Sequences

CONSTANTS
  Data,   \* the words
  Zero,   \* history: what the reader holds before it takes a word
  ASIZE   \* bits of an address (4)

ASSUME DataAssumption == Zero \in Data

ASSUME SizeAssumption == ASIZE \in Nat /\ ASIZE >= 2

(* 1 << k, and n >> i.                                                     *)
Pow2[k \in Nat] == IF k = 0 THEN 1 ELSE 2 * Pow2[k - 1]
Shr(n) == LET shr[i \in Nat] == IF i = 0 THEN n ELSE shr[i - 1] \div 2 IN shr

Depth    == Pow2[ASIZE]
Pointers == 0..(2 * Depth - 1)
Bits     == 0..ASIZE

VARIABLES
  wbin, wptr,            \* write pointer: binary, and Gray-coded
  wq1_rptr, wq2_rptr,    \* the read pointer, sampled by wclk
  wfull,
  rbin, rptr,            \* read pointer: binary, and Gray-coded
  rq1_wptr, rq2_wptr,    \* the write pointer, sampled by rclk
  rempty,
  mem,
  taken                  \* history: the last word the reader took

wVars == <<wbin, wptr, wq1_rptr, wq2_rptr, wfull, mem>>
rVars == <<rbin, rptr, rq1_wptr, rq2_wptr, rempty, taken>>
vars  == <<wVars, rVars>>

Bit(n, i) == Shr(n)[i] % 2 = 1

(* Faulty form: the pointer crosses uncoded.                               *)
Binary(n) == [i \in Bits |-> Bit(n, i)]

(* (n >> 1) ^ n                                                            *)
Gray(n) == [i \in Bits |-> Bit(n, i) # Bit(n, i + 1)]

Add(n, inc) == (n + (IF inc THEN 1 ELSE 0)) % (2 * Depth)

(* A Gray code a whole FIFO ahead: the two top bits turned over.           *)
FullAhead(ptr) == [i \in Bits |-> IF i >= ASIZE - 1 THEN ~ptr[i] ELSE ptr[i]]

(* What a register may take of a pointer that changes from old to new.     *)
Samples(old, new) == {p \in [Bits -> BOOLEAN] : \A i \in Bits : p[i] \in {old[i], new[i]}}

-----------------------------------------------------------------------------
(* What the memory holds at power-up is not known.                         *)
Init ==
  /\ wbin = 0 /\ wptr = Gray(0) /\ wq1_rptr = Gray(0) /\ wq2_rptr = Gray(0)
  /\ wfull = FALSE /\ mem \in [0..(Depth - 1) -> Data]
  /\ rbin = 0 /\ rptr = Gray(0) /\ rq1_wptr = Gray(0) /\ rq2_wptr = Gray(0)
  /\ rempty = TRUE /\ taken = Zero

(* Faulty form: full is judged again only when a word is written.          *)
FullOnWrite(write) ==
  wfull' = IF write THEN Gray(Add(wbin, write)) = FullAhead(wq2_rptr) ELSE wfull

FullFlag(write) == wfull' = (Gray(Add(wbin, write)) = FullAhead(wq2_rptr))

(* One edge of wclk; seen is what it samples of the read pointer.          *)
WriteEdge(winc, wdata, seen) ==
  LET write == winc /\ ~wfull
  IN /\ mem' = IF write THEN [mem EXCEPT ![wbin % Depth] = wdata] ELSE mem
     /\ wbin' = Add(wbin, write)
     /\ wptr' = Gray(Add(wbin, write))
     /\ wq1_rptr' = seen /\ wq2_rptr' = wq1_rptr
     /\ FullFlag(write)

(* Faulty form: empty is judged with the pointer before this read.         *)
EmptyLate(read) == rempty' = (rptr = rq2_wptr)

(* Faulty form: empty is judged again only when a word is read.            *)
EmptyOnRead(read) ==
  rempty' = IF read THEN Gray(Add(rbin, read)) = rq2_wptr ELSE rempty

EmptyFlag(read) == rempty' = (Gray(Add(rbin, read)) = rq2_wptr)

(* One edge of rclk; seen is what it samples of the write pointer.         *)
ReadEdge(rinc, seen) ==
  LET read == rinc /\ ~rempty
  IN /\ taken' = IF read THEN mem[rbin % Depth] ELSE taken
     /\ rbin' = Add(rbin, read)
     /\ rptr' = Gray(Add(rbin, read))
     /\ rq1_wptr' = seen /\ rq2_wptr' = rq1_wptr
     /\ EmptyFlag(read)

Write(words) ==
  /\ \E winc \in BOOLEAN, wdata \in words : WriteEdge(winc, wdata, rptr)
  /\ UNCHANGED rVars

Read ==
  /\ \E rinc \in BOOLEAN : ReadEdge(rinc, wptr)
  /\ UNCHANGED wVars

Both(words) ==
  \E winc, rinc \in BOOLEAN, wdata \in words :
    \E rseen \in Samples(rptr, Gray(Add(rbin, rinc /\ ~rempty))),
       wseen \in Samples(wptr, Gray(Add(wbin, winc /\ ~wfull))) :
      WriteEdge(winc, wdata, rseen) /\ ReadEdge(rinc, wseen)

(* The memory has no reset.                                                *)
Reset ==
  /\ wbin' = 0 /\ wptr' = Gray(0) /\ wq1_rptr' = Gray(0) /\ wq2_rptr' = Gray(0)
  /\ wfull' = FALSE /\ mem' = mem
  /\ rbin' = 0 /\ rptr' = Gray(0) /\ rq1_wptr' = Gray(0) /\ rq2_wptr' = Gray(0)
  /\ rempty' = TRUE /\ taken' = Zero

Clocks(words) == Write(words) \/ Read \/ Both(words)

Next == Clocks(Data) \/ Reset
Spec == Init /\ [][Next]_vars

-----------------------------------------------------------------------------
Words == (wbin + 2 * Depth - rbin) % (2 * Depth)

TypeOK ==
  /\ wbin \in Pointers /\ rbin \in Pointers /\ Words \in 0..Depth
  /\ {wptr, wq1_rptr, wq2_rptr, rptr, rq1_wptr, rq2_wptr} \subseteq [Bits -> BOOLEAN]
  /\ wfull \in BOOLEAN /\ rempty \in BOOLEAN
  /\ mem \in [0..(Depth - 1) -> Data] /\ taken \in Data

(* Every sampled pointer is one the other side really had, and they age in *)
(* order: going back from the write pointer one meets the two samples the  *)
(* reader holds, then the read pointer, then the two samples the writer    *)
(* holds, all within the size of the FIFO.  It is the Gray code that keeps *)
(* a pointer sampled in the middle of a change from being any other.       *)
SamplesLag ==
  \E w1, w2, r1, r2 \in 0..Depth :
    LET back(k) == Gray((wbin + 2 * Depth - k) % (2 * Depth))
    IN /\ rq1_wptr = back(w1) /\ rq2_wptr = back(w2)
       /\ wq1_rptr = back(r1) /\ wq2_rptr = back(r2)
       /\ w1 <= w2 /\ w2 <= Words /\ Words <= r1 /\ r1 <= r2

(* The two sides together are a bounded FIFO: words come out in order,     *)
(* none is overwritten before it is read and none is read twice, at any    *)
(* rates of the two clocks.                                                *)
Stored == [i \in 1..Words |-> mem[(rbin + i - 1) % Depth]]
Fifo == INSTANCE BoundedFifo WITH queue <- Stored, out <- taken
IsFifo == Fifo!Spec

(* A word written is offered to the reader in the end, although nothing is *)
(* written after it, unless a reset discards it.                           *)
WordSeen == Words > 0 ~> ~rempty \/ Words = 0

(* Room made by the reader is seen by the writer in the end.               *)
RoomSeen == Words < Depth ~> ~wfull
=============================================================================
