-------------------------- MODULE NiosDrivers_proofs --------------------------
(***************************************************************************)
(* The two drivers of the Nios system.                                     *)
(*                                                                         *)
(* The UART driver for buffers of any size and requests of any length:     *)
(* the transmit and the receive buffer are bounded FIFOs, no wake-up of    *)
(* the transmitter is lost, and no character in TXDATA is overwritten.     *)
(*                                                                         *)
(* The I2C driver and its test program for blocks of any length in a page  *)
(* of an EEPROM of any size: what the program reports is true, and every   *)
(* STOP is sent on a free line.                                            *)
(***************************************************************************)
EXTENDS UartDriver, I2cApp, SequenceTheorems, WellFoundedInduction, TLAPS


-----------------------------------------------------------------------------
(* TxArmed says nothing while the handler runs; this does.                 *)
Armed ==
  ~fc /\ pc \notin {"write", "wwait", "wdone"} /\ tx_start # tx_end => "TRDY" \in ctrl

(* Initially, and after each step of the handler, characters that wait     *)
(* have the transmit interrupt enabled (altera_avalon_uart_txirq disables  *)
(* it only when it leaves the buffer empty).                               *)
LEMMA ArmedIsr ==
  ASSUME Armed, Isr
  PROVE  Armed'
<1>1. CASE Interrupt
  BY <1>1 DEF Interrupt, Armed, devVars, txVars, callVars
<1>2. CASE ClearStatus
  BY <1>2 DEF ClearStatus, Armed, txVars, callVars
<1>3. CASE RxIrq
  BY <1>3 DEF RxIrq, RxMask, Armed, txVars, callVars
<1>4. CASE TxIrq
  <2>1. CASE tx_start # tx_end /\ ~fc
    BY <1>4, <2>1 DEF TxIrq, Transmit, TxMaskIfEmpty, Armed, callVars
  <2>2. CASE ~(tx_start # tx_end /\ ~fc)
    BY <1>4, <2>2 DEF TxIrq, Transmit, TxMaskIfEmpty, Armed, callVars
  <2> QED BY <2>1, <2>2
<1> QED BY <1>1, <1>2, <1>3, <1>4 DEF Isr

(* A call disables no transmit interrupt, and one of write enables it      *)
(* before it waits and before it ends.                                     *)
LEMMA ArmedProgram ==
  ASSUME Armed, Calls \/ Program
  PROVE  Armed'
<1>1. CASE Calls
  BY <1>1 DEF Calls, Call, Goto, Armed, txVars
<1>2. CASE Read
  BY <1>2 DEF Read, Test, Copy, BumpStart, MaskStart, LeaveCopy, ReadWait, ReadDone, EndCall,
              Goto, Armed, txVars
<1>3. CASE Put \/ LeavePut \/ Spin
  BY <1>3 DEF Put, Fill, LeavePut, Spin, Goto, Armed, txVars
<1>4. CASE WriteWait \/ WriteDone
  BY <1>4 DEF WriteWait, WriteDone, EndCall, Goto, Armed, txVars
<1>5. CASE Close
  BY <1>5 DEF Close, EndCall, Goto, Armed, txVars
<1> QED BY <1>1, <1>2, <1>3, <1>4, <1>5 DEF Program, Write

(* The line disables no interrupt either, so that every step preserves     *)
(* it.                                                                     *)
LEMMA ArmedInvariant == Armed /\ [Next]_vars => Armed'
<1> SUFFICES ASSUME Armed, [Next]_vars PROVE Armed'
  OBVIOUS
<1>1. CASE Line
  BY <1>1 DEF Line, Receive, Shift, ToggleCts, Armed, txVars, callVars
<1>2. CASE UNCHANGED vars
  BY <1>2 DEF vars, devVars, txVars, callVars, Armed
<1> QED BY <1>1, <1>2, ArmedIsr, ArmedProgram DEF Next

(* No wake-up is lost: without CTS, and outside a call of write, waiting   *)
(* characters have a transmit interrupt coming, for every size of the      *)
(* buffer and every order of the handler and the calls.                    *)
THEOREM UartTxArmed == Spec => []TxArmed
<1>1. Init => Armed
  BY DEF Init, Armed
<1>2. Armed => TxArmed
  BY DEF Armed, TxArmed
<1> QED BY <1>1, <1>2, ArmedInvariant, PTL DEF Spec

-----------------------------------------------------------------------------
(* Without CTS its status bits stay 0, so that "transmit" means that       *)
(* TXDATA is free, and it stays free until the handler writes it.          *)
Paced ==
  ~fc => /\ ~dcts
         /\ "transmit" \in status => trdy
         /\ isr = "tx" => trdy

(* A status the handler has read stays true: nobody else writes TXDATA.    *)
LEMMA PacedIsr ==
  ASSUME Paced, Isr
  PROVE  Paced'
<1>1. CASE Interrupt
  <2>1. ~fc /\ "transmit" \in Causes => trdy
    BY DEF Paced, Causes, StatusBits
  <2> QED BY <1>1, <2>1 DEF Interrupt, Paced, devVars, lineVars
<1>2. CASE ClearStatus
  BY <1>2 DEF ClearStatus, AfterRx, TxCause, Paced
<1>3. CASE RxIrq
  BY <1>3 DEF RxIrq, AfterRx, TxCause, Paced
<1>4. CASE TxIrq
  BY <1>4 DEF TxIrq, Paced
<1> QED BY <1>1, <1>2, <1>3, <1>4 DEF Isr

(* The calls touch neither the line nor tx_start.                          *)
LEMMA PacedProgram ==
  ASSUME Paced, Calls \/ Program
  PROVE  Paced' /\ tx_start' = tx_start
<1>1. CASE Calls
  BY <1>1 DEF Calls, Call, Goto, Paced, lineVars, isrVars, txVars
<1>2. CASE Read
  BY <1>2 DEF Read, Test, Copy, BumpStart, MaskStart, LeaveCopy, ReadWait, ReadDone, EndCall,
              Goto, Paced, lineVars, isrVars, txVars
<1>3. CASE Write
  BY <1>3 DEF Write, Put, Fill, LeavePut, WriteWait, Spin, WriteDone, EndCall, Goto,
              Paced, lineVars, isrVars, txVars
<1>4. CASE Close
  BY <1>4 DEF Close, EndCall, Goto, Paced, lineVars, isrVars, txVars
<1> QED BY <1>1, <1>2, <1>3, <1>4 DEF Program

(* The line frees TXDATA and never fills it.                               *)
LEMMA PacedLine ==
  ASSUME Paced, Line
  PROVE  Paced' /\ tx_start' = tx_start
BY DEF Line, Receive, Shift, ToggleCts, Paced, isrVars, txVars

(* The three of them: every step preserves it.                             *)
LEMMA PacedInvariant == Paced /\ [Next]_vars => Paced'
<1> SUFFICES ASSUME Paced, [Next]_vars PROVE Paced'
  OBVIOUS
<1>1. CASE UNCHANGED vars
  BY <1>1 DEF vars, devVars, lineVars, isrVars, Paced
<1> QED BY <1>1, PacedIsr, PacedProgram, PacedLine DEF Next

(* Only the transmit part of the handler moves tx_start, with TXDATA free. *)
LEMMA PacedStep ==
  Paced /\ [Next]_vars => [tx_start' # tx_start => trdy \/ fc]_vars
<1> SUFFICES ASSUME Paced, [Next]_vars, tx_start' # tx_start PROVE trdy \/ fc
  OBVIOUS
<1>1. CASE Isr
  BY <1>1 DEF Isr, Interrupt, ClearStatus, RxIrq, TxIrq, Paced, txVars
<1> QED BY <1>1, PacedProgram, PacedLine DEF Next, vars, txVars

(* Without CTS, TXDATA is written only when it is free, although the       *)
(* handler is also entered for characters received, and although STATUS    *)
(* was read some steps before.                                             *)
THEOREM UartTxPaced == Spec => TxPaced
<1>1. Init => Paced
  BY DEF Init, DeviceInit, Paced
<1> QED BY <1>1, PacedInvariant, PacedStep, PTL DEF Spec, TxPaced

-----------------------------------------------------------------------------
(* A circular buffer of n slots, of which s is the oldest in use and e the *)
(* first free one.                                                         *)

RingNext(n, k) == IF k + 1 = n THEN 0 ELSE k + 1
RingPrev(n, k) == IF k = 0 THEN n - 1 ELSE k - 1
RingLen(n, s, e) == IF e < s THEN e + n - s ELSE e - s
RingAt(n, s, j)  == IF s + j - 1 < n THEN s + j - 1 ELSE s + j - 1 - n
RingQueue(n, s, e, buf) == [j \in 1..RingLen(n, s, e) |-> buf[RingAt(n, s, j)]]

(* Word d has been stored in slot e.                                       *)
Stored(n, Word, buf, e, d, buf2) ==
  /\ buf2 \in [0..(n - 1) -> Word] /\ buf2[e] = d
  /\ \A k \in 0..(n - 1) : k # e => buf2[k] = buf[k]

(* With it, the queue is longer by that word.                              *)
Appended(n, s, e, buf, d, buf2) ==
  /\ Len(RingQueue(n, s, e, buf)) < n - 1
  /\ RingQueue(n, s, RingNext(n, e), buf2) = Append(RingQueue(n, s, e, buf), d)
  /\ buf2[RingPrev(n, s)] = buf[RingPrev(n, s)]

(* The queue is a sequence of words, as long as the ring says.             *)
LEMMA RingWords ==
  ASSUME NEW n \in Nat, n >= 2, NEW s \in 0..(n - 1), NEW e \in 0..(n - 1),
         NEW Word, NEW buf \in [0..(n - 1) -> Word]
  PROVE  LET q == RingQueue(n, s, e, buf)
         IN  /\ q \in Seq(Word) /\ Len(q) = RingLen(n, s, e)
             /\ \A j \in 1..RingLen(n, s, e) : q[j] = buf[RingAt(n, s, j)]
<1> DEFINE q == RingQueue(n, s, e, buf)
<1>1. /\ RingLen(n, s, e) \in 0..(n - 1)
      /\ \A j \in 1..RingLen(n, s, e) : RingAt(n, s, j) \in 0..(n - 1)
  BY DEF RingLen, RingAt
<1>2. \A j \in 1..RingLen(n, s, e) : q[j] = buf[RingAt(n, s, j)] /\ q[j] \in Word
  BY <1>1 DEF RingQueue
<1>3. q \in [1..RingLen(n, s, e) -> Word] /\ RingLen(n, s, e) \in Nat
  BY <1>1, <1>2 DEF RingQueue
<1>4. q \in Seq(Word)
  BY <1>3, SeqDef
<1>5. Len(q) = RingLen(n, s, e)
  BY <1>3, <1>4, LenProperties
<1> QED BY <1>2, <1>4, <1>5

(* A word stored at the end, in a buffer that is not full, is appended; no *)
(* other slot changes.                                                     *)
LEMMA RingPut ==
  ASSUME NEW n \in Nat, n >= 2, NEW s \in 0..(n - 1), NEW e \in 0..(n - 1),
         NEW Word, NEW buf \in [0..(n - 1) -> Word], NEW d \in Word,
         RingNext(n, e) # s, NEW buf2, Stored(n, Word, buf, e, d, buf2)
  PROVE  Appended(n, s, e, buf, d, buf2)
<1> DEFINE q    == RingQueue(n, s, e, buf)
           e2   == RingNext(n, e)
           q2   == RingQueue(n, s, e2, buf2)
<1>1. e2 \in 0..(n - 1) /\ e2 # s
  BY DEF RingNext
<1>2. /\ buf2 \in [0..(n - 1) -> Word] /\ buf2[e] = d
      /\ \A k \in 0..(n - 1) : k # e => buf2[k] = buf[k]
  BY DEF Stored
<1> HIDE DEF e2
<1>3. /\ q \in Seq(Word) /\ Len(q) = RingLen(n, s, e)
      /\ \A j \in 1..RingLen(n, s, e) : q[j] = buf[RingAt(n, s, j)]
  BY RingWords
<1>4. /\ q2 \in Seq(Word) /\ Len(q2) = RingLen(n, s, e2)
      /\ \A j \in 1..RingLen(n, s, e2) : q2[j] = buf2[RingAt(n, s, j)]
  BY <1>1, <1>2, RingWords
<1>5. /\ RingLen(n, s, e) \in 0..(n - 2) /\ RingLen(n, s, e2) = RingLen(n, s, e) + 1
      /\ RingAt(n, s, RingLen(n, s, e) + 1) = e
      /\ \A j \in 1..RingLen(n, s, e) : RingAt(n, s, j) \in (0..(n - 1)) \ {e}
  BY <1>1 DEF RingLen, RingAt, RingNext, e2
<1> HIDE DEF q, q2
<1>6. /\ Append(q, d) \in Seq(Word) /\ Len(Append(q, d)) = Len(q) + 1
      /\ \A j \in 1..Len(q) : Append(q, d)[j] = q[j]
      /\ Append(q, d)[Len(q) + 1] = d
  BY <1>3, AppendProperties
<1>7. ASSUME NEW j \in 1..Len(q2) PROVE q2[j] = Append(q, d)[j]
  <2>1. CASE j = Len(q) + 1
    BY <1>2, <1>3, <1>4, <1>5, <1>6, <2>1
  <2>2. CASE j \in 1..Len(q)
    <3>1. buf2[RingAt(n, s, j)] = buf[RingAt(n, s, j)]
      BY <1>2, <1>3, <1>5, <2>2
    <3> QED BY <1>3, <1>4, <1>5, <1>6, <2>2, <3>1
  <2> QED BY <1>3, <1>4, <1>5, <2>1, <2>2
<1>8. q2 = Append(q, d)
  BY <1>3, <1>4, <1>5, <1>6, <1>7, SeqEqual
<1>9. buf2[RingPrev(n, s)] = buf[RingPrev(n, s)]
  <2>1. RingPrev(n, s) \in (0..(n - 1)) \ {e}
    BY DEF RingPrev, RingNext
  <2> QED BY <1>2, <2>1
<1>10. Len(q) < n - 1
  BY <1>3, <1>5
<1> QED BY ONLY <1>8, <1>9, <1>10 DEF q, q2, e2, Appended

(* The start moved on in a buffer that is not empty: the oldest word goes, *)
(* and is in the slot before the new start.                                *)
LEMMA RingGet ==
  ASSUME NEW n \in Nat, n >= 2, NEW s \in 0..(n - 1), NEW e \in 0..(n - 1),
         NEW Word, NEW buf \in [0..(n - 1) -> Word], s # e
  PROVE  LET q  == RingQueue(n, s, e, buf)
             s2 == RingNext(n, s)
         IN  /\ q # <<>>
             /\ RingQueue(n, s2, e, buf) = Tail(q)
             /\ buf[RingPrev(n, s2)] = Head(q)
<1> DEFINE q  == RingQueue(n, s, e, buf)
           s2 == RingNext(n, s)
           q2 == RingQueue(n, s2, e, buf)
<1>1. s2 \in 0..(n - 1)
  BY DEF RingNext
<1>2. /\ q \in Seq(Word) /\ Len(q) = RingLen(n, s, e)
      /\ \A j \in 1..RingLen(n, s, e) : q[j] = buf[RingAt(n, s, j)]
  BY RingWords
<1>3. /\ q2 \in Seq(Word) /\ Len(q2) = RingLen(n, s2, e)
      /\ \A j \in 1..RingLen(n, s2, e) : q2[j] = buf[RingAt(n, s2, j)]
  BY <1>1, RingWords
<1>4. /\ RingLen(n, s, e) \in 1..(n - 1) /\ RingLen(n, s2, e) = RingLen(n, s, e) - 1
      /\ RingAt(n, s, 1) = s
      /\ \A j \in 1..RingLen(n, s2, e) : RingAt(n, s2, j) = RingAt(n, s, j + 1)
  BY DEF RingLen, RingAt, RingNext
<1>5. RingPrev(n, s2) = s
  BY DEF RingPrev, RingNext
<1> HIDE DEF q, q2, s2
<1>6. q # <<>> /\ Head(q) = q[1]
  BY <1>2, <1>4, EmptySeq
<1>7. /\ Tail(q) \in Seq(Word) /\ Len(Tail(q)) = Len(q) - 1
      /\ \A j \in 1..Len(Tail(q)) : Tail(q)[j] = q[j + 1]
  BY <1>2, <1>6, HeadTailProperties
<1>8. ASSUME NEW j \in 1..Len(q2) PROVE q2[j] = Tail(q)[j]
  <2>1. j + 1 \in 1..RingLen(n, s, e) /\ j \in 1..RingLen(n, s2, e)
    BY <1>3, <1>4
  <2>2. q2[j] = q[j + 1]
    BY <1>2, <1>3, <1>4, <2>1
  <2> QED BY <1>2, <1>3, <1>4, <1>7, <2>2
<1>9. q2 = Tail(q)
  BY <1>2, <1>3, <1>4, <1>7, <1>8, SeqEqual
<1> QED BY <1>1, <1>2, <1>4, <1>5, <1>6, <1>9 DEF q, q2, s2

(* With the two indices equal it is empty.                                 *)
LEMMA RingEmpty ==
  ASSUME NEW n \in Nat, n >= 2, NEW s \in 0..(n - 1),
         NEW Word, NEW buf \in [0..(n - 1) -> Word]
  PROVE  RingQueue(n, s, s, buf) = <<>>
<1>1. /\ RingQueue(n, s, s, buf) \in Seq(Word)
      /\ Len(RingQueue(n, s, s, buf)) = RingLen(n, s, s)
  BY RingWords
<1>2. RingLen(n, s, s) = 0
  BY DEF RingLen
<1> QED BY <1>1, <1>2, EmptySeq

-----------------------------------------------------------------------------
(* The transmit buffer.                                                    *)

(* The mask of the C code, for an index that went round once at most.      *)
LEMMA TxMods ==
  ASSUME NEW k \in 0..(2 * TxSize - 1)
  PROVE  TxMod(k) = IF k < TxSize THEN k ELSE k - TxSize
<1>1. TxSize \in Nat \ {0}
  BY SizeAssumption DEF SizeAssumption
<1>2. CASE k \in 0..(TxSize - 1)
  <2>1. k % TxSize = k
    BY <1>1, <1>2
  <2> QED BY <1>1, <1>2, <2>1 DEF TxMod
<1>3. CASE k \in TxSize..(2 * TxSize - 1)
  <2>1. k % TxSize = k - TxSize
    BY <1>1, <1>3
  <2> QED BY <1>1, <1>3, <2>1 DEF TxMod
<1> QED BY <1>1, <1>2, <1>3

TxSlots == 0..(TxSize - 1)
TxWords == 0..(2 * TxSize - 1)

(* The indices are slots, and words fill the buffer.                       *)
TxType ==
  /\ tx_start \in TxSlots /\ tx_end \in TxSlots
  /\ tx_buf \in [TxSlots -> TxWords] /\ sent \in TxWords

(* An index moves on to the next slot.                                     *)
LEMMA TxNext ==
  ASSUME NEW k \in TxSlots
  PROVE  TxMod(k + 1) = RingNext(TxSize, k) /\ RingNext(TxSize, k) \in TxSlots
<1>1. TxSize \in Nat /\ TxSize >= 2 /\ k + 1 \in 0..(2 * TxSize - 1)
  BY SizeAssumption DEF SizeAssumption, TxSlots
<1> QED BY <1>1, TxMods DEF RingNext, TxSlots

(* The queue is that of the ring, and what came out last is in the slot    *)
(* before it.                                                              *)
LEMMA TxRing ==
  TxType => /\ TxQueue = RingQueue(TxSize, tx_start, tx_end, tx_buf)
            /\ TxOut = tx_buf[RingPrev(TxSize, tx_start)]
<1> SUFFICES ASSUME TxType
             PROVE  /\ TxQueue = RingQueue(TxSize, tx_start, tx_end, tx_buf)
                    /\ TxOut = tx_buf[RingPrev(TxSize, tx_start)]
  OBVIOUS
<1>1. /\ TxSize \in Nat /\ TxSize >= 2
      /\ tx_start \in 0..(TxSize - 1) /\ tx_end \in 0..(TxSize - 1)
  BY SizeAssumption DEF SizeAssumption, TxType, TxSlots
<1>2. TxMod(tx_end + TxSize - tx_start) = RingLen(TxSize, tx_start, tx_end)
  <2>1. tx_end + TxSize - tx_start \in 0..(2 * TxSize - 1)
    BY <1>1
  <2> QED BY <1>1, <2>1, TxMods DEF RingLen
<1>3. ASSUME NEW j \in 1..RingLen(TxSize, tx_start, tx_end)
      PROVE  TxMod(tx_start + j - 1) = RingAt(TxSize, tx_start, j)
  <2>1. tx_start + j - 1 \in 0..(2 * TxSize - 1)
    BY <1>1 DEF RingLen
  <2> QED BY <1>1, <2>1, TxMods DEF RingAt
<1>4. TxMod(tx_start + TxSize - 1) = RingPrev(TxSize, tx_start)
  <2>1. tx_start + TxSize - 1 \in 0..(2 * TxSize - 1)
    BY <1>1
  <2> QED BY <1>1, <2>1, TxMods DEF RingPrev
<1>5. TxQueue = RingQueue(TxSize, tx_start, tx_end, tx_buf)
  BY <1>2, <1>3 DEF TxQueue, RingQueue
<1> QED BY <1>4, <1>5 DEF TxOut

(* The same after a step.                                                  *)
LEMMA TxRingNext ==
  (TxType => /\ TxQueue = RingQueue(TxSize, tx_start, tx_end, tx_buf)
             /\ TxOut = tx_buf[RingPrev(TxSize, tx_start)])'
BY TxRing, PTL

(* What a step does to the buffer.                                         *)

TxStored ==
  /\ RingNext(TxSize, tx_end) # tx_start
  /\ tx_buf' = [tx_buf EXCEPT ![tx_end] = sent] /\ tx_end' = RingNext(TxSize, tx_end)
  /\ tx_start' = tx_start /\ sent' \in TxWords

TxTaken ==
  /\ tx_start # tx_end /\ tx_start' = RingNext(TxSize, tx_start)
  /\ tx_end' = tx_end /\ tx_buf' = tx_buf /\ sent' = sent

(* Only write stores a character, only the handler takes one, and no       *)
(* other step touches the buffer.                                          *)
LEMMA TxSteps ==
  ASSUME TxType, [Next]_vars
  PROVE  TxStored \/ TxTaken \/ txVars' = txVars
<1>1. CASE Put
  <2>1. TxMod(tx_end + 1) = RingNext(TxSize, tx_end)
    BY TxNext DEF TxType
  <2>2. sent' \in TxWords
    BY <1>1, SizeAssumption DEF SizeAssumption, Put, Fill, TxType, TxWords
  <2> QED BY <1>1, <2>1, <2>2 DEF Put, Fill, TxFull, TxStored
<1>2. CASE TxIrq
  <2>1. TxMod(tx_start + 1) = RingNext(TxSize, tx_start)
    BY TxNext DEF TxType
  <2> QED BY <1>2, <2>1 DEF TxIrq, Transmit, TxTaken, txVars
<1>3. CASE Interrupt \/ ClearStatus \/ RxIrq \/ Line \/ Close \/ Calls
  BY <1>3 DEF Interrupt, ClearStatus, RxIrq, Line, Close, Calls, Call, EndCall, txVars
<1>4. CASE Read \/ LeavePut \/ WriteWait \/ Spin \/ WriteDone
  BY <1>4 DEF Read, Test, Copy, BumpStart, MaskStart, LeaveCopy, ReadWait, ReadDone, EndCall,
              LeavePut, WriteWait, Spin, WriteDone, txVars
<1>5. CASE UNCHANGED vars
  BY <1>5 DEF vars, txVars
<1> QED BY <1>1, <1>2, <1>3, <1>4, <1>5 DEF Next, Isr, Program, Write

(* So the indices stay within the buffer.                                  *)
LEMMA TxTypeInvariant == TxType /\ [Next]_vars => TxType'
<1> SUFFICES ASSUME TxType, [Next]_vars PROVE TxType'
  OBVIOUS
<1>1. CASE TxStored
  BY <1>1, TxNext DEF TxStored, TxType
<1>2. CASE TxTaken
  BY <1>2, TxNext DEF TxTaken, TxType
<1>3. CASE txVars' = txVars
  BY <1>3 DEF txVars, TxType
<1> QED BY <1>1, <1>2, <1>3, TxSteps

(* What the program writes leaves in order, each character once, however   *)
(* the handler falls between the steps of write: the buffer implements     *)
(* BoundedFifo for every size.                                             *)
THEOREM UartTxIsFifo == Spec => TxIsFifo
<1>0. TxSize \in Nat /\ TxSize >= 2 /\ TxSlots = 0..(TxSize - 1)
  BY SizeAssumption DEF SizeAssumption, TxSlots
<1>1. Init => TxType /\ TxFifo!Init
  <2> SUFFICES ASSUME Init PROVE TxType /\ TxFifo!Init
    OBVIOUS
  <2>1. TxType /\ tx_start = 0 /\ tx_end = 0 /\ tx_buf[TxSize - 1] = 2 * TxSize - 1
    BY <1>0 DEF Init, TxType, TxSlots, TxWords
  <2>2. TxQueue = <<>>
    BY <1>0, <2>1, TxRing, RingEmpty DEF TxType
  <2>3. TxOut = 2 * TxSize - 1
    BY <1>0, <2>1, TxRing DEF RingPrev
  <2> QED BY <2>1, <2>2, <2>3 DEF TxFifo!Init
<1>2. TxType /\ TxType' /\ [Next]_vars
        => [txVars' # txVars => TxFifo!Put(sent) \/ TxFifo!Get]_vars
  <2> SUFFICES ASSUME TxType, TxType', [Next]_vars, txVars' # txVars
               PROVE  TxFifo!Put(sent) \/ TxFifo!Get
    OBVIOUS
  <2>1. /\ TxQueue = RingQueue(TxSize, tx_start, tx_end, tx_buf)
        /\ TxOut = tx_buf[RingPrev(TxSize, tx_start)]
        /\ TxQueue' = RingQueue(TxSize, tx_start', tx_end', tx_buf')
        /\ TxOut' = tx_buf'[RingPrev(TxSize, tx_start')]
    BY TxRing, TxRingNext
  <2>2. /\ tx_start \in 0..(TxSize - 1) /\ tx_end \in 0..(TxSize - 1)
        /\ tx_buf \in [0..(TxSize - 1) -> TxWords] /\ sent \in TxWords
    BY <1>0 DEF TxType
  <2>3. CASE TxStored
    <3>1. Stored(TxSize, TxWords, tx_buf, tx_end, sent, tx_buf')
      BY <2>2, <2>3 DEF TxStored, Stored
    <3>2. RingNext(TxSize, tx_end) # tx_start
      BY <2>3 DEF TxStored
    <3>3. Appended(TxSize, tx_start, tx_end, tx_buf, sent, tx_buf')
      BY <1>0, <2>2, <3>1, <3>2, RingPut
    <3> QED BY <2>1, <2>3, <3>3 DEF Appended, TxStored, TxFifo!Put
  <2>4. CASE TxTaken
    <3>1. TxQueue # <<>> /\ TxQueue' = Tail(TxQueue) /\ TxOut' = Head(TxQueue)
      BY <1>0, <2>1, <2>2, <2>4, RingGet DEF TxTaken
    <3> QED BY <3>1 DEF TxFifo!Get
  <2> QED BY <2>3, <2>4, TxSteps
<1> QED BY <1>1, <1>2, TxTypeInvariant, PTL DEF Spec, TxIsFifo

-----------------------------------------------------------------------------
(* The receive buffer, whose rx_start is for a moment not masked, and      *)
(* which an overrun may fill to the brim.                                  *)

(* All slots of the ring, from s on.                                       *)
RingAll(n, s, buf) == [j \in 1..n |-> buf[RingAt(n, s, j)]]

(* They are a sequence of n words.                                         *)
LEMMA RingAllWords ==
  ASSUME NEW n \in Nat, n >= 2, NEW s \in 0..(n - 1),
         NEW Word, NEW buf \in [0..(n - 1) -> Word]
  PROVE  LET q == RingAll(n, s, buf)
         IN  /\ q \in Seq(Word) /\ Len(q) = n
             /\ \A j \in 1..n : q[j] = buf[RingAt(n, s, j)]
<1> DEFINE q == RingAll(n, s, buf)
<1>1. \A j \in 1..n : RingAt(n, s, j) \in 0..(n - 1)
  BY DEF RingAt
<1>2. \A j \in 1..n : q[j] = buf[RingAt(n, s, j)] /\ q[j] \in Word
  BY <1>1 DEF RingAll
<1>3. q \in [1..n -> Word]
  BY <1>2 DEF RingAll
<1>4. q \in Seq(Word)
  BY <1>3, SeqDef
<1>5. Len(q) = n
  BY <1>3, <1>4, LenProperties
<1> QED BY <1>2, <1>4, <1>5

(* With a word in the slot kept free as well, equal indices stand for a    *)
(* ring that is full.                                                      *)
Filled(n, e, buf, d, buf2) ==
  LET q == RingQueue(n, RingNext(n, e), e, buf)
  IN  Len(q) = n - 1 /\ RingAll(n, RingNext(n, e), buf2) = Append(q, d)

(* To one who takes them so, that word too is appended.                    *)
LEMMA RingFill ==
  ASSUME NEW n \in Nat, n >= 2, NEW e \in 0..(n - 1),
         NEW Word, NEW buf \in [0..(n - 1) -> Word], NEW d \in Word,
         NEW buf2, Stored(n, Word, buf, e, d, buf2)
  PROVE  Filled(n, e, buf, d, buf2)
<1> DEFINE s  == RingNext(n, e)
           q  == RingQueue(n, s, e, buf)
           q2 == RingAll(n, s, buf2)
<1>1. s \in 0..(n - 1)
  BY DEF RingNext
<1>2. /\ buf2 \in [0..(n - 1) -> Word] /\ buf2[e] = d
      /\ \A k \in 0..(n - 1) : k # e => buf2[k] = buf[k]
  BY DEF Stored
<1>3. /\ q \in Seq(Word) /\ Len(q) = RingLen(n, s, e)
      /\ \A j \in 1..RingLen(n, s, e) : q[j] = buf[RingAt(n, s, j)]
  BY <1>1, RingWords
<1>4. /\ q2 \in Seq(Word) /\ Len(q2) = n
      /\ \A j \in 1..n : q2[j] = buf2[RingAt(n, s, j)]
  BY <1>1, <1>2, RingAllWords
<1>5. /\ RingLen(n, s, e) = n - 1 /\ RingAt(n, s, n) = e
      /\ \A j \in 1..(n - 1) : RingAt(n, s, j) \in (0..(n - 1)) \ {e}
  BY DEF RingLen, RingAt, RingNext
<1> HIDE DEF s, q, q2
<1>6. /\ Append(q, d) \in Seq(Word) /\ Len(Append(q, d)) = Len(q) + 1
      /\ \A j \in 1..Len(q) : Append(q, d)[j] = q[j]
      /\ Append(q, d)[Len(q) + 1] = d
  BY <1>3, AppendProperties
<1>7. ASSUME NEW j \in 1..Len(q2) PROVE q2[j] = Append(q, d)[j]
  <2>1. CASE j = n
    BY <1>2, <1>3, <1>4, <1>5, <1>6, <2>1
  <2>2. CASE j \in 1..(n - 1)
    <3>1. buf2[RingAt(n, s, j)] = buf[RingAt(n, s, j)]
      BY <1>2, <1>5, <2>2
    <3> QED BY <1>3, <1>4, <1>5, <1>6, <2>2, <3>1
  <2>3. j = n \/ j \in 1..(n - 1)
    BY <1>4
  <2> QED BY <2>1, <2>2, <2>3
<1>8. q2 = Append(q, d)
  BY <1>3, <1>4, <1>5, <1>6, <1>7, SeqEqual
<1> QED BY <1>3, <1>5, <1>8 DEF s, q, q2, Filled

(* A word stored in a ring all of whose slots are in use is alone in it.   *)
LEMMA RingOver ==
  ASSUME NEW n \in Nat, n >= 2, NEW e \in 0..(n - 1),
         NEW Word, NEW buf, NEW d \in Word,
         NEW buf2, Stored(n, Word, buf, e, d, buf2)
  PROVE  RingQueue(n, e, RingNext(n, e), buf2) = <<d>>
<1> DEFINE q == RingQueue(n, e, RingNext(n, e), buf2)
<1>1. RingNext(n, e) \in 0..(n - 1) /\ buf2 \in [0..(n - 1) -> Word] /\ buf2[e] = d
  BY DEF RingNext, Stored
<1>2. /\ q \in Seq(Word) /\ Len(q) = RingLen(n, e, RingNext(n, e))
      /\ \A j \in 1..RingLen(n, e, RingNext(n, e)) : q[j] = buf2[RingAt(n, e, j)]
  BY <1>1, RingWords
<1>3. RingLen(n, e, RingNext(n, e)) = 1 /\ RingAt(n, e, 1) = e
  BY DEF RingLen, RingNext, RingAt
<1> HIDE DEF q
<1>4. Len(q) = 1 /\ q[1] = d
  BY <1>1, <1>2, <1>3
<1>5. <<d>> \in Seq(Word) /\ Len(<<d>>) = 1 /\ <<d>>[1] = d
  OBVIOUS
<1>6. q = <<d>>
  BY <1>2, <1>4, <1>5, SeqEqual
<1> QED BY <1>6 DEF q

(* The start moved on in such a ring: the oldest word goes.                *)
LEMMA RingGetAll ==
  ASSUME NEW n \in Nat, n >= 2, NEW s \in 0..(n - 1),
         NEW Word, NEW buf \in [0..(n - 1) -> Word]
  PROVE  LET q == RingAll(n, s, buf)
         IN  /\ q # <<>>
             /\ RingQueue(n, RingNext(n, s), s, buf) = Tail(q)
             /\ buf[s] = Head(q)
<1> DEFINE q  == RingAll(n, s, buf)
           s2 == RingNext(n, s)
           q2 == RingQueue(n, s2, s, buf)
<1>1. s2 \in 0..(n - 1)
  BY DEF RingNext
<1>2. /\ q \in Seq(Word) /\ Len(q) = n
      /\ \A j \in 1..n : q[j] = buf[RingAt(n, s, j)]
  BY RingAllWords
<1>3. /\ q2 \in Seq(Word) /\ Len(q2) = RingLen(n, s2, s)
      /\ \A j \in 1..RingLen(n, s2, s) : q2[j] = buf[RingAt(n, s2, j)]
  BY <1>1, RingWords
<1>4. /\ RingLen(n, s2, s) = n - 1 /\ RingAt(n, s, 1) = s
      /\ \A j \in 1..(n - 1) : RingAt(n, s2, j) = RingAt(n, s, j + 1)
  BY DEF RingLen, RingAt, RingNext
<1> HIDE DEF q, q2, s2
<1>5. q # <<>> /\ Head(q) = q[1]
  BY <1>2, EmptySeq
<1>6. /\ Tail(q) \in Seq(Word) /\ Len(Tail(q)) = Len(q) - 1
      /\ \A j \in 1..Len(Tail(q)) : Tail(q)[j] = q[j + 1]
  BY <1>2, <1>5, HeadTailProperties
<1>7. ASSUME NEW j \in 1..Len(q2) PROVE q2[j] = Tail(q)[j]
  <2>1. j + 1 \in 1..n /\ j \in 1..(n - 1)
    BY <1>3, <1>4
  <2>2. q2[j] = q[j + 1]
    BY <1>2, <1>3, <1>4, <2>1
  <2> QED BY <1>2, <1>3, <1>4, <1>6, <2>2
<1>8. q2 = Tail(q)
  BY <1>2, <1>3, <1>4, <1>6, <1>7, SeqEqual
<1> QED BY <1>2, <1>4, <1>5, <1>8 DEF q, q2, s2

RxSlots == 0..(RxSize - 1)
RxWords == 0..(2 * RxSize - 1)

(* The indices are slots, but for a rx_start that the program is masking.  *)
RxType ==
  /\ rx_start \in 0..RxSize /\ (rx_start = RxSize => pc = "mask")
  /\ rx_end \in RxSlots
  /\ rx_buf \in [RxSlots -> RxWords] /\ received \in RxWords

(* The mask of the C code, for an index that went round once at most.      *)
LEMMA RxMods ==
  ASSUME NEW k \in 0..(2 * RxSize - 1)
  PROVE  RxMod(k) = IF k < RxSize THEN k ELSE k - RxSize
<1>1. RxSize \in Nat \ {0}
  BY SizeAssumption DEF SizeAssumption
<1>2. CASE k \in 0..(RxSize - 1)
  <2>1. k % RxSize = k
    BY <1>1, <1>2
  <2> QED BY <1>1, <1>2, <2>1 DEF RxMod
<1>3. CASE k \in RxSize..(2 * RxSize - 1)
  <2>1. k % RxSize = k - RxSize
    BY <1>1, <1>3
  <2> QED BY <1>1, <1>3, <2>1 DEF RxMod
<1> QED BY <1>1, <1>2, <1>3

(* An index moves on to the next slot.                                     *)
LEMMA RxNext ==
  ASSUME NEW k \in RxSlots
  PROVE  RxMod(k + 1) = RingNext(RxSize, k) /\ RingNext(RxSize, k) \in RxSlots
<1>1. RxSize \in Nat /\ RxSize >= 2 /\ k + 1 \in 0..(2 * RxSize - 1)
  BY SizeAssumption DEF SizeAssumption, RxSlots
<1> QED BY <1>1, RxMods DEF RingNext, RxSlots

(* Every slot is in use: the turn of read has found data, and rx_end has   *)
(* come round to the slot it is to copy.                                   *)
RxBrim == pc = "copy" /\ RxFirst = rx_end

(* The queue the indices stand for.                                        *)
RxMeans ==
  /\ RxFirst \in RxSlots
  /\ RxFirst = IF pc = "bump" THEN RingNext(RxSize, rx_start)
               ELSE IF rx_start = RxSize THEN 0 ELSE rx_start
  /\ RxBrim  => RxLen = RxSize /\ RxQueue = RingAll(RxSize, RxFirst, rx_buf)
  /\ ~RxBrim => /\ RxLen = RingLen(RxSize, RxFirst, rx_end)
                /\ RxQueue = RingQueue(RxSize, RxFirst, rx_end, rx_buf)

(* Masked or not, rx_start means the same queue.                           *)
LEMMA RxRing == RxType => RxMeans
<1> SUFFICES ASSUME RxType PROVE RxMeans
  OBVIOUS
<1>1. /\ RxSize \in Nat /\ RxSize >= 2
      /\ rx_start \in 0..RxSize /\ (rx_start = RxSize => pc = "mask")
      /\ rx_end \in 0..(RxSize - 1)
  BY SizeAssumption DEF SizeAssumption, RxType, RxSlots
<1>2. /\ RxFirst \in 0..(RxSize - 1)
      /\ RxFirst = IF pc = "bump" THEN RingNext(RxSize, rx_start)
                   ELSE IF rx_start = RxSize THEN 0 ELSE rx_start
  <2>1. CASE pc = "bump"
    <3>1. rx_start + 1 \in 0..(2 * RxSize - 1) /\ rx_start < RxSize
      BY <1>1, <2>1
    <3> QED BY <1>1, <2>1, <3>1, RxMods DEF RxFirst, RingNext
  <2>2. CASE pc # "bump"
    <3>1. rx_start \in 0..(2 * RxSize - 1)
      BY <1>1
    <3> QED BY <1>1, <2>2, <3>1, RxMods DEF RxFirst
  <2> QED BY <2>1, <2>2
<1> HIDE DEF RxFirst
<1>3. RxMod(rx_end + RxSize - RxFirst) = RingLen(RxSize, RxFirst, rx_end)
  <2>1. rx_end + RxSize - RxFirst \in 0..(2 * RxSize - 1)
    BY <1>1, <1>2
  <2> QED BY <1>1, <1>2, <2>1, RxMods DEF RingLen
<1>4. ASSUME NEW j \in 1..RxSize
      PROVE  RxMod(RxFirst + j - 1) = RingAt(RxSize, RxFirst, j)
  <2>1. RxFirst + j - 1 \in 0..(2 * RxSize - 1)
    BY <1>1, <1>2
  <2> QED BY <1>1, <1>2, <2>1, RxMods DEF RingAt
<1>5. /\ RingLen(RxSize, RxFirst, rx_end) \in 0..(RxSize - 1)
      /\ RingLen(RxSize, RxFirst, rx_end) = 0 <=> RxFirst = rx_end
  BY <1>1, <1>2 DEF RingLen
<1>6. RxLen = IF RxBrim THEN RxSize ELSE RingLen(RxSize, RxFirst, rx_end)
  BY <1>3, <1>5 DEF RxLen, RxBrim
<1>7. CASE RxBrim
  <2>1. RxQueue = RingAll(RxSize, RxFirst, rx_buf)
    BY <1>4, <1>6, <1>7 DEF RxQueue, RingAll
  <2> QED BY <1>2, <1>6, <1>7, <2>1 DEF RxMeans, RxSlots
<1>8. CASE ~RxBrim
  <2>1. \A j \in 1..RingLen(RxSize, RxFirst, rx_end) : j \in 1..RxSize
    BY <1>1, <1>5
  <2>2. RxQueue = RingQueue(RxSize, RxFirst, rx_end, rx_buf)
    BY <1>4, <1>6, <1>8, <2>1 DEF RxQueue, RingQueue
  <2> QED BY <1>2, <1>6, <1>8, <2>2 DEF RxMeans, RxSlots
<1> QED BY <1>7, <1>8

(* The same after a step.                                                  *)
LEMMA RxRingNext == (RxType => RxMeans)'
BY RxRing, PTL

(* What a step does to the buffer.                                         *)

RxStored ==
  /\ rx_buf' = [rx_buf EXCEPT ![rx_end] = received]
  /\ rx_end' = RingNext(RxSize, rx_end) /\ received' \in RxWords
  /\ rx_start' = rx_start /\ char' = char /\ pc' = pc

RxTested ==
  /\ pc = "read" /\ pc' = "copy" /\ rx_start # rx_end
  /\ rx_start' = rx_start /\ char' = char
  /\ rx_end' = rx_end /\ rx_buf' = rx_buf /\ received' = received

RxCopied ==
  /\ pc = "copy" /\ pc' = "bump"
  /\ rx_start' = rx_start /\ char' = rx_buf[rx_start]
  /\ rx_end' = rx_end /\ rx_buf' = rx_buf /\ received' = received

RxBumped ==
  /\ pc = "bump" /\ pc' = "mask"
  /\ rx_start' = rx_start + 1 /\ char' = NoChar
  /\ rx_end' = rx_end /\ rx_buf' = rx_buf /\ received' = received

RxMasked ==
  /\ pc = "mask" /\ pc' = "read"
  /\ rx_start' = RxFirst /\ char' = char
  /\ rx_end' = rx_end /\ rx_buf' = rx_buf /\ received' = received

RxKept ==
  /\ rx_start' = rx_start /\ char' = char
  /\ rx_end' = rx_end /\ rx_buf' = rx_buf /\ received' = received
  /\ pc' = pc \/ {pc, pc'} \cap {"copy", "bump", "mask"} = {}

(* Only the handler stores a character, and only the turns of read move    *)
(* rx_start.                                                               *)
LEMMA RxSteps ==
  ASSUME RxType, [Next]_vars
  PROVE  RxStored \/ RxTested \/ RxCopied \/ RxBumped \/ RxMasked \/ RxKept
<1>1. CASE RxIrq
  <2>1. RxMod(rx_end + 1) = RingNext(RxSize, rx_end)
    BY RxNext DEF RxType
  <2>2. received' \in RxWords
    BY <1>1, SizeAssumption DEF SizeAssumption, RxIrq, RxType, RxWords
  <2> QED BY <1>1, <2>1, <2>2 DEF RxIrq, Store, callVars, RxStored
<1>2. CASE Test
  BY <1>2 DEF Test, Goto, rxVars, RxTested
<1>3. CASE Copy
  BY <1>3 DEF Copy, Goto, RxCopied
<1>4. CASE BumpStart
  BY <1>4 DEF BumpStart, Goto, RxBumped
<1>5. CASE MaskStart
  <2>1. RxFirst = RxMod(rx_start)
    BY <1>5 DEF MaskStart, Goto, RxFirst
  <2> QED BY <1>5, <2>1 DEF MaskStart, Goto, RxMasked
<1>6. CASE Interrupt \/ ClearStatus \/ TxIrq \/ Line
  BY <1>6 DEF Interrupt, ClearStatus, TxIrq, Line, rxVars, callVars, RxKept
<1>7. CASE Calls \/ Close
  BY <1>7 DEF Calls, Call, Close, EndCall, Goto, rxVars, RxKept
<1>8. CASE Write
  BY <1>8 DEF Write, Put, Fill, LeavePut, WriteWait, Spin, WriteDone, EndCall, Goto,
              rxVars, RxKept
<1>9. CASE LeaveCopy \/ ReadWait \/ ReadDone
  BY <1>9 DEF LeaveCopy, ReadWait, ReadDone, EndCall, Goto, rxVars, RxKept
<1>10. CASE UNCHANGED vars
  BY <1>10 DEF vars, rxVars, callVars, RxKept
<1> QED BY <1>1, <1>2, <1>3, <1>4, <1>5, <1>6, <1>7, <1>8, <1>9, <1>10
        DEF Next, Isr, Program, Read

(* So the indices stay within the buffer, and rx_start at most one past    *)
(* it.                                                                     *)
LEMMA RxTypeInvariant == RxType /\ [Next]_vars => RxType'
<1> SUFFICES ASSUME RxType, [Next]_vars PROVE RxType'
  OBVIOUS
<1>0. RxSize \in Nat /\ RxSize >= 2
  BY SizeAssumption DEF SizeAssumption
<1>1. CASE RxStored
  BY <1>1, RxNext DEF RxStored, RxType
<1>2. CASE RxTested \/ RxCopied \/ RxBumped
  BY <1>0, <1>2 DEF RxTested, RxCopied, RxBumped, RxType
<1>3. CASE RxMasked
  BY <1>0, <1>3, RxRing DEF RxMasked, RxType, RxMeans, RxSlots
<1>4. CASE RxKept
  BY <1>4 DEF RxKept, RxType
<1> QED BY <1>1, <1>2, <1>3, <1>4, RxSteps

-----------------------------------------------------------------------------
(* What the steps are to the queue.                                        *)

RxOutcome ==
  \/ RxFifo!Put(received) \/ RxFifo!Get \/ Overrun
  \/ RxQueue' = RxQueue /\ char' \in {char, NoChar}

(* A character stored is appended, to the brim if a turn of read has found *)
(* data, or is an overrun.                                                 *)
LEMMA RxStoredOutcome ==
  ASSUME RxType, RxType', RxMeans, RxMeans', RxStored
  PROVE  RxOutcome
<1>0. RxSize \in Nat /\ RxSize >= 2 /\ RxSlots = 0..(RxSize - 1)
  BY SizeAssumption DEF SizeAssumption, RxSlots
<1>1. /\ RxFirst \in 0..(RxSize - 1) /\ rx_end \in 0..(RxSize - 1)
      /\ rx_buf \in [0..(RxSize - 1) -> RxWords] /\ received \in RxWords
  BY <1>0 DEF RxType, RxMeans
<1>2. RxFirst' = RxFirst
  BY DEF RxStored, RxMeans
<1>3. Stored(RxSize, RxWords, rx_buf, rx_end, received, rx_buf')
  BY <1>1 DEF RxStored, Stored
<1>4. RxBrim' <=> pc = "copy" /\ RxFirst = RingNext(RxSize, rx_end)
  BY <1>2 DEF RxStored, RxBrim
<1>5. /\ RxBrim'  => RxQueue' = RingAll(RxSize, RxFirst, rx_buf')
      /\ ~RxBrim' => RxQueue' = RingQueue(RxSize, RxFirst, RingNext(RxSize, rx_end), rx_buf')
  BY <1>2 DEF RxStored, RxMeans
<1>6. RingNext(RxSize, rx_end) # rx_end /\ RingNext(RxSize, rx_end) \in 0..(RxSize - 1)
  BY <1>0, <1>1 DEF RingNext
<1>7. CASE ~RxBrim /\ RingNext(RxSize, rx_end) # RxFirst
  <2>1. Appended(RxSize, RxFirst, rx_end, rx_buf, received, rx_buf')
    BY <1>0, <1>1, <1>3, <1>7, RingPut
  <2>2. Len(RxQueue) < RxSize - 1 /\ RxQueue' = Append(RxQueue, received)
    BY <1>4, <1>5, <1>7, <2>1 DEF Appended, RxMeans
  <2>3. Len(RxQueue) \in Nat
    BY <1>0, <1>1, <1>7, RingWords DEF RxMeans
  <2> QED BY <1>0, <2>2, <2>3 DEF RxStored, RxFifo!Put, RxOutcome
<1>8. CASE ~RxBrim /\ RingNext(RxSize, rx_end) = RxFirst /\ pc = "copy"
  <2>0. RxFirst = RingNext(RxSize, rx_end)
    BY <1>8
  <2>1. Filled(RxSize, rx_end, rx_buf, received, rx_buf')
    BY <1>0, <1>1, <1>3, RingFill
  <2>2. Len(RxQueue) < RxSize /\ RxQueue' = Append(RxQueue, received)
    BY <1>0, <1>4, <1>5, <1>8, <2>0, <2>1 DEF RxMeans, Filled
  <2> QED BY <2>2 DEF RxStored, RxFifo!Put, RxOutcome
<1>9. CASE ~RxBrim /\ RingNext(RxSize, rx_end) = RxFirst /\ pc # "copy"
  <2>1. RxLen = RxSize - 1
    BY <1>0, <1>1, <1>9 DEF RxMeans, RingLen, RingNext
  <2>2. rx_buf' \in [0..(RxSize - 1) -> RxWords]
    BY <1>3 DEF Stored
  <2>3. RxQueue' = <<>>
    BY <1>0, <1>1, <1>4, <1>5, <1>9, <2>2, RingEmpty
  <2> QED BY <1>6, <1>9, <2>1, <2>3 DEF RxStored, RxFull, Overrun, RxOutcome
<1>10. CASE RxBrim
  <2>1. RxLen = RxSize /\ pc = "copy" /\ RxFirst = rx_end
    BY <1>10 DEF RxMeans, RxBrim
  <2>2. RxQueue' = <<received>>
    BY <1>0, <1>1, <1>3, <1>4, <1>5, <1>6, <2>1, RingOver
  <2> QED BY <1>6, <2>1, <2>2 DEF RxStored, RxFull, Overrun, RxOutcome
<1> QED BY <1>7, <1>8, <1>9, <1>10

(* A turn of read takes the oldest character where it copies it; its other *)
(* steps leave the queue alone.                                            *)
LEMMA RxTurnOutcome ==
  ASSUME RxType, RxType', RxMeans, RxMeans',
         RxTested \/ RxCopied \/ RxBumped \/ RxMasked \/ RxKept
  PROVE  RxOutcome
<1>0. RxSize \in Nat /\ RxSize >= 2 /\ RxSlots = 0..(RxSize - 1)
  BY SizeAssumption DEF SizeAssumption, RxSlots
<1>1. /\ RxFirst \in 0..(RxSize - 1) /\ rx_end \in 0..(RxSize - 1)
      /\ rx_buf \in [0..(RxSize - 1) -> RxWords]
      /\ rx_start \in 0..RxSize /\ (rx_start = RxSize => pc = "mask")
  BY <1>0 DEF RxType, RxMeans
<1>2. CASE RxCopied
  <2>1. /\ RxFirst = rx_start /\ RxFirst' = RingNext(RxSize, rx_start) /\ ~RxBrim'
    BY <1>1, <1>2 DEF RxCopied, RxMeans, RxBrim
  <2>2. RxQueue' = RingQueue(RxSize, RingNext(RxSize, rx_start), rx_end, rx_buf)
    BY <1>2, <2>1 DEF RxCopied, RxMeans
  <2>3. CASE RxBrim
    <3>1. RxQueue = RingAll(RxSize, rx_start, rx_buf) /\ rx_end = rx_start
      BY <2>1, <2>3 DEF RxMeans, RxBrim
    <3>2. RxQueue # <<>> /\ RxQueue' = Tail(RxQueue) /\ rx_buf[rx_start] = Head(RxQueue)
      BY <1>0, <1>1, <2>1, <2>2, <3>1, RingGetAll
    <3> QED BY <1>2, <3>2 DEF RxCopied, RxFifo!Get, RxOutcome
  <2>4. CASE ~RxBrim
    <3>1. RxQueue = RingQueue(RxSize, rx_start, rx_end, rx_buf) /\ rx_start # rx_end
      BY <1>2, <2>1, <2>4 DEF RxMeans, RxBrim, RxCopied
    <3>2. RingPrev(RxSize, RingNext(RxSize, rx_start)) = rx_start
      BY <1>0, <1>1, <2>1 DEF RingPrev, RingNext
    <3>3. rx_start \in 0..(RxSize - 1)
      BY <1>1, <2>1
    <3>4. LET q  == RingQueue(RxSize, rx_start, rx_end, rx_buf)
              s2 == RingNext(RxSize, rx_start)
          IN  /\ q # <<>>
              /\ RingQueue(RxSize, s2, rx_end, rx_buf) = Tail(q)
              /\ rx_buf[RingPrev(RxSize, s2)] = Head(q)
      BY <1>0, <1>1, <3>1, <3>3, RingGet
    <3>5. RxQueue # <<>> /\ RxQueue' = Tail(RxQueue) /\ rx_buf[rx_start] = Head(RxQueue)
      BY <2>2, <3>1, <3>2, <3>4
    <3> QED BY <1>2, <3>5 DEF RxCopied, RxFifo!Get, RxOutcome
  <2> QED BY <2>3, <2>4
<1>3. CASE RxTested \/ RxBumped \/ RxMasked \/ RxKept
  <2>1. /\ rx_end' = rx_end /\ rx_buf' = rx_buf /\ char' \in {char, NoChar}
    BY <1>3 DEF RxTested, RxBumped, RxMasked, RxKept
  <2>2. RxFirst' = RxFirst
    <3>1. CASE RxBumped
      BY <1>0, <1>1, <3>1 DEF RxBumped, RxMeans, RingNext
    <3>2. CASE RxMasked
      BY <1>0, <1>1, <3>2 DEF RxMasked, RxMeans
    <3>3. CASE RxTested \/ RxKept
      BY <3>3 DEF RxTested, RxKept, RxMeans
    <3> QED BY <1>3, <3>1, <3>2, <3>3
  <2>3. RxBrim' <=> RxBrim
    <3>1. CASE RxTested
      BY <1>1, <2>1, <2>2, <3>1 DEF RxTested, RxBrim, RxMeans
    <3>2. CASE RxBumped \/ RxMasked \/ RxKept
      BY <2>1, <2>2, <3>2 DEF RxBumped, RxMasked, RxKept, RxBrim
    <3> QED BY <1>3, <3>1, <3>2
  <2>4. RxQueue' = RxQueue
    BY <2>1, <2>2, <2>3 DEF RxMeans
  <2> QED BY <2>1, <2>4 DEF RxOutcome
<1> QED BY <1>2, <1>3

(* A character reaches the calls of read in order, once, unless the buffer *)
(* is full when it comes; neither the unmasked rx_start makes a difference *)
(* nor that read tests for data some steps before it copies.               *)
THEOREM UartRxInOrder == Spec => RxInOrder
<1>0. RxSize \in Nat /\ RxSize >= 2 /\ RxSlots = 0..(RxSize - 1)
  BY SizeAssumption DEF SizeAssumption, RxSlots
<1>1. Init => RxType /\ RxFifo!Init
  <2> SUFFICES ASSUME Init PROVE RxType /\ RxFifo!Init
    OBVIOUS
  <2>1. RxType /\ rx_start = 0 /\ rx_end = 0 /\ pc = "idle" /\ char = NoChar
    BY <1>0 DEF Init, RxType, RxSlots, RxWords
  <2>2. RxFirst = 0 /\ RxQueue = RingQueue(RxSize, 0, 0, rx_buf)
    BY <1>0, <2>1, RxRing DEF RxMeans, RxBrim
  <2>3. RxQueue = <<>>
    BY <1>0, <2>1, <2>2, RingEmpty DEF RxType
  <2> QED BY <2>1, <2>3 DEF RxFifo!Init
<1>2. RxType /\ RxType' /\ [Next]_vars => RxOutcome
  BY RxRing, RxRingNext, RxSteps, RxStoredOutcome, RxTurnOutcome
<1>3. RxType /\ RxType' /\ [Next]_vars
        => [\/ RxFifo!Put(received) \/ RxFifo!Get \/ Overrun
            \/ RxQueue' = RxQueue /\ char' \in {char, NoChar}]_<<rxVars, pc>>
  BY <1>2 DEF RxOutcome
<1> QED BY <1>1, <1>3, RxTypeInvariant, PTL DEF Spec, RxInOrder

-----------------------------------------------------------------------------
(***************************************************************************)
(* The I2C driver.  The inductive invariant has three parts: Control says  *)
(* where the driver and the core are in a command, Fitted what the EEPROM  *)
(* has made of the bytes so far, and Data what the program has of the      *)
(* bytes it read.                                                          *)
(***************************************************************************)

(* What main's constants have to be (32 bytes at register 32, pages of 32  *)
(* bytes, of 8192; the numbers from 1 to 32, and the bus reads as 255).    *)
(* The registers hold the block in one page of the memory, its bytes are   *)
(* bytes, and one of them is not what a bus reads on which nobody answers. *)
BlockFits ==
  /\ Page \in Nat \ {0} /\ ByteValues \in Nat \ {0} /\ Size \in Nat /\ Device \in Nat
  /\ Reg + Num <= Size /\ (Reg % Page) + Num <= Page
  /\ Block \in [1..Num -> 0..(ByteValues - 1)]
  /\ \E n \in 1..Num : Block[n] # Ones

-----------------------------------------------------------------------------
(* The commands of the two calls, one by one.                              *)

High == Reg \div ByteValues
Low  == Reg % ByteValues

LengthOf(c) == IF c = "write" THEN Num + 3 ELSE Num + 4

(* The commands that begin with a START.                                   *)
StartsAt(c, k) == k = 1 \/ (c = "read" /\ k = 4)

CmdsOf(c, k) ==
  IF StartsAt(c, k) THEN {"STA", "WR"}
  ELSE IF c = "write" THEN IF k = Num + 3 THEN {"WR", "STO"} ELSE {"WR"}
  ELSE IF k <= 3 THEN {"WR"}
  ELSE IF k = Num + 4 THEN {"RD", "ACK", "STO"} ELSE {"RD"}

ByteOf(c, k) ==
  IF k = 1 THEN Device ELSE IF k = 2 THEN High ELSE IF k = 3 THEN Low
  ELSE IF c = "write" THEN Block[k - 3]
  ELSE IF k = 4 THEN Device + 1 ELSE None

(* A command added to a script.                                            *)
LEMMA OneAppended ==
  ASSUME NEW S, NEW q \in Seq(S), NEW z \in S
  PROVE  /\ q \o <<z>> \in Seq(S)
         /\ Len(q \o <<z>>) = Len(q) + 1
         /\ \A k \in 1..Len(q) : (q \o <<z>>)[k] = q[k]
         /\ (q \o <<z>>)[Len(q) + 1] = z
<1>1. Len(q) \in Nat
  OBVIOUS
<1>2. <<z>> \in Seq(S) /\ Len(<<z>>) = 1 /\ <<z>>[1] = z
  OBVIOUS
<1>3. /\ q \o <<z>> \in Seq(S) /\ Len(q \o <<z>>) = Len(q) + Len(<<z>>)
      /\ \A k \in 1..(Len(q) + Len(<<z>>)) :
           (q \o <<z>>)[k] = IF k <= Len(q) THEN q[k] ELSE <<z>>[k - Len(q)]
  BY <1>2, ConcatProperties
<1> QED BY <1>1, <1>2, <1>3

(* Address, command by command.                                            *)
LEMMA AddressIs ==
  /\ \A S : (\A k \in 1..3 : Address(Reg)[k] \in S) => Address(Reg) \in Seq(S)
  /\ Len(Address(Reg)) = 3
  /\ Address(Reg)[1] = Command(Device, {"STA", "WR"})
  /\ Address(Reg)[2] = Command(High, {"WR"})
  /\ Address(Reg)[3] = Command(Low, {"WR"})
<1>1. /\ Len(Address(Reg)) = 3
      /\ Address(Reg)[1] = Command(Device, {"STA", "WR"})
      /\ Address(Reg)[2] = Command(High, {"WR"})
      /\ Address(Reg)[3] = Command(Low, {"WR"})
  BY DEF Address, High, Low
<1>2. ASSUME NEW S, \A k \in 1..3 : Address(Reg)[k] \in S
      PROVE  Address(Reg) \in Seq(S)
  <2> DEFINE x == Command(Device, {"STA", "WR"})
             y == Command(High, {"WR"})
             z == Command(Low, {"WR"})
  <2>1. Address(Reg) = <<x, y, z>>
    BY DEF Address, High, Low
  <2>2. x \in S /\ y \in S /\ z \in S
    BY <1>1, <1>2
  <2> HIDE DEF x, y, z
  <2>3. <<x, y, z>> \in Seq(S)
    BY <2>2
  <2> QED BY <2>1, <2>3
<1> QED BY <1>1, <1>2

(* I2CWrite, command by command.                                           *)
LEMMA WriteScript ==
  /\ Len(I2CWrite(Reg, Block, Num)) = Num + 3
  /\ \A k \in 1..3 : I2CWrite(Reg, Block, Num)[k] = Address(Reg)[k]
  /\ \A n \in 1..Num : I2CWrite(Reg, Block, Num)[n + 3] =
       Command(Block[n], IF n = Num THEN {"WR", "STO"} ELSE {"WR"})
<1> DEFINE p == Address(Reg)
           f == [n \in 1..(Num - 1) |-> Command(Block[n], {"WR"})]
           z == Command(Block[Num], {"WR", "STO"})
           S == {p[k] : k \in 1..3} \cup {f[n] : n \in 1..(Num - 1)} \cup {z}
<1>1. Num \in Nat /\ Num > 0 /\ Num - 1 \in Nat
  BY AppAssumption DEF AppAssumption
<1>2. I2CWrite(Reg, Block, Num) = p \o f \o <<z>>
  BY <1>1 DEF I2CWrite
<1>3. p \in Seq(S) /\ f \in Seq(S) /\ Len(f) = Num - 1 /\ z \in S /\ Len(p) = 3
  BY <1>1, AddressIs
<1>4. \A n \in 1..(Num - 1) : f[n] = Command(Block[n], {"WR"})
  OBVIOUS
<1>5. z = Command(Block[Num], {"WR", "STO"})
  OBVIOUS
<1> HIDE DEF p, f, z, S
<1>6. /\ Len(p \o f \o <<z>>) = Num + 3
      /\ \A k \in 1..3 : (p \o f \o <<z>>)[k] = p[k]
      /\ \A n \in 1..(Num - 1) : (p \o f \o <<z>>)[3 + n] = f[n]
      /\ (p \o f \o <<z>>)[3 + Num] = z
  <2>1. 3 + (Num - 1) + 1 = Num + 3 /\ 3 + (Num - 1) + 1 = 3 + Num
    BY <1>1
  <2>2. /\ p \o f \in Seq(S) /\ Len(p \o f) = Len(p) + Len(f)
        /\ \A k \in 1..(Len(p) + Len(f)) :
             (p \o f)[k] = IF k <= Len(p) THEN p[k] ELSE f[k - Len(p)]
    BY <1>3, ConcatProperties
  <2>3. /\ Len((p \o f) \o <<z>>) = Len(p \o f) + 1
        /\ \A k \in 1..Len(p \o f) : ((p \o f) \o <<z>>)[k] = (p \o f)[k]
        /\ ((p \o f) \o <<z>>)[Len(p \o f) + 1] = z
    BY <1>3, <2>2, OneAppended
  <2> QED BY <1>1, <1>3, <2>1, <2>2, <2>3
<1>7. ASSUME NEW n \in 1..Num
      PROVE  (p \o f \o <<z>>)[n + 3] = Command(Block[n], IF n = Num THEN {"WR", "STO"} ELSE {"WR"})
  <2>1. n + 3 = 3 + n
    BY <1>1
  <2>2. CASE n = Num
    BY <1>5, <1>6, <2>1, <2>2
  <2>3. CASE n # Num
    <3>1. n \in 1..(Num - 1)
      BY <1>1, <2>3
    <3> QED BY <1>4, <1>6, <2>1, <2>3, <3>1
  <2> QED BY <2>2, <2>3
<1> QED BY <1>2, <1>6, <1>7 DEF p

(* I2CRead, command by command.                                            *)
LEMMA ReadScript ==
  /\ Len(I2CRead(Reg, Num)) = Num + 4
  /\ \A k \in 1..3 : I2CRead(Reg, Num)[k] = Address(Reg)[k]
  /\ I2CRead(Reg, Num)[4] = Command(Device + 1, {"STA", "WR"})
  /\ \A n \in 1..Num : I2CRead(Reg, Num)[n + 4] =
       Command(None, IF n = Num THEN {"RD", "ACK", "STO"} ELSE {"RD"})
<1> DEFINE o == Address(Reg)
           c == Command(Device + 1, {"STA", "WR"})
           f == [n \in 1..(Num - 1) |-> Command(None, {"RD"})]
           z == Command(None, {"RD", "ACK", "STO"})
           S == {o[k] : k \in 1..3} \cup {c} \cup {f[n] : n \in 1..(Num - 1)} \cup {z}
<1>1. Num \in Nat /\ Num > 0 /\ Num - 1 \in Nat
  BY AppAssumption DEF AppAssumption
<1>2. I2CRead(Reg, Num) = (o \o <<c>>) \o f \o <<z>>
  BY <1>1 DEF I2CRead
<1>3. o \in Seq(S) /\ f \in Seq(S) /\ Len(f) = Num - 1 /\ z \in S /\ c \in S /\ Len(o) = 3
  BY <1>1, AddressIs
<1>4. \A n \in 1..(Num - 1) : f[n] = Command(None, {"RD"})
  OBVIOUS
<1>5. z = Command(None, {"RD", "ACK", "STO"}) /\ c = Command(Device + 1, {"STA", "WR"})
  OBVIOUS
<1> HIDE DEF o, c, f, z, S
<1>6. /\ o \o <<c>> \in Seq(S) /\ Len(o \o <<c>>) = 4
      /\ \A k \in 1..3 : (o \o <<c>>)[k] = o[k]
      /\ (o \o <<c>>)[4] = c
  <2>0. 3 + 1 = 4
    OBVIOUS
  <2>1. <<c>> \in Seq(S) /\ Len(<<c>>) = 1 /\ <<c>>[1] = c
    BY <1>3
  <2>2. /\ o \o <<c>> \in Seq(S) /\ Len(o \o <<c>>) = Len(o) + Len(<<c>>)
        /\ \A k \in 1..(Len(o) + Len(<<c>>)) :
             (o \o <<c>>)[k] = IF k <= Len(o) THEN o[k] ELSE <<c>>[k - Len(o)]
    BY <1>3, <2>1, ConcatProperties
  <2> QED BY <1>3, <2>1, <2>2
<1> DEFINE p == o \o <<c>>
<1> HIDE DEF p
<1>7. p \in Seq(S) /\ Len(p) = 4 /\ (\A k \in 1..3 : p[k] = o[k]) /\ p[4] = c
  BY <1>6 DEF p
<1>8. /\ Len(p \o f \o <<z>>) = Num + 4
      /\ \A k \in 1..4 : (p \o f \o <<z>>)[k] = p[k]
      /\ \A n \in 1..(Num - 1) : (p \o f \o <<z>>)[4 + n] = f[n]
      /\ (p \o f \o <<z>>)[4 + Num] = z
  <2>1. 4 + (Num - 1) + 1 = Num + 4 /\ 4 + (Num - 1) + 1 = 4 + Num
    BY <1>1
  <2>2. /\ p \o f \in Seq(S) /\ Len(p \o f) = Len(p) + Len(f)
        /\ \A k \in 1..(Len(p) + Len(f)) :
             (p \o f)[k] = IF k <= Len(p) THEN p[k] ELSE f[k - Len(p)]
    BY <1>3, <1>7, ConcatProperties
  <2> DEFINE q == p \o f
  <2>3. q \in Seq(S) /\ z \in S
    BY <1>3, <2>2
  <2> HIDE DEF q
  <2>4. /\ Len(q \o <<z>>) = Len(q) + 1
        /\ \A k \in 1..Len(q) : (q \o <<z>>)[k] = q[k]
        /\ (q \o <<z>>)[Len(q) + 1] = z
    BY <2>3, OneAppended
  <2> QED BY <1>1, <1>3, <1>7, <2>1, <2>2, <2>4 DEF q
<1>9. ASSUME NEW n \in 1..Num
      PROVE  (p \o f \o <<z>>)[n + 4] =
               Command(None, IF n = Num THEN {"RD", "ACK", "STO"} ELSE {"RD"})
  <2>1. n + 4 = 4 + n
    BY <1>1
  <2>2. CASE n = Num
    BY <1>5, <1>8, <2>1, <2>2
  <2>3. CASE n # Num
    <3>1. n \in 1..(Num - 1)
      BY <1>1, <2>3
    <3> QED BY <1>4, <1>8, <2>1, <2>3, <3>1
  <2> QED BY <2>2, <2>3
<1>10. I2CRead(Reg, Num) = p \o f \o <<z>>
  BY <1>2 DEF p
<1>11. (p \o f \o <<z>>)[4] = c /\ \A k \in 1..3 : (p \o f \o <<z>>)[k] = o[k]
  BY <1>7, <1>8
<1>12. \A k \in 1..3 : I2CRead(Reg, Num)[k] = Address(Reg)[k]
  BY <1>10, <1>11 DEF o
<1>13. I2CRead(Reg, Num)[4] = Command(Device + 1, {"STA", "WR"})
  BY <1>5, <1>10, <1>11
<1>14. /\ Len(I2CRead(Reg, Num)) = Num + 4
       /\ \A n \in 1..Num : I2CRead(Reg, Num)[n + 4] =
            Command(None, IF n = Num THEN {"RD", "ACK", "STO"} ELSE {"RD"})
  BY <1>8, <1>9, <1>10
<1> QED BY <1>12, <1>13, <1>14

(* The script of the call under way, command by command.                   *)
LEMMA ScriptIs ==
  ASSUME InDriver, a = Block
  PROVE  /\ Len(Script) = LengthOf(call)
         /\ \A k \in 1..LengthOf(call) : Script[k].byte = ByteOf(call, k) /\ Script[k].cmds = CmdsOf(call, k)
<1>1. Num \in Nat /\ Num > 0
  BY AppAssumption DEF AppAssumption
<1>2. \A v, w : Command(v, w).byte = v /\ Command(v, w).cmds = w
  BY DEF Command
<1>3. CASE call = "write"
  <2>1. Script = I2CWrite(Reg, Block, Num) /\ LengthOf(call) = Num + 3
    BY <1>3 DEF Script, LengthOf
  <2>2. ASSUME NEW k \in 1..(Num + 3)
        PROVE  /\ I2CWrite(Reg, Block, Num)[k].byte = ByteOf(call, k)
               /\ I2CWrite(Reg, Block, Num)[k].cmds = CmdsOf(call, k)
    <3>1. CASE k \in 1..3
      BY <1>1, <1>2, <1>3, <3>1, WriteScript, AddressIs DEF ByteOf, CmdsOf, StartsAt
    <3>2. CASE k > 3
      <4>1. k - 3 \in 1..Num /\ k = (k - 3) + 3 /\ k # 1 /\ k # 2 /\ k # 3
        BY <1>1, <3>2
      <4>2. I2CWrite(Reg, Block, Num)[k] =
              Command(Block[k - 3], IF k - 3 = Num THEN {"WR", "STO"} ELSE {"WR"})
        BY <4>1, WriteScript
      <4>3. k - 3 = Num <=> k = Num + 3
        BY <1>1
      <4>4. ByteOf(call, k) = Block[k - 3]
        BY <1>3, <4>1 DEF ByteOf
      <4>5. CmdsOf(call, k) = IF k - 3 = Num THEN {"WR", "STO"} ELSE {"WR"}
        BY <1>3, <4>1, <4>3 DEF CmdsOf, StartsAt
      <4> QED BY <1>2, <4>2, <4>4, <4>5
    <3> QED BY <3>1, <3>2
  <2> QED BY <2>1, <2>2, WriteScript
<1>4. CASE call = "read"
  <2>1. Script = I2CRead(Reg, Num) /\ LengthOf(call) = Num + 4
    BY <1>4 DEF Script, LengthOf
  <2>2. ASSUME NEW k \in 1..(Num + 4)
        PROVE  /\ I2CRead(Reg, Num)[k].byte = ByteOf(call, k)
               /\ I2CRead(Reg, Num)[k].cmds = CmdsOf(call, k)
    <3>1. CASE k \in 1..4
      BY <1>1, <1>2, <1>4, <3>1, ReadScript, AddressIs DEF ByteOf, CmdsOf, StartsAt
    <3>2. CASE k > 4
      <4>1. k - 4 \in 1..Num /\ k = (k - 4) + 4 /\ ~(k <= 3) /\ k # 1 /\ k # 2 /\ k # 3 /\ k # 4
        BY <1>1, <3>2
      <4>2. I2CRead(Reg, Num)[k] =
              Command(None, IF k - 4 = Num THEN {"RD", "ACK", "STO"} ELSE {"RD"})
        BY <4>1, ReadScript
      <4>3. k - 4 = Num <=> k = Num + 4
        BY <1>1
      <4>4. ByteOf(call, k) = None
        BY <1>4, <4>1 DEF ByteOf
      <4>5. CmdsOf(call, k) = IF k - 4 = Num THEN {"RD", "ACK", "STO"} ELSE {"RD"}
        BY <1>4, <4>1, <4>3 DEF CmdsOf, StartsAt
      <4> QED BY <1>2, <4>2, <4>4, <4>5
    <3> QED BY <3>1, <3>2
  <2> QED BY <2>1, <2>2, ReadScript
<1> QED BY <1>3, <1>4 DEF InDriver

(* Every command moves a byte; only the last has a STOP.                   *)
LEMMA CmdsAre ==
  ASSUME NEW c \in {"write", "read"}, NEW k \in 1..LengthOf(c)
  PROVE  /\ CmdsOf(c, k) \cap {"RD", "WR"} # {}
         /\ "STA" \in CmdsOf(c, k) <=> StartsAt(c, k)
         /\ "STO" \in CmdsOf(c, k) <=> k = LengthOf(c)
         /\ "RD" \in CmdsOf(c, k) <=> c = "read" /\ k > 4
         /\ "ACK" \in CmdsOf(c, k) <=> c = "read" /\ k = Num + 4
<1>1. Num \in Nat /\ Num > 0
  BY AppAssumption DEF AppAssumption
<1>2. CASE StartsAt(c, k)
  BY <1>1, <1>2 DEF CmdsOf, StartsAt, LengthOf
<1>3. CASE ~StartsAt(c, k) /\ c = "write"
  <2>1. LengthOf(c) = Num + 3
    BY <1>3 DEF LengthOf
  <2>2. CmdsOf(c, k) = IF k = Num + 3 THEN {"WR", "STO"} ELSE {"WR"}
    BY <1>3 DEF CmdsOf
  <2> QED BY <1>1, <1>3, <2>1, <2>2
<1>4. CASE ~StartsAt(c, k) /\ c = "read"
  <2>1. LengthOf(c) = Num + 4 /\ k # 4
    BY <1>4 DEF LengthOf, StartsAt
  <2>2. CASE k <= 3
    BY <1>1, <1>4, <2>1, <2>2 DEF CmdsOf
  <2>3. CASE k > 4
    <3>1. CmdsOf(c, k) = IF k = Num + 4 THEN {"RD", "ACK", "STO"} ELSE {"RD"}
      BY <1>4, <2>3 DEF CmdsOf
    <3>2. CASE k = Num + 4
      BY <1>1, <1>4, <2>1, <2>3, <3>1, <3>2
    <3>3. CASE k # Num + 4
      BY <1>1, <1>4, <2>1, <2>3, <3>1, <3>3
    <3> QED BY <3>2, <3>3
  <2> QED BY <2>1, <2>2, <2>3
<1> QED BY <1>2, <1>3, <1>4

-----------------------------------------------------------------------------
(* Where the driver and the core are.                                      *)

TxrOk == ByteOf(call, step) # None => txr = ByteOf(call, step)

ByteStateOf(c, k) == IF c = "read" /\ k > 4 THEN "st_read" ELSE "st_write"
StatesOf(c, k) ==
  {"st_idle", ByteStateOf(c, k)} \cup (IF StartsAt(c, k) THEN {"st_start"} ELSE {})

(* Outside the driver, with the STOP of the last call perhaps to come.     *)
Outside ==
  /\ call \in {"init", "sleep", "cpr", "report"} /\ step = 0 /\ at = "wait" /\ ~Tip
  /\ c_state \in {"st_idle", "st_stop"} /\ (call = "init" => c_state = "st_idle")

(* The driver prepares a command, the core carries it out, and is done.    *)
Prepares ==
  /\ call \in {"write", "read"} /\ step \in 1..LengthOf(call) /\ at \in {"txr", "cr"}
  /\ ~Tip /\ c_state = "st_idle" /\ (at = "cr" => TxrOk)
Runs ==
  /\ call \in {"write", "read"} /\ step \in 1..LengthOf(call) /\ at = "wait"
  /\ cr = CmdsOf(call, step) /\ TxrOk /\ c_state \in StatesOf(call, step)
Ran ==
  /\ call \in {"write", "read"} /\ step \in 0..LengthOf(call) /\ at = "wait"
  /\ ~Tip /\ (c_state = "st_idle" \/ (step = LengthOf(call) /\ c_state = "st_stop"))

Control ==
  /\ a = Block /\ (call # "init" => core_en = TRUE)
  /\ Outside \/ Prepares \/ Runs \/ Ran

(* While the core runs a command, SR.TIP is set.                           *)
LEMMA RunsTip == ASSUME Runs PROVE Tip
  BY CmdsAre DEF Runs, Tip

(* Each call has at least one command after the address.                   *)
LEMMA LengthNat ==
  /\ Num \in Nat /\ Num > 0
  /\ \A c : LengthOf(c) \in Nat /\ LengthOf(c) >= 4
  BY AppAssumption DEF AppAssumption, LengthOf

(* The driver waits for the end of a command before it gives the next.     *)
LEMMA ControlSoftware ==
  ASSUME Control, Software
  PROVE  Control'
<1> USE DEF InDriver
<1>1. CASE WriteTXR
  <2>1. Prepares /\ at = "txr"
    BY <1>1, RunsTip DEF WriteTXR, Control, Outside, Runs, Ran
  <2>2. Current.byte = ByteOf(call, step)
    BY <2>1, ScriptIs DEF Control, Prepares, Current
  <2>3. Prepares'
    BY <1>1, <2>1, <2>2 DEF WriteTXR, Prepares, TxrOk, Tip
  <2> QED BY <1>1, <2>3 DEF WriteTXR, Control
<1>2. CASE WriteCR
  <2>1. Prepares /\ at = "cr"
    BY <1>2, RunsTip DEF WriteCR, Control, Outside, Runs, Ran
  <2>2. Current.cmds = CmdsOf(call, step) /\ core_en = TRUE
    BY <2>1, ScriptIs DEF Control, Prepares, Current
  <2>3. Runs'
    BY <1>2, <2>1, <2>2 DEF WriteCR, Prepares, Runs, TxrOk, StatesOf
  <2> QED BY <1>2, <2>3 DEF WriteCR, Control
<1>3. CASE I2CWaitTIP
  <2>1. Ran
    BY <1>3, RunsTip DEF I2CWaitTIP, TIPDone, Control, Outside, Prepares
  <2>2. Len(Script) = LengthOf(call)
    BY <2>1, ScriptIs DEF Control, Ran
  <2>3. CASE step < LengthOf(call)
    <3>1. step' = step + 1 /\ at' = "txr" /\ call' = call /\ UNCHANGED core
      BY <1>3, <2>2, <2>3 DEF I2CWaitTIP
    <3>2. step + 1 \in 1..LengthOf(call) /\ c_state = "st_idle"
      BY <2>1, <2>3, LengthNat DEF Ran
    <3>3. Prepares'
      BY <2>1, <3>1, <3>2 DEF Ran, Prepares, core, Tip
    <3> QED BY <1>3, <3>1, <3>3 DEF I2CWaitTIP, Control, core
  <2>4. CASE ~(step < LengthOf(call))
    <3>1. step' = 0 /\ at' = "wait" /\ call' \in {"sleep", "cpr"} /\ UNCHANGED core
      BY <1>3, <2>2, <2>4 DEF I2CWaitTIP
    <3>2. Outside'
      BY <2>1, <3>1 DEF Ran, Outside, core, Tip
    <3> QED BY <1>3, <2>1, <3>1, <3>2 DEF I2CWaitTIP, Control, core, Ran
  <2> QED BY <2>3, <2>4
<1>4. CASE InitI2C
  <2>1. Outside /\ c_state = "st_idle"
    BY <1>4 DEF InitI2C, Control, Outside, Prepares, Runs, Ran
  <2>2. Ran'
    BY <1>4, <2>1, LengthNat DEF InitI2C, Outside, Ran, Tip
  <2> QED BY <1>4, <2>2 DEF InitI2C, Control
<1>5. CASE Sleep
  <2>1. Outside /\ c_state = "st_idle"
    BY <1>5 DEF Sleep, Control, Outside, Prepares, Runs, Ran
  <2>2. Ran' \/ Outside'
    BY <1>5, <2>1, LengthNat DEF Sleep, Outside, Ran, Tip, core
  <2> QED BY <1>5, <2>2 DEF Sleep, Control, core
<1>6. CASE Cpr
  <2>1. Outside
    BY <1>6 DEF Cpr, Control, Outside, Prepares, Runs, Ran
  <2>2. Outside'
    BY <1>6, <2>1 DEF Cpr, Outside, Tip, core
  <2> QED BY <1>6, <2>2 DEF Cpr, Control, core
<1> QED BY <1>1, <1>2, <1>3, <1>4, <1>5, <1>6 DEF Software

(* The core leaves a command only when it is done.                         *)
LEMMA ControlCore ==
  ASSUME Control, CoreStep, UNCHANGED app
  PROVE  Control'
<1>1. CASE Go
  <2>1. Runs /\ c_state = "st_idle"
    BY <1>1 DEF Go, Control, Outside, Prepares, Ran
  <2>2. c_state' = IF StartsAt(call, step) THEN "st_start" ELSE ByteStateOf(call, step)
    BY <1>1, <2>1, CmdsAre DEF Go, Runs, ByteState, ByteStateOf
  <2>3. Runs'
    BY <1>1, <2>1, <2>2 DEF Go, Runs, app, StatesOf, TxrOk
  <2> QED BY <1>1, <2>3 DEF Go, Control, app
<1>2. CASE StartDone
  <2>1. Runs /\ c_state = "st_start"
    BY <1>2 DEF StartDone, Control, Outside, Prepares, Ran
  <2>2. c_state' = ByteStateOf(call, step)
    BY <1>2, <2>1, CmdsAre DEF StartDone, Runs, ByteState, ByteStateOf
  <2>3. Runs'
    BY <1>2, <2>1, <2>2 DEF StartDone, Runs, app, StatesOf, TxrOk
  <2> QED BY <1>2, <2>3 DEF StartDone, Control, app
<1>3. CASE WriteByte \/ ReadByte
  <2>1. Runs
    BY <1>3 DEF WriteByte, ReadByte, Control, Outside, Prepares, Ran
  <2>2. ~Tip'
    BY <1>3 DEF WriteByte, ReadByte, CommandDone, Tip, Commands
  <2>3. c_state' = IF step = LengthOf(call) THEN "st_stop" ELSE "st_idle"
    BY <1>3, <2>1, CmdsAre DEF WriteByte, ReadByte, CommandDone, Runs
  <2>4. Ran'
    BY <2>1, <2>2, <2>3, LengthNat DEF Runs, Ran, app
  <2> QED BY <1>3, <2>4 DEF WriteByte, ReadByte, CommandDone, Control, app
<1>4. CASE StopDone
  <2>1. Ran \/ Outside
    BY <1>4 DEF StopDone, Control, Prepares, Runs, StatesOf, ByteStateOf
  <2>2. Ran' \/ Outside'
    BY <1>4, <2>1 DEF StopDone, Ran, Outside, app, Tip
  <2> QED BY <1>4, <2>2 DEF StopDone, Control, app
<1> QED BY <1>1, <1>2, <1>3, <1>4 DEF CoreStep

(* Driver and core stay in step.                                           *)
LEMMA ControlStep == Control /\ [AppNext]_appVars => Control'
<1> SUFFICES ASSUME Control, [AppNext]_appVars PROVE Control'
  OBVIOUS
<1>1. CASE UNCHANGED <<core, app>>
  <2>1. (Outside => Outside') /\ (Prepares => Prepares') /\ (Runs => Runs') /\ (Ran => Ran')
    BY <1>1 DEF core, app, Outside, Prepares, Runs, Ran, TxrOk, Tip
  <2> QED BY <1>1, <2>1 DEF Control, core, app
<1> QED BY <1>1, ControlSoftware, ControlCore DEF AppNext, appVars

(* They are at the start.                                                  *)
LEMMA ControlInit == AppInit => Control
  BY DEF AppInit, CoreInit, Control, Outside, Tip

-----------------------------------------------------------------------------
(* Addresses.                                                              *)

LEMMA DivMod ==
  ASSUME NEW n \in Int, NEW d \in Nat, d > 0
  PROVE  n \div d \in Int /\ n % d \in 0..(d - 1) /\ n = d * (n \div d) + (n % d)
<1>1. n \div d \in Int
  OBVIOUS
<1>2. n % d \in 0..(d - 1)
  OBVIOUS
<1>3. n = d * (n \div d) + (n % d)
  OBVIOUS
<1> QED BY <1>1, <1>2, <1>3

(* A multiple is at least as large as its divisor.                         *)
LEMMA Multiple ==
  ASSUME NEW d \in Nat, d > 0, NEW q \in Int, q > 0
  PROVE  d * q >= d
OBVIOUS

(* Products commute, and are integers.                                     *)
LEMMA Products ==
  ASSUME NEW d \in Int, NEW q \in Int, NEW w \in Int
  PROVE  /\ d * q \in Int /\ d * w \in Int /\ q * d = d * q
         /\ d * (q - w) = d * q - d * w /\ d * (q + w) = d * q + d * w
OBVIOUS

(* There is one quotient, and one remainder.                               *)
LEMMA OneQuotient ==
  ASSUME NEW d \in Nat, d > 0, NEW q \in Int, NEW w \in Int, NEW x \in 0..(d - 1), NEW y \in 0..(d - 1),
         d * q + x = d * w + y
  PROVE  q = w /\ x = y
<1>1. d * q \in Int /\ d * w \in Int
  BY Products
<1>2. ~(q > w)
  <2> SUFFICES ASSUME q > w PROVE FALSE
    OBVIOUS
  <2>1. d * (q - w) >= d
    BY Multiple
  <2>2. d * (q - w) = d * q - d * w
    BY Products
  <2>3. d * q - d * w = y - x
    BY <1>1
  <2> QED BY <2>1, <2>2, <2>3
<1>3. ~(w > q)
  <2> SUFFICES ASSUME w > q PROVE FALSE
    OBVIOUS
  <2>1. d * (w - q) >= d
    BY Multiple
  <2>2. d * (w - q) = d * w - d * q
    BY Products
  <2>3. d * w - d * q = x - y
    BY <1>1
  <2> QED BY <2>1, <2>2, <2>3
<1>4. q = w
  BY <1>2, <1>3
<1> QED BY <1>1, <1>4

(* What is n as a and x in the base d.                                     *)
LEMMA QuotientIs ==
  ASSUME NEW n \in Int, NEW d \in Nat, d > 0, NEW q \in Int, NEW x \in 0..(d - 1), n = d * q + x
  PROVE  n \div d = q /\ n % d = x
<1>1. n \div d \in Int /\ n % d \in 0..(d - 1) /\ n = d * (n \div d) + (n % d)
  BY DivMod
<1> QED BY <1>1, OneQuotient

(* The numbers among the constants.                                        *)
LEMMA Numbers ==
  ASSUME BlockFits
  PROVE  /\ Num \in Nat /\ Num > 0 /\ Reg \in Nat /\ Size \in Nat /\ Reg + Num <= Size
         /\ Page \in Nat /\ Page > 0 /\ (Reg % Page) + Num <= Page
         /\ ByteValues \in Nat /\ ByteValues > 0 /\ Device \in Nat
         /\ Block \in [1..Num -> 0..(ByteValues - 1)]
         /\ \A n \in 1..Num : Block[n] # None
  BY AppAssumption DEF BlockFits, AppAssumption, None

(* The two address bytes make the address.                                 *)
LEMMA AddressBytes ==
  ASSUME BlockFits
  PROVE  /\ High \in Int /\ Low \in Nat /\ High # None
         /\ (High * ByteValues) % Size = High * ByteValues
         /\ (High * ByteValues + Low) % Size = Reg
<1>0. /\ Num \in Nat /\ Num > 0 /\ Reg \in Nat /\ Size \in Nat /\ Reg + Num <= Size
      /\ ByteValues \in Nat /\ ByteValues > 0 /\ Reg \in Int
  BY Numbers
<1>1. High \in Int /\ Low \in 0..(ByteValues - 1) /\ Reg = ByteValues * High + Low
  BY <1>0, DivMod DEF High, Low
<1>2. High * ByteValues = ByteValues * High /\ ByteValues * High \in Int
  BY <1>1, <1>0, Products
<1>3. ByteValues * High \in 0..(Size - 1) /\ Reg \in 0..(Size - 1)
  <2>1. ~(High < 0)
    <3> SUFFICES ASSUME High < 0 PROVE FALSE
      OBVIOUS
    <3>1. -High \in Int /\ -High > 0
      BY <1>1
    <3>2. ByteValues * (-High) >= ByteValues
      BY <3>1, <1>0, Multiple
    <3>3. ByteValues * (-High) = -(ByteValues * High)
      BY <1>1, <1>0
    <3> QED BY <1>1, <1>2, <3>2, <3>3, <1>0
  <2>2. ByteValues * High >= 0
    <3>1. CASE High = 0
      BY <3>1, <1>0
    <3>2. CASE High > 0
      <4>1. ByteValues * High >= ByteValues
        BY <1>1, <3>2, <1>0, Multiple
      <4> QED BY <1>2, <4>1, <1>0
    <3> QED BY <1>1, <2>1, <3>1, <3>2
  <2> QED BY <1>1, <1>2, <2>2, <1>0
<1>4. Size \in Nat /\ Size > 0 /\ \A x \in 0..(Size - 1) : x % Size = x
  BY <1>0
<1>5. High # None
  <2> SUFFICES ASSUME High = -1 PROVE FALSE
    BY DEF None
  <2>1. ByteValues * High = -ByteValues
    BY <1>0
  <2> QED BY <1>3, <2>1, <1>0
<1> QED BY <1>1, <1>2, <1>3, <1>4, <1>5

(* The address counter stays in the page for the whole block.              *)
LEMMA NextInPage ==
  ASSUME BlockFits, NEW n \in Nat, n + 1 < Num
  PROVE  ((Reg + n) \div Page) * Page + ((Reg + n + 1) % Page) = Reg + n + 1
<1> DEFINE q == Reg \div Page
           r == Reg % Page
<1>0. /\ Num \in Nat /\ Reg \in Nat /\ Page \in Nat /\ Page > 0 /\ Reg \in Int
  BY Numbers
<1>1. q \in Int /\ r \in 0..(Page - 1) /\ Reg = Page * q + r
  BY <1>0, DivMod
<1>2. r + Num <= Page
  BY Numbers
<1> HIDE DEF q, r
<1>3. Page * q \in Int /\ q * Page = Page * q
  BY <1>1, <1>0, Products
<1>4. r + n \in 0..(Page - 1) /\ r + n + 1 \in 0..(Page - 1)
  BY <1>1, <1>2, <1>0
<1>5. Reg + n = Page * q + (r + n) /\ Reg + n + 1 = Page * q + (r + n + 1)
  BY <1>1, <1>3, <1>0
<1>6. Reg + n \in Int /\ Reg + n + 1 \in Int
  BY <1>0
<1>7. (Reg + n) \div Page = q
  BY <1>1, <1>4, <1>5, <1>6, <1>0, QuotientIs
<1>8. (Reg + n + 1) % Page = r + n + 1
  BY <1>1, <1>4, <1>5, <1>6, <1>0, QuotientIs
<1> QED BY <1>3, <1>4, <1>5, <1>7, <1>8

-----------------------------------------------------------------------------
(* What the EEPROM makes of it.                                            *)

(* After k bytes of call c.                                                *)
PhaseAfter(c, k) ==
  IF k = 0 THEN "none" ELSE IF k = 1 THEN "high" ELSE IF k = 2 THEN "low"
  ELSE IF k = 3 \/ c = "write" THEN "data"
  ELSE IF k < Num + 4 THEN "read" ELSE "none"

(* Bytes of the block among them.                                          *)
Moved(c, k) == IF k <= 3 THEN 0 ELSE IF c = "write" THEN k - 3 ELSE k - 4
Kept(c, k)  == IF c = "write" THEN Moved(c, k) ELSE 0

Latched(n) ==
  DOMAIN latch = Reg..(Reg + n - 1) /\ \A p \in DOMAIN latch : latch[p] = Block[p - Reg + 1]
Pointed(c, k) ==
  /\ k = 2 => ptr = High * ByteValues
  /\ k >= 3 /\ Moved(c, k) < Num => ptr = Reg + Moved(c, k)
BlockStored == \A n \in 1..Num : mem[Reg + n - 1] = Block[n]

After(c, k) ==
  /\ phase = PhaseAfter(c, k) /\ ~writing /\ Latched(Kept(c, k)) /\ Pointed(c, k)
Selected(c, k) ==
  /\ phase = "device" /\ ~writing /\ Latched(0) /\ Pointed(c, k)
Over(c) ==
  /\ phase = "none"
  /\ writing => c = "write" /\ Latched(Num)
  /\ ~writing => Latched(0) /\ BlockStored

LastCall == IF call = "sleep" THEN "write" ELSE "read"

Bus ==
  /\ Prepares => After(call, step - 1)
  /\ Runs => IF c_state = "st_write" /\ StartsAt(call, step)
             THEN Selected(call, step - 1) ELSE After(call, step - 1)
  /\ Ran => IF step = LengthOf(call) /\ c_state = "st_idle"
            THEN Over(call) ELSE After(call, step)
  /\ Outside /\ call = "init" => phase = "none" /\ ~writing /\ Latched(0)
  /\ Outside /\ call # "init" =>
       IF c_state = "st_idle" THEN Over(LastCall) ELSE After(LastCall, LengthOf(LastCall))
  /\ call \in {"read", "cpr", "report"} => BlockStored

(* An EEPROM that is not there says nothing.                               *)
Fitted ==
  /\ DOMAIN mem = 0..(Size - 1)
  /\ present => Bus
  /\ ~present => phase = "none" /\ ~writing

(* The four places exclude each other.                                     *)
LEMMA OnePlace ==
  /\ Prepares => ~Runs /\ ~Ran /\ ~Outside
  /\ Runs => ~Prepares /\ ~Ran /\ ~Outside
  /\ Ran => ~Prepares /\ ~Runs /\ ~Outside
  /\ Outside => ~Prepares /\ ~Runs /\ ~Ran
<1>1. Runs => Tip
  BY RunsTip
<1> QED BY <1>1 DEF Prepares, Runs, Ran, Outside

(* No byte has no address.                                                 *)
LEMMA NoAddress == ASSUME BlockFits PROVE Reg..(Reg + 0 - 1) = {}
  BY Numbers

(* Before the first byte.                                                  *)
LEMMA NoBytes ==
  ASSUME BlockFits
  PROVE  /\ \A c : Kept(c, 0) = 0 /\ Pointed(c, 0) /\ PhaseAfter(c, 0) = "none"
         /\ DOMAIN latch = {} => Latched(0)
         /\ Latched(0) => DOMAIN latch = {}
<1>1. Reg..(Reg + 0 - 1) = {}
  BY NoAddress
<1>2. \A c : Kept(c, 0) = 0
  BY DEF Kept, Moved
<1>3. \A c : Pointed(c, 0)
  BY DEF Pointed
<1>4. \A c : PhaseAfter(c, 0) = "none"
  BY DEF PhaseAfter
<1>5. /\ DOMAIN latch = {} => Latched(0)
      /\ Latched(0) => DOMAIN latch = {}
  BY <1>1 DEF Latched
<1> QED BY <1>2, <1>3, <1>4, <1>5

(* Nothing on the bus changes.                                             *)
LEMMA BusQuiet ==
  ASSUME UNCHANGED eeprom
  PROVE  /\ \A c, k : After(c, k) => After(c, k)'
         /\ \A c, k : Selected(c, k) => Selected(c, k)'
         /\ \A c : Over(c) => Over(c)'
         /\ BlockStored => BlockStored'
         /\ Latched(0) => Latched(0)'
         /\ phase' = phase /\ writing' = writing /\ mem' = mem /\ present' = present
  BY DEF eeprom, After, Selected, Over, BlockStored, Latched, Pointed
(* The software does not touch the bus: only the place changes.            *)
LEMMA BusSoftware ==
  ASSUME BlockFits, Control, Control', Bus, Software
  PROVE  Bus'
<1> USE DEF InDriver
<1>0. UNCHANGED eeprom
  BY DEF Software, WriteTXR, WriteCR, I2CWaitTIP, InitI2C, Sleep, Cpr
<1>1. CASE WriteTXR
  <2>1. Prepares /\ at = "txr"
    BY <1>1, RunsTip DEF WriteTXR, Control, Outside, Runs, Ran
  <2>2. Prepares' /\ call' = call /\ step' = step /\ call \in {"write", "read"}
    BY <1>1, <2>1 DEF WriteTXR, Prepares, TxrOk, Tip, Control, Outside, Runs, Ran
  <2>3. ~Runs' /\ ~Ran' /\ ~Outside'
    BY <2>2, OnePlace, PTL
  <2> QED BY <1>0, <2>1, <2>2, <2>3, BusQuiet DEF Bus
<1>2. CASE WriteCR
  <2>1. Prepares /\ at = "cr"
    BY <1>2, RunsTip DEF WriteCR, Control, Outside, Runs, Ran
  <2>2. /\ call' = call /\ step' = step /\ at' = "wait" /\ c_state' = "st_idle"
        /\ call \in {"write", "read"} /\ cr' = CmdsOf(call, step)
    <3>1. Current.cmds = CmdsOf(call, step) /\ core_en = TRUE
      BY <2>1, ScriptIs DEF Control, Prepares, Current
    <3> QED BY <1>2, <2>1, <3>1 DEF WriteCR, Prepares
  <2>3. Runs'
    <3>1. Tip'
      BY <2>1, <2>2, CmdsAre DEF Tip, Prepares
    <3> QED BY <2>2, <3>1 DEF Control, Outside, Prepares, Ran
  <2>4. ~Prepares' /\ ~Ran' /\ ~Outside'
    BY <2>3, OnePlace, PTL
  <2> QED BY <1>0, <2>1, <2>2, <2>3, <2>4, BusQuiet DEF Bus
<1>3. CASE I2CWaitTIP
  <2>1. Ran
    BY <1>3, RunsTip DEF I2CWaitTIP, TIPDone, Control, Outside, Prepares
  <2>2. Len(Script) = LengthOf(call) /\ LengthOf(call) \in Nat /\ LengthOf(call) >= 4
    BY <2>1, ScriptIs, LengthNat DEF Control, Ran
  <2>3. CASE step < LengthOf(call)
    <3>1. step' = step + 1 /\ at' = "txr" /\ call' = call
      BY <1>3, <2>2, <2>3 DEF I2CWaitTIP
    <3>2. Prepares'
      BY <2>1, <3>1 DEF Control, Outside, Runs, Ran
    <3>3. ~Runs' /\ ~Ran' /\ ~Outside'
      BY <3>2, OnePlace, PTL
    <3>4. After(call, step) /\ step' - 1 = step /\ (call = "read" => BlockStored)
      BY <2>1, <2>2, <2>3, <3>1 DEF Bus, Ran
    <3> QED BY <1>0, <2>1, <3>1, <3>2, <3>3, <3>4, BusQuiet DEF Bus, Ran
  <2>4. CASE ~(step < LengthOf(call))
    <3>1. step' = 0 /\ at' = "wait" /\ call' = (IF call = "write" THEN "sleep" ELSE "cpr")
          /\ c_state' = c_state
      BY <1>3, <2>2, <2>4 DEF I2CWaitTIP, core
    <3>2. Outside'
      BY <2>1, <3>1 DEF Control, Prepares, Runs, Ran
    <3>3. ~Runs' /\ ~Ran' /\ ~Prepares'
      BY <3>2, OnePlace, PTL
    <3>4. step = LengthOf(call) /\ LastCall' = call /\ call \in {"write", "read"}
      BY <2>1, <2>2, <2>4, <3>1 DEF Ran, LastCall
    <3>5. IF c_state = "st_idle" THEN Over(call) ELSE After(call, LengthOf(call))
      BY <2>1, <3>4 DEF Bus
    <3>6. IF c_state' = "st_idle" THEN Over(LastCall)' ELSE After(LastCall, LengthOf(LastCall))'
      BY <1>0, <3>1, <3>4, <3>5, BusQuiet DEF LengthOf
    <3>7. call' = "cpr" => BlockStored'
      BY <1>0, <2>1, <3>1, <3>4, BusQuiet DEF Bus
    <3> QED BY <3>1, <3>2, <3>3, <3>4, <3>6, <3>7 DEF Bus
  <2> QED BY <2>3, <2>4
<1>4. CASE InitI2C
  <2>1. Outside /\ call = "init" /\ call' = "write" /\ step' = 0 /\ at' = "wait" /\ cr' = cr
    BY <1>4 DEF InitI2C, Control, Outside, Prepares, Runs, Ran
  <2>2. Ran'
    BY <2>1 DEF Control, Outside, Prepares, Runs
  <2>3. ~Runs' /\ ~Outside' /\ ~Prepares'
    BY <2>2, OnePlace, PTL
  <2>4. After(call', 0)
    BY <2>1, NoBytes DEF Bus, After
  <2>5. After("write", 0)'
    BY <1>0, <2>1, <2>4, BusQuiet
  <2> QED BY <2>1, <2>2, <2>3, <2>5, LengthNat DEF Bus
<1>5. CASE Sleep
  <2>1. Outside /\ ~writing /\ c_state = "st_idle" /\ call' = (IF call = "sleep" THEN "read" ELSE "init")
        /\ step' = 0 /\ at' = "wait" /\ UNCHANGED core /\ call \in {"sleep", "report"}
    BY <1>5 DEF Sleep, Control, Outside, Prepares, Runs, Ran
  <2>2. Over(LastCall)
    BY <2>1 DEF Bus
  <2>3. phase = "none" /\ Latched(0) /\ BlockStored
    BY <2>1, <2>2 DEF Over
  <2>4. phase' = "none" /\ ~writing' /\ Latched(0)' /\ BlockStored'
    BY <1>0, <2>1, <2>3, BusQuiet
  <2>5. CASE call = "sleep"
    <3>1. Ran'
      BY <2>1, <2>5 DEF Control, Outside, Prepares, Runs
    <3>2. ~Runs' /\ ~Outside' /\ ~Prepares'
      BY <3>1, OnePlace, PTL
    <3>3. After("read", 0)
      BY <2>1, <2>3, NoBytes DEF After
    <3>4. After("read", 0)'
      BY <1>0, <3>3, BusQuiet
    <3> QED BY <2>1, <2>4, <2>5, <3>1, <3>2, <3>4, LengthNat DEF Bus
  <2>6. CASE call = "report"
    <3>1. Outside'
      BY <2>1, <2>6 DEF Control, Prepares, Runs, Ran
    <3>2. ~Runs' /\ ~Ran' /\ ~Prepares'
      BY <3>1, OnePlace, PTL
    <3> QED BY <2>1, <2>4, <2>6, <3>1, <3>2 DEF Bus
  <2> QED BY <2>1, <2>5, <2>6
<1>6. CASE Cpr
  <2>1. Outside /\ call = "cpr" /\ call' = "report" /\ c_state' = c_state /\ step' = 0 /\ at' = "wait"
    BY <1>6 DEF Cpr, Control, Outside, Prepares, Runs, Ran, core
  <2>2. Outside'
    BY <2>1 DEF Control, Prepares, Runs, Ran
  <2>3. ~Runs' /\ ~Ran' /\ ~Prepares'
    BY <2>2, OnePlace, PTL
  <2>4. LastCall = "read" /\ LastCall' = "read" /\ BlockStored
    BY <2>1 DEF LastCall, Bus
  <2>5. IF c_state = "st_idle" THEN Over("read") ELSE After("read", LengthOf("read"))
    BY <2>1, <2>4 DEF Bus
  <2>6. IF c_state' = "st_idle" THEN Over("read")' ELSE After("read", LengthOf("read"))'
    BY <1>0, <2>1, <2>5, BusQuiet
  <2>7. BlockStored'
    BY <1>0, <2>4, BusQuiet
  <2> QED BY <2>1, <2>2, <2>3, <2>4, <2>6, <2>7 DEF Bus
<1> QED BY <1>1, <1>2, <1>3, <1>4, <1>5, <1>6 DEF Software

(* A command begins: nothing is on the bus yet.                            *)
LEMMA BusGo ==
  ASSUME BlockFits, Control, Control', Bus, Go, UNCHANGED app
  PROVE  Bus'
<1>1. Runs /\ c_state = "st_idle"
  BY DEF Go, Control, Outside, Prepares, Ran
<1>2. /\ c_state' = IF StartsAt(call, step) THEN "st_start" ELSE ByteStateOf(call, step)
      /\ call' = call /\ step' = step /\ at' = at /\ cr' = cr /\ UNCHANGED eeprom
  BY <1>1, CmdsAre DEF Go, Runs, ByteState, ByteStateOf, app
<1>3. Runs'
  BY <1>1, <1>2, RunsTip DEF Control, Outside, Prepares, Runs, Ran, Tip
<1>4. ~Ran' /\ ~Outside' /\ ~Prepares'
  BY <1>3, OnePlace, PTL
<1>5. After(call, step - 1) /\ (call = "read" => BlockStored) /\ call \in {"write", "read"}
  BY <1>1 DEF Bus, Runs
<1>6. After(call, step - 1)' /\ (call = "read" => BlockStored')
  BY <1>2, <1>5, BusQuiet
<1>7. ~(c_state' = "st_write" /\ StartsAt(call, step))
  BY <1>2
<1> QED BY <1>2, <1>3, <1>4, <1>5, <1>6, <1>7 DEF Bus

(* A START selects the EEPROM anew; its address counter stays.             *)
LEMMA BusStarts ==
  ASSUME BlockFits, present, Control, Control', Bus, StartDone, UNCHANGED app
  PROVE  Bus'
<1>1. Runs /\ c_state = "st_start" /\ StartsAt(call, step)
  BY DEF StartDone, Control, Outside, Prepares, Ran, Runs, StatesOf, ByteStateOf
<1>2. /\ call' = call /\ step' = step /\ at' = at /\ cr' = cr
      /\ call \in {"write", "read"} /\ c_state' = "st_write"
  <2>1. c_state' = ByteStateOf(call, step)
    BY <1>1, CmdsAre DEF StartDone, Runs, ByteState, ByteStateOf
  <2>2. ByteStateOf(call, step) = "st_write"
    BY <1>1 DEF ByteStateOf, StartsAt
  <2> QED BY <1>1, <2>1, <2>2 DEF StartDone, app, Runs
<1>3. Runs'
  BY <1>1, <1>2, RunsTip DEF Control, Outside, Prepares, Runs, Ran, Tip
<1>4. ~Ran' /\ ~Outside' /\ ~Prepares'
  BY <1>3, OnePlace, PTL
<1>5. After(call, step - 1) /\ (call = "read" => BlockStored)
  BY <1>1 DEF Bus
<1>6. phase' = "device" /\ latch' = <<>> /\ ~writing' /\ ptr' = ptr /\ mem' = mem
  BY <1>5 DEF StartDone, BusStart, Answers, After
<1>7. Latched(0)'
  <2>1. DOMAIN latch' = {}
    BY <1>6
  <2> QED BY <2>1, NoAddress DEF Latched
<1>8. Selected(call, step - 1)'
  BY <1>2, <1>5, <1>6, <1>7 DEF Selected, After, Pointed
<1>9. call = "read" => BlockStored'
  BY <1>5, <1>6 DEF BlockStored
<1> QED BY <1>1, <1>2, <1>3, <1>4, <1>8, <1>9 DEF Bus

(* A STOP begins the write cycle, after a write.                           *)
LEMMA BusStops ==
  ASSUME BlockFits, Control, Control', Bus, StopDone, UNCHANGED app
  PROVE  Bus'
<1>1. c_state = "st_stop" /\ c_state' = "st_idle"
  BY DEF StopDone
<1>2. call' = call /\ step' = step /\ at' = at /\ cr' = cr /\ mem' = mem /\ latch' = latch
      /\ phase' = "none" /\ writing' = (phase = "data" /\ latch # <<>>)
  BY DEF StopDone, app, BusStop
<1>3. ASSUME NEW c \in {"write", "read"}, After(c, LengthOf(c)), c = "read" => BlockStored
      PROVE  Over(c)'
  <2>1. CASE c = "write"
    <3>1. phase = "data" /\ Latched(Num)
      BY <1>3, <2>1, LengthNat DEF After, PhaseAfter, Kept, Moved, LengthOf
    <3>2. Reg \in DOMAIN latch
      BY <3>1, Numbers DEF Latched
    <3>3. latch # <<>>
      BY <3>2
    <3>4. writing' /\ Latched(Num)'
      BY <1>2, <3>1, <3>3 DEF Latched
    <3> QED BY <1>2, <2>1, <3>4 DEF Over
  <2>2. CASE c = "read"
    <3>1. phase = "none" /\ Latched(0)
      BY <1>3, <2>2, LengthNat DEF After, PhaseAfter, Kept, LengthOf
    <3>2. ~writing' /\ Latched(0)' /\ BlockStored'
      BY <1>2, <1>3, <2>2, <3>1 DEF Latched, BlockStored
    <3> QED BY <1>2, <3>2 DEF Over
  <2> QED BY <2>1, <2>2
<1>4. call \in {"read", "cpr", "report"} => BlockStored /\ BlockStored'
  BY <1>2 DEF Bus, BlockStored
<1>5. CASE Ran
  <2>1. step = LengthOf(call) /\ call \in {"write", "read"} /\ After(call, LengthOf(call))
    BY <1>1, <1>5 DEF Ran, Bus
  <2>2. Over(call)'
    <3>1. PICK c \in {"write", "read"} : c = call
      BY <2>1
    <3>2. Over(c)'
      BY <1>3, <1>4, <2>1, <3>1
    <3> QED BY <1>2, <3>1, <3>2
  <2>3. Ran'
    BY <1>1, <1>2, <1>5 DEF Ran, Tip
  <2>4. ~Runs' /\ ~Outside' /\ ~Prepares'
    BY <2>3, OnePlace, PTL
  <2> QED BY <1>1, <1>2, <1>4, <2>1, <2>2, <2>3, <2>4 DEF Bus
<1>6. CASE Outside
  <2>1. call # "init" /\ LastCall' = LastCall /\ LastCall \in {"write", "read"}
        /\ (LastCall = "read" => call \in {"cpr", "report"})
    BY <1>1, <1>2, <1>6 DEF Outside, LastCall
  <2>2. After(LastCall, LengthOf(LastCall))
    BY <1>1, <1>6, <2>1 DEF Bus
  <2>3. Over(LastCall)'
    <3>1. PICK c \in {"write", "read"} : c = LastCall
      BY <2>1
    <3>2. Over(c)'
      BY <1>3, <1>4, <2>1, <2>2, <3>1
    <3> QED BY <2>1, <3>1, <3>2
  <2>4. Outside'
    BY <1>1, <1>2, <1>6, <2>1 DEF Outside, Tip
  <2>5. ~Runs' /\ ~Ran' /\ ~Prepares'
    BY <2>4, OnePlace, PTL
  <2> QED BY <1>1, <1>2, <1>4, <2>1, <2>3, <2>4, <2>5 DEF Bus
<1>7. Ran \/ Outside
  BY <1>1 DEF Control, Prepares, Runs, StatesOf, ByteStateOf
<1> QED BY <1>5, <1>6, <1>7

(* The end of a write cycle; there is none while a command runs.           *)
LEMMA BusCycle ==
  ASSUME BlockFits, Control, Bus, DOMAIN mem = 0..(Size - 1), WriteCycleEnds, UNCHANGED <<core, app>>
  PROVE  Bus'
<1>1. UNCHANGED <<call, step, at, cr, c_state, txr>>
  BY DEF core, app
<1>2. /\ (Outside' <=> Outside) /\ (Prepares' <=> Prepares)
      /\ (Runs' <=> Runs) /\ (Ran' <=> Ran) /\ LastCall' = LastCall
  BY <1>1 DEF Outside, Prepares, Runs, Ran, TxrOk, Tip, LastCall
<1>3. writing /\ ~writing' /\ phase' = phase /\ latch' = <<>>
      /\ mem' = [p \in DOMAIN mem |-> IF p \in DOMAIN latch THEN latch[p] ELSE mem[p]]
  BY DEF WriteCycleEnds
<1>4. ASSUME NEW c, Over(c)
      PROVE  c = "write" /\ Over(c)' /\ BlockStored'
  <2>1. c = "write" /\ Latched(Num) /\ phase = "none"
    BY <1>3, <1>4 DEF Over
  <2>2. Latched(0)'
    <3>1. DOMAIN latch' = {}
      BY <1>3
    <3> QED BY <3>1, NoAddress DEF Latched
  <2>3. ASSUME NEW n \in 1..Num PROVE mem'[Reg + n - 1] = Block[n]
    <3>1. Reg + n - 1 \in DOMAIN mem /\ Reg + n - 1 \in Reg..(Reg + Num - 1)
          /\ (Reg + n - 1) - Reg + 1 = n
      BY Numbers
    <3>2. Reg + n - 1 \in DOMAIN latch
      BY <2>1, <3>1 DEF Latched
    <3>3. latch[Reg + n - 1] = Block[n]
      BY <2>1, <3>1, <3>2 DEF Latched
    <3> QED BY <1>3, <3>1, <3>2, <3>3
  <2>4. BlockStored'
    BY <2>3 DEF BlockStored
  <2> QED BY <1>3, <2>1, <2>2, <2>4 DEF Over
<1>5. ~Prepares /\ ~Runs /\ ~(Outside /\ call = "init")
  BY <1>3 DEF Bus, After, Selected
<1>6. CASE Ran
  <2>1. step = LengthOf(call) /\ c_state = "st_idle" /\ Over(call)
    BY <1>3, <1>6 DEF Bus, After
  <2>2. call = "write" /\ Over(call)'
    <3>1. PICK c : c = call
      OBVIOUS
    <3>2. c = "write" /\ Over(c)'
      BY <1>4, <2>1, <3>1
    <3> QED BY <1>1, <3>1, <3>2
  <2> QED BY <1>1, <1>2, <1>6, <2>1, <2>2, OnePlace DEF Bus
<1>7. CASE Outside /\ call # "init"
  <2>1. c_state = "st_idle" /\ Over(LastCall)
    BY <1>3, <1>7 DEF Bus, After
  <2>2. LastCall = "write" /\ Over(LastCall)' /\ BlockStored'
    BY <1>2, <1>4, <2>1
  <2> QED BY <1>1, <1>2, <1>7, <2>1, <2>2, OnePlace DEF Bus
<1> QED BY <1>5, <1>6, <1>7 DEF Control

(* A byte of the master's, in the phases in which one is expected.         *)
LEMMA ByteTaken ==
  ASSUME NEW byte, BusWrite(byte), Device # Device + 1
  PROVE  /\ phase = "device" /\ byte = Device => phase' = "high" /\ ptr' = ptr /\ latch' = latch
         /\ phase = "device" /\ byte = Device + 1
              => phase' = "read" /\ ptr' = ptr /\ latch' = latch
         /\ phase = "high" => phase' = "low" /\ ptr' = (byte * ByteValues) % Size /\ latch' = latch
         /\ phase = "low" => phase' = "data" /\ ptr' = (ptr + byte) % Size /\ latch' = latch
         /\ phase = "data" => /\ phase' = "data" /\ ptr' = AheadInPage
                              /\ latch' = [p \in DOMAIN latch \cup {ptr} |->
                                             IF p = ptr THEN byte ELSE latch[p]]
         /\ phase = "none" => phase' = "none" /\ ptr' = ptr /\ latch' = latch
         /\ writing' = writing /\ mem' = mem /\ present' = present
<1>1. CASE phase = "device"
  <2>0. phase # "high" /\ phase # "low" /\ phase # "data" /\ phase # "none"
    BY <1>1
  <2>1. latch' = latch /\ writing' = writing /\ mem' = mem /\ present' = present
    BY <2>0 DEF BusWrite
  <2>2. ptr' = ptr
    BY <2>0 DEF BusWrite
  <2>3. byte = Device => phase' = "high"
    BY <1>1 DEF BusWrite
  <2>4. byte = Device + 1 => phase' = "read"
    BY <1>1 DEF BusWrite
  <2> QED BY <2>0, <2>1, <2>2, <2>3, <2>4
<1>2. CASE phase = "high"
  BY <1>2 DEF BusWrite
<1>3. CASE phase = "low"
  BY <1>3 DEF BusWrite
<1>4. CASE phase = "data"
  BY <1>4 DEF BusWrite
<1>5. CASE phase = "none"
  BY <1>5 DEF BusWrite
<1>6. writing' = writing /\ mem' = mem /\ present' = present
  BY DEF BusWrite
<1>7. CASE phase \notin {"device", "high", "low", "data", "none"}
  BY <1>6, <1>7
<1> QED BY <1>1, <1>2, <1>3, <1>4, <1>5, <1>7

(* A byte of the master, with the EEPROM fitted.                           *)
LEMMA BusWrites ==
  ASSUME BlockFits, present, Control, Control', Bus, WriteByte, UNCHANGED app
  PROVE  Bus'
<1>0. /\ Num \in Nat /\ Num > 0 /\ Reg \in Nat /\ Device \in Nat /\ Device # Device + 1
      /\ High # None /\ Low \in Nat
      /\ (High * ByteValues) % Size = High * ByteValues
      /\ (High * ByteValues + Low) % Size = Reg
  BY Numbers, AddressBytes
<1>1. Runs /\ c_state = "st_write" /\ call \in {"write", "read"} /\ step \in 1..LengthOf(call)
      /\ (call = "read" => step <= 4)
  BY LengthNat DEF WriteByte, Control, Outside, Prepares, Ran, Runs, StatesOf, ByteStateOf
<1>2. /\ call' = call /\ step' = step /\ at' = at /\ ~Tip'
      /\ c_state' = IF step = LengthOf(call) THEN "st_stop" ELSE "st_idle"
  BY <1>1, CmdsAre DEF WriteByte, CommandDone, Runs, app, Tip, Commands
<1>3. Ran'
  BY <1>1, <1>2, LengthNat DEF Runs, Ran
<1>4. ~Runs' /\ ~Outside' /\ ~Prepares'
  BY <1>3, OnePlace, PTL
<1>5. BusWrite(txr) /\ txr = ByteOf(call, step)
  <2>1. Device # None /\ Device + 1 # None /\ High # None /\ Low # None
    BY <1>0 DEF None
  <2>2. call = "write" /\ step > 3 => step - 3 \in 1..Num /\ Block[step - 3] # None
    BY <1>1, Numbers DEF LengthOf
  <2>3. ByteOf(call, step) # None
    BY <1>1, <2>1, <2>2 DEF ByteOf
  <2> QED BY <1>1, <2>3 DEF WriteByte, Runs, TxrOk
<1>6. /\ IF StartsAt(call, step) THEN Selected(call, step - 1) ELSE After(call, step - 1)
      /\ call = "read" => BlockStored
  BY <1>1 DEF Bus
<1>7. writing' = writing /\ mem' = mem /\ (call = "read" => BlockStored')
  BY <1>5, <1>6, <1>0, ByteTaken DEF BlockStored
<1>8. After(call, step)'
  <2>1. CASE step = 1
    <3>1. phase = "device" /\ ~writing /\ Latched(0)
      BY <1>6, <2>1 DEF StartsAt, Selected
    <3>2. phase' = "high" /\ latch' = latch
      <4>1. txr = Device
        BY <1>5, <2>1 DEF ByteOf
      <4> QED BY <1>5, <3>1, <4>1, <1>0, ByteTaken
    <3> QED BY <1>2, <1>7, <2>1, <3>1, <3>2 DEF After, PhaseAfter, Kept, Moved, Latched, Pointed
  <2>2. CASE step = 2
    <3>1. phase = "high" /\ ~writing /\ Latched(0)
      BY <1>6, <2>2 DEF StartsAt, After, PhaseAfter, Kept, Moved
    <3>2. phase' = "low" /\ latch' = latch /\ ptr' = High * ByteValues
      <4>1. txr = High
        BY <1>5, <2>2 DEF ByteOf
      <4> QED BY <1>0, <1>5, <3>1, <4>1, ByteTaken
    <3> QED BY <1>2, <1>7, <2>2, <3>1, <3>2 DEF After, PhaseAfter, Kept, Moved, Latched, Pointed
  <2>3. CASE step = 3
    <3>1. phase = "low" /\ ~writing /\ Latched(0) /\ ptr = High * ByteValues
      BY <1>6, <2>3 DEF StartsAt, After, PhaseAfter, Kept, Moved, Pointed
    <3>2. phase' = "data" /\ latch' = latch /\ ptr' = Reg
      <4>1. txr = Low
        BY <1>5, <2>3 DEF ByteOf
      <4> QED BY <1>0, <1>5, <3>1, <4>1, ByteTaken
    <3>3. ptr' = Reg + 0
      BY <1>0, <3>2
    <3> QED BY <1>2, <1>7, <2>3, <3>1, <3>2, <3>3 DEF After, PhaseAfter, Kept, Moved, Latched, Pointed
  <2>4. CASE step = 4 /\ call = "read"
    <3>1. phase = "device" /\ ~writing /\ Latched(0) /\ ptr = Reg + 0
      BY <1>0, <1>6, <2>4 DEF StartsAt, Selected, Pointed, Moved
    <3>3. phase' = "read" /\ latch' = latch /\ ptr' = Reg + 0
      <4>1. txr = Device + 1
        BY <1>5, <2>4 DEF ByteOf
      <4> QED BY <1>5, <3>1, <4>1, <1>0, ByteTaken
    <3>4. 4 - 4 = 0 /\ 4 < Num + 4
      BY <1>0
    <3> QED BY <1>2, <1>7, <2>4, <3>1, <3>3, <3>4 DEF After, PhaseAfter, Kept, Moved, Latched, Pointed
  <2>5. CASE step > 3 /\ call = "write"
    <3>0. PICK n : n = step - 4
      OBVIOUS
    <3>1. n \in 0..(Num - 1) /\ n \in Nat /\ step - 1 - 3 = n /\ step - 3 = n + 1 /\ step \in Nat
      BY <1>0, <1>1, <2>5, <3>0 DEF LengthOf
    <3>2. After(call, step - 1)
      BY <1>6, <2>5 DEF StartsAt
    <3>3. Moved(call, step - 1) = n
      BY <2>5, <3>1 DEF Moved
    <3>4. phase = "data" /\ ~writing /\ Latched(n) /\ ptr = Reg + n
      BY <2>5, <3>1, <3>2, <3>3, <1>0 DEF After, PhaseAfter, Kept, Pointed
    <3>5. ByteOf(call, step) = Block[n + 1]
      BY <2>5, <3>1 DEF ByteOf
    <3>6. phase' = "data" /\ ptr' = AheadInPage
          /\ latch' = [p \in DOMAIN latch \cup {ptr} |-> IF p = ptr THEN Block[n + 1] ELSE latch[p]]
      BY <1>5, <3>4, <3>5, <1>0, ByteTaken
    <3>7. Latched(n + 1)'
      <4>1. DOMAIN latch' = Reg..(Reg + (n + 1) - 1)
        BY <1>0, <3>1, <3>4, <3>6 DEF Latched
      <4>2. ASSUME NEW p \in DOMAIN latch' PROVE latch'[p] = Block[p - Reg + 1]
        <5>1. CASE p = ptr
          <6>1. p - Reg + 1 = n + 1
            BY <1>0, <3>1, <3>4, <5>1
          <6> QED BY <3>6, <5>1, <6>1
        <5>2. CASE p # ptr
          BY <3>4, <3>6, <5>2 DEF Latched
        <5> QED BY <5>1, <5>2
      <4> QED BY <4>1, <4>2 DEF Latched
    <3>8. n + 1 < Num => ptr' = Reg + (n + 1)
      <4> SUFFICES ASSUME n + 1 < Num PROVE ptr' = Reg + (n + 1)
        OBVIOUS
      <4>1. ((Reg + n) \div Page) * Page + ((Reg + n + 1) % Page) = Reg + n + 1
        BY <3>1, NextInPage
      <4>2. Reg + n + 1 = Reg + (n + 1)
        BY <1>0, <3>1
      <4> QED BY <3>4, <3>6, <4>1, <4>2 DEF AheadInPage
    <3>9. Moved(call, step) = n + 1 /\ PhaseAfter(call, step) = "data" /\ step # 2
      BY <2>5, <3>1 DEF Moved, PhaseAfter
    <3>10. Kept(call, step) = n + 1
      BY <2>5, <3>9 DEF Kept
    <3>11. Latched(Kept(call, step))'
      BY <1>2, <3>7, <3>10 DEF Latched, Kept, Moved
    <3>12. Pointed(call, step)'
      BY <1>2, <3>8, <3>9 DEF Pointed, Moved
    <3> QED BY <1>2, <1>7, <2>5, <3>4, <3>6, <3>9, <3>11, <3>12 DEF After, PhaseAfter
  <2> QED BY <1>1, <2>1, <2>2, <2>3, <2>4, <2>5
<1>9. ~(step = LengthOf(call) /\ c_state' = "st_idle")
  BY <1>2
<1> QED BY <1>1, <1>2, <1>3, <1>4, <1>7, <1>8, <1>9 DEF Bus

(* A byte of the EEPROM, which is the next one of the block.               *)
LEMMA BusReads ==
  ASSUME BlockFits, present, Control, Control', Bus, ReadByte, UNCHANGED app
  PROVE  Bus' /\ rxr' = Block[step - 4]
<1>0. /\ Num \in Nat /\ Num > 0 /\ Reg \in Nat /\ Size \in Nat /\ Reg + Num <= Size
  BY Numbers
<1>1. Runs /\ call = "read" /\ step \in 5..(Num + 4) /\ step \in Nat
  BY LengthNat DEF ReadByte, Control, Outside, Prepares, Ran, Runs, StatesOf, ByteStateOf, LengthOf
<1>2. /\ call' = call /\ step' = step /\ at' = at /\ ~Tip'
      /\ c_state' = IF step = LengthOf(call) THEN "st_stop" ELSE "st_idle"
  BY <1>1, CmdsAre DEF ReadByte, CommandDone, Runs, app, Tip, Commands
<1>3. Ran'
  BY <1>1, <1>2, LengthNat DEF Runs, Ran
<1>4. ~Runs' /\ ~Outside' /\ ~Prepares'
  BY <1>3, OnePlace, PTL
<1>5. After("read", step - 1) /\ BlockStored
  BY <1>1 DEF Bus, StartsAt
<1> DEFINE n == step - 5
<1>6. n \in 0..(Num - 1) /\ n \in Nat /\ step - 1 - 4 = n /\ step - 4 = n + 1 /\ n + 5 = step
  BY <1>1, <1>0
<1>7. phase = "read" /\ ~writing /\ Latched(0) /\ ptr = Reg + n
  <2>1. Moved("read", step - 1) = n /\ PhaseAfter("read", step - 1) = "read"
    BY <1>1, <1>6, <1>0 DEF Moved, PhaseAfter
  <2>2. n < Num /\ step - 1 >= 3
    BY <1>1, <1>6, <1>0
  <2> QED BY <1>5, <2>1, <2>2 DEF After, Kept, Pointed
<1> HIDE DEF n
<1>8. /\ phase' = (IF step = Num + 4 THEN "none" ELSE "read") /\ ptr' = Ahead
      /\ writing' = writing /\ latch' = latch /\ mem' = mem /\ rxr' = mem[ptr]
  <2>1. "ACK" \in cr <=> step = Num + 4
    BY <1>1, CmdsAre DEF Runs
  <2> QED BY <1>7, <2>1 DEF ReadByte, BusRead, Output
<1>9. mem[ptr] = Block[n + 1]
  <2>1. n + 1 \in 1..Num /\ Reg + (n + 1) - 1 = Reg + n
    BY <1>6, <1>0
  <2> QED BY <1>5, <1>7, <2>1 DEF BlockStored
<1>10. n + 1 < Num => ptr' = Reg + (n + 1)
  <2> SUFFICES ASSUME n + 1 < Num PROVE ptr' = Reg + (n + 1)
    OBVIOUS
  <2>1. Reg + n + 1 \in 0..(Size - 1) /\ Reg + n + 1 = Reg + (n + 1)
    BY <1>6, <1>0
  <2>2. (Reg + n + 1) % Size = Reg + n + 1
    BY <2>1, <1>0
  <2> QED BY <1>7, <1>8, <2>1, <2>2 DEF Ahead
<1>11. After("read", step)'
  <2>1. Moved("read", step) = n + 1 /\ step # 2
        /\ PhaseAfter("read", step) = IF step = Num + 4 THEN "none" ELSE "read"
    BY <1>1, <1>6, <1>0 DEF Moved, PhaseAfter
  <2> QED BY <1>2, <1>7, <1>8, <1>10, <2>1 DEF After, Kept, Pointed, Latched
<1>12. BlockStored'
  BY <1>5, <1>8 DEF BlockStored
<1>13. ~(step = LengthOf(call) /\ c_state' = "st_idle")
  BY <1>2
<1>14. Bus'
  BY <1>1, <1>2, <1>3, <1>4, <1>11, <1>12, <1>13 DEF Bus
<1> QED BY <1>6, <1>8, <1>9, <1>14

(* Without the EEPROM.                                                     *)
LEMMA BusAbsent ==
  ASSUME ~present, phase = "none", ~writing, [AppNext]_appVars
  PROVE  phase' = "none" /\ ~writing' /\ present' = present /\ mem' = mem
<1>1. CASE Software \/ UNCHANGED appVars
  BY <1>1 DEF Software, WriteTXR, WriteCR, I2CWaitTIP, InitI2C, Sleep, Cpr, eeprom, appVars
<1>2. CASE CoreStep
  <2>1. CASE Go
    BY <2>1 DEF Go, eeprom
  <2>2. CASE StartDone
    BY <2>2 DEF StartDone, BusStart, Answers
  <2>3. CASE WriteByte
    BY <2>3 DEF WriteByte, BusWrite
  <2>4. CASE ReadByte
    BY <2>4 DEF ReadByte, BusRead
  <2>5. CASE StopDone
    BY <2>5 DEF StopDone, BusStop
  <2> QED BY <1>2, <2>1, <2>2, <2>3, <2>4, <2>5 DEF CoreStep
<1>3. CASE WriteCycleEnds
  BY <1>3 DEF WriteCycleEnds
<1> QED BY <1>1, <1>2, <1>3 DEF AppNext

(* The EEPROM stays fitted or not, and of its size.                        *)
LEMMA MemoryStays ==
  [AppNext]_appVars => present' = present /\ DOMAIN mem' = DOMAIN mem
<1> SUFFICES ASSUME [AppNext]_appVars PROVE present' = present /\ DOMAIN mem' = DOMAIN mem
  OBVIOUS
<1>1. CASE Software \/ UNCHANGED appVars
  BY <1>1 DEF Software, WriteTXR, WriteCR, I2CWaitTIP, InitI2C, Sleep, Cpr, eeprom, appVars
<1>2. CASE CoreStep
  BY <1>2 DEF CoreStep, Go, StartDone, WriteByte, ReadByte, StopDone, eeprom,
              BusStart, BusWrite, BusRead, BusStop
<1>3. CASE WriteCycleEnds
  BY <1>3 DEF WriteCycleEnds
<1> QED BY <1>1, <1>2, <1>3 DEF AppNext

(* The bus is free at first.                                               *)
LEMMA FittedInit == ASSUME BlockFits PROVE AppInit => Fitted
<1> SUFFICES ASSUME AppInit PROVE Fitted
  OBVIOUS
<1>1. DOMAIN mem = 0..(Size - 1) /\ phase = "none" /\ ~writing /\ latch = <<>>
  BY DEF AppInit, EepromInit
<1>2. Latched(0)
  <2>1. DOMAIN latch = {}
    BY <1>1
  <2> QED BY <2>1, NoBytes
<1>3. Outside /\ call = "init"
  BY DEF AppInit, CoreInit, Outside, Tip
<1> QED BY <1>1, <1>2, <1>3, OnePlace DEF Fitted, Bus

(* The EEPROM makes of every byte what the driver means by it.             *)
LEMMA FittedStep ==
  ASSUME BlockFits, Control, Control', Fitted, [AppNext]_appVars
  PROVE  Fitted'
<1>1. present' = present /\ DOMAIN mem' = 0..(Size - 1)
  BY MemoryStays DEF Fitted
<1>2. CASE ~present
  BY <1>1, <1>2, BusAbsent DEF Fitted
<1>3. CASE present
  <2>1. Bus /\ DOMAIN mem = 0..(Size - 1)
    BY <1>3 DEF Fitted
  <2> SUFFICES Bus'
    BY <1>1, <1>3 DEF Fitted
  <2>2. CASE Software
    BY <2>1, <2>2, BusSoftware
  <2>3. CASE CoreStep /\ UNCHANGED app
    BY <1>3, <2>1, <2>3, BusGo, BusStarts, BusWrites, BusReads, BusStops DEF CoreStep
  <2>4. CASE WriteCycleEnds /\ UNCHANGED <<core, app>>
    BY <2>1, <2>4, BusCycle
  <2>5. CASE UNCHANGED appVars
    <3>1. UNCHANGED <<core, app, eeprom>>
      BY <2>5 DEF appVars
    <3>2. /\ (Outside' <=> Outside) /\ (Prepares' <=> Prepares)
          /\ (Runs' <=> Runs) /\ (Ran' <=> Ran) /\ LastCall' = LastCall
          /\ call' = call /\ step' = step /\ c_state' = c_state
      BY <3>1 DEF core, app, Outside, Prepares, Runs, Ran, TxrOk, Tip, LastCall
    <3>3. UNCHANGED eeprom
      BY <3>1
    <3>4. ASSUME NEW c, NEW k PROVE After(c, k) => After(c, k)'
      BY <3>3, BusQuiet
    <3> QED BY <2>1, <3>2, <3>3, BusQuiet DEF Bus
  <2> QED BY <2>2, <2>3, <2>4, <2>5 DEF AppNext
<1> QED BY <1>2, <1>3

-----------------------------------------------------------------------------
(* The STOP.                                                               *)

LEMMA StopIsFree ==
  ASSUME BlockFits, Control, Fitted
  PROVE  StopOnFreeLine
<1> SUFFICES ASSUME c_state = "st_stop", present PROVE phase # "read"
  BY DEF StopOnFreeLine, Fitted
<1>1. Ran \/ Outside
  BY DEF Control, Prepares, Runs, StatesOf, ByteStateOf
<1>2. ASSUME NEW c, After(c, LengthOf(c)) PROVE phase # "read"
  BY <1>2, LengthNat DEF After, PhaseAfter, LengthOf
<1>3. CASE Ran
  BY <1>2, <1>3 DEF Fitted, Bus, Ran
<1>4. CASE Outside
  BY <1>2, <1>4 DEF Fitted, Bus, Outside
<1> QED BY <1>1, <1>3, <1>4

-----------------------------------------------------------------------------
(* The report.                                                             *)

(* The order of the numbers is well-founded, so a set of them has a least. *)
NatLess == {s \in Nat \X Nat : s[1] < s[2]}

(* There is no endless descent.                                            *)
LEMMA NatLessWF == IsWellFoundedOn(NatLess, Nat)
  BY NatLessThanWellFounded DEF OpToRel, NatLess

(* The order is the usual one.                                             *)
LEMMA NatLessIs == \A x, y \in Nat : <<x, y>> \in NatLess <=> x < y
  BY DEF NatLess

(* Min is in its set.                                                      *)
LEMMA Least ==
  ASSUME NEW S, S \subseteq Nat, S # {}
  PROVE  Min(S) \in S
<1>1. PICK x \in S : \A y \in S : ~(<<y, x>> \in NatLess)
  BY NatLessWF, WFMin
<1>2. ASSUME NEW y \in S PROVE x <= y
  <2>1. ~(<<y, x>> \in NatLess)
    BY <1>1
  <2>2. x \in Nat /\ y \in Nat
    OBVIOUS
  <2>3. ~(y < x)
    BY <2>1, <2>2, NatLessIs
  <2> QED BY <2>2, <2>3
<1> QED BY <1>2 DEF Min

(* What cpr returns is 0 if and only if the arrays are equal.              *)
LEMMA FirstDifference ==
  ASSUME NEW f, NEW g
  PROVE  SelectInSeq([n \in 1..Num |-> f[n] # g[n]], LAMBDA differ : differ) = 0
           <=> \A n \in 1..Num : f[n] = g[n]
<1> DEFINE d == [n \in 1..Num |-> f[n] # g[n]]
           I == {n \in 1..Len(d) : d[n]}
<1>0. Num \in Nat
  BY LengthNat
<1>1. Len(d) = Num
  BY <1>0
<1>2. I = {n \in 1..Num : f[n] # g[n]}
  BY <1>1
<1>3. SelectInSeq(d, LAMBDA differ : differ) = IF I # {} THEN Min(I) ELSE 0
  BY DEF SelectInSeq
<1> HIDE DEF I, d
<1>4. I # {} => Min(I) # 0
  <2>1. I \subseteq Nat /\ 0 \notin I
    BY <1>0, <1>2
  <2> QED BY <2>1, Least
<1>5. I = {} <=> \A n \in 1..Num : f[n] = g[n]
  BY <1>2
<1> QED BY <1>3, <1>4, <1>5 DEF d

(* What a byte read is: with nobody on the bus, ones.                      *)
Got(n) == IF present THEN Block[n] ELSE Ones

Data ==
  /\ DOMAIN b = 1..Num
  /\ call = "read" => \A n \in 1..Num : n <= step - 5 => b[n] = Got(n)
  /\ Ran /\ call = "read" /\ step >= 5 => rxr = Got(step - 4)
  /\ call \in {"cpr", "report"} => \A n \in 1..Num : b[n] = Got(n)
  /\ call = "report" => (i = 0 <=> \A n \in 1..Num : Block[n] = b[n])

(* No byte is read yet.                                                    *)
LEMMA DataInit == AppInit => Data
  BY LengthNat DEF AppInit, Data, Ran

(* step counts the commands.                                               *)
LEMMA StepNat == Control => step \in Nat
  BY LengthNat DEF Control, Outside, Prepares, Runs, Ran

(* A step that leaves the program's data alone.                            *)
LEMMA DataQuiet ==
  ASSUME Data, UNCHANGED <<present, b, i, call, step>>,
         Ran' /\ call = "read" /\ step >= 5 => rxr' = Got(step - 4)
  PROVE  Data'
  BY DEF Data, Got

(* The byte just read goes to its place, and no other place changes.       *)
LEMMA DataSoftware ==
  ASSUME Control, Control', Data, Software
  PROVE  Data'
<1> USE DEF InDriver
<1>0. Num \in Nat /\ Num > 0 /\ step \in Nat /\ UNCHANGED present
  BY LengthNat, StepNat
     DEF Software, WriteTXR, WriteCR, I2CWaitTIP, InitI2C, Sleep, Cpr, eeprom
<1>1. CASE WriteTXR \/ WriteCR
  <2>1. CASE WriteTXR
    <3>1. ~Ran'
      BY <2>1 DEF WriteTXR, Ran
    <3> QED BY <1>0, <2>1, <3>1, DataQuiet DEF WriteTXR
  <2>2. CASE WriteCR
    <3>1. Prepares /\ at = "cr"
      BY <2>2, RunsTip DEF WriteCR, Control, Outside, Runs, Ran
    <3>2. Current.cmds = CmdsOf(call, step) /\ core_en = TRUE
      BY <3>1, ScriptIs DEF Control, Prepares, Current
    <3>3. Tip'
      BY <2>2, <3>1, <3>2, CmdsAre DEF WriteCR, Tip, Prepares
    <3>4. ~Ran'
      BY <3>3 DEF Ran
    <3> QED BY <1>0, <2>2, <3>4, DataQuiet DEF WriteCR
  <2> QED BY <1>1, <2>1, <2>2
<1>2. CASE I2CWaitTIP
  <2>1. Ran
    BY <1>2, RunsTip DEF I2CWaitTIP, TIPDone, Control, Outside, Prepares
  <2>2. Len(Script) = LengthOf(call) /\ call \in {"write", "read"} /\ step <= LengthOf(call)
    BY <1>0, <2>1, ScriptIs, LengthNat DEF Control, Ran
  <2>3. ~Ran' \/ call' # "read"
    BY <1>2, <2>2 DEF I2CWaitTIP, Ran
  <2>4. CASE call = "write"
    <3>1. b' = b /\ i' = i /\ call' \in {"write", "sleep"}
      BY <1>2, <2>4 DEF I2CWaitTIP
    <3> QED BY <3>1 DEF Data
  <2>5. CASE call = "read"
    <3>1. LengthOf(call) = Num + 4 /\ step - (Len(Script) - Num) = step - 4
      BY <1>0, <2>2, <2>5 DEF LengthOf
    <3>2. b' = IF step - 4 > 0 THEN [b EXCEPT ![step - 4] = rxr] ELSE b
      BY <1>2, <2>5, <3>1 DEF I2CWaitTIP
    <3>3. DOMAIN b' = 1..Num
      BY <3>2 DEF Data
    <3>4. ASSUME NEW n \in 1..Num, n <= step - 4 PROVE b'[n] = Got(n)
      <4>1. step - 4 > 0 /\ n \in DOMAIN b /\ step >= 5
        BY <1>0, <3>4 DEF Data
      <4>2. rxr = Got(step - 4)
        BY <2>1, <2>5, <4>1 DEF Data
      <4>3. CASE n = step - 4
        BY <3>2, <4>1, <4>2, <4>3
      <4>4. CASE n # step - 4
        <5>1. n <= step - 5
          BY <1>0, <3>4, <4>4
        <5> QED BY <2>5, <3>2, <4>1, <4>4, <5>1 DEF Data
      <4> QED BY <4>3, <4>4
    <3>5. \A n \in 1..Num : Got(n)' = Got(n)
      BY <1>0 DEF Got
    <3>6. CASE step < LengthOf(call)
      <4>1. step' = step + 1 /\ call' = "read"
        BY <1>2, <2>2, <2>5, <3>6 DEF I2CWaitTIP
      <4>2. step' - 5 = step - 4
        BY <1>0, <4>1
      <4> QED BY <2>3, <3>3, <3>4, <3>5, <4>1, <4>2 DEF Data
    <3>7. CASE ~(step < LengthOf(call))
      <4>1. step' = 0 /\ call' = "cpr"
        BY <1>2, <2>2, <2>5, <3>7 DEF I2CWaitTIP
      <4>2. \A n \in 1..Num : n <= step - 4
        BY <1>0, <2>2, <3>1, <3>7
      <4> QED BY <3>3, <3>4, <3>5, <4>1, <4>2 DEF Data
    <3> QED BY <3>6, <3>7
  <2> QED BY <2>2, <2>4, <2>5
<1>3. CASE InitI2C
  BY <1>3 DEF InitI2C, Data
<1>4. CASE Sleep
  <2>1. step = 0
    BY <1>4 DEF Sleep, Control, Outside, Prepares, Runs, Ran
  <2>2. step' = 0 /\ b' = b /\ i' = i /\ call' \in {"read", "init"}
    BY <1>4, <2>1 DEF Sleep
  <2> QED BY <1>0, <2>2 DEF Data
<1>5. CASE Cpr
  <2>1. b' = b /\ call = "cpr" /\ call' = "report" /\ a = Block
    BY <1>5 DEF Cpr, Control
  <2>2. i' = 0 <=> \A n \in 1..Num : a[n] = b[n]
    BY <1>5, FirstDifference DEF Cpr
  <2>3. \A n \in 1..Num : Got(n)' = Got(n)
    BY <1>0 DEF Got
  <2> QED BY <2>1, <2>2, <2>3 DEF Data
<1> QED BY <1>1, <1>2, <1>3, <1>4, <1>5 DEF Software

(* The core delivers one byte per command.                                 *)
LEMMA DataCore ==
  ASSUME BlockFits, Control, Control', Fitted, Data, CoreStep, UNCHANGED app
  PROVE  Data'
<1>0. UNCHANGED <<b, i, call, step, at>> /\ step \in Nat
  BY StepNat DEF app
<1>1. present' = present
  BY DEF CoreStep, Go, StartDone, WriteByte, ReadByte, StopDone, eeprom,
         BusStart, BusWrite, BusRead, BusStop
<1> SUFFICES ASSUME Ran', call = "read", step >= 5
             PROVE  rxr' = Got(step - 4)
  BY <1>0, <1>1, DataQuiet
<1>2. ~Tip'
  BY DEF Ran
<1>3. CASE Go
  BY <1>2, <1>3 DEF Go, Tip
<1>4. CASE StartDone
  <2>1. Tip
    BY <1>4, RunsTip DEF StartDone, Control, Outside, Prepares, Ran
  <2> QED BY <1>2, <1>4, <2>1 DEF StartDone, Tip
<1>5. CASE WriteByte
  <2>1. step <= 4
    BY <1>5, <1>0 DEF WriteByte, Control, Outside, Prepares, Ran, Runs, StatesOf, ByteStateOf
  <2> QED BY <1>0, <2>1
<1>6. CASE ReadByte
  <2>1. CASE present
    BY <1>6, <2>1, BusReads DEF Fitted, Got
  <2>2. CASE ~present
    BY <1>6, <2>2 DEF Fitted, ReadByte, Output, Got
  <2> QED BY <2>1, <2>2
<1>7. CASE StopDone
  <2>1. Ran
    BY <1>0, <1>7 DEF StopDone, Control, Outside, Prepares, Runs, StatesOf, ByteStateOf
  <2> QED BY <1>7, <2>1 DEF StopDone, Data
<1> QED BY <1>3, <1>4, <1>5, <1>6, <1>7 DEF CoreStep

(* Every step keeps the data right.                                        *)
LEMMA DataStep ==
  ASSUME BlockFits, Control, Control', Fitted, Data, [AppNext]_appVars
  PROVE  Data'
<1>1. CASE UNCHANGED <<core, app>> /\ present' = present
  <2>1. UNCHANGED <<b, i, call, step, at, rxr>> /\ (Ran' => Ran)
    BY <1>1 DEF core, app, Ran, Tip
  <2> QED BY <1>1, <2>1, DataQuiet DEF Data
<1>2. present' = present
  BY MemoryStays
<1> QED BY <1>1, <1>2, DataSoftware, DataCore DEF AppNext, appVars

(* Arrays that are equal were read from an EEPROM that is there.           *)
LEMMA ReportIsTrue ==
  ASSUME BlockFits, Control, Fitted, Data
  PROVE  ReportsTruly
<1> SUFFICES ASSUME call = "report"
             PROVE  /\ (i = 0 <=> present)
                    /\ present => \A n \in 1..Num : mem[Reg + n - 1] = a[n]
  BY DEF ReportsTruly
<1>1. i = 0 <=> \A n \in 1..Num : Block[n] = Got(n)
  BY DEF Data
<1>2. \E n \in 1..Num : Block[n] # Ones
  BY DEF BlockFits
<1>3. i = 0 <=> present
  BY <1>1, <1>2 DEF Got
<1>4. present => \A n \in 1..Num : mem[Reg + n - 1] = a[n]
  BY DEF Fitted, Bus, BlockStored, Control
<1> QED BY <1>3, <1>4

(* The three parts together are inductive.                                 *)
LEMMA AppInductive == ASSUME BlockFits PROVE AppSpec => [](Control /\ Fitted /\ Data)
<1>1. AppInit => Control /\ Fitted /\ Data
  BY ControlInit, FittedInit, DataInit
<1>2. Control /\ Fitted /\ Data /\ [AppNext]_appVars => (Control /\ Fitted /\ Data)'
  <2> SUFFICES ASSUME Control, Fitted, Data, [AppNext]_appVars
               PROVE  Control' /\ Fitted' /\ Data'
    OBVIOUS
  <2>1. Control'
    BY ControlStep
  <2> QED BY <2>1, FittedStep, DataStep
<1> QED BY <1>1, <1>2, PTL DEF AppSpec

(* The EEPROM has let go of the data line at every STOP (oc_i2c.c: I2CRead *)
(* acknowledges all bytes but the last), for a block of any length that    *)
(* lies in a page.                                                         *)
THEOREM StopsOnFreeLine == ASSUME BlockFits PROVE AppSpec => []StopOnFreeLine
<1>1. Control /\ Fitted => StopOnFreeLine
  BY StopIsFree
<1> QED BY <1>1, AppInductive, PTL

(* main prints "ok" if and only if the EEPROM is there, and then the block *)
(* is in it, although the driver never looks at an acknowledge bit: the    *)
(* wait on TIP before each command, and usleep after the last, are enough. *)
THEOREM ReportsAreTrue == ASSUME BlockFits PROVE AppSpec => []ReportsTruly
<1>1. Control /\ Fitted /\ Data => ReportsTruly
  BY ReportIsTrue
<1> QED BY <1>1, AppInductive, PTL
=============================================================================
