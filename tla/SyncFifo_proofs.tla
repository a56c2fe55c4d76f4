--------------------------- MODULE SyncFifo_proofs ---------------------------
(***************************************************************************)
(* The one-clock FIFO controller is a bounded FIFO, for every depth and    *)
(* every set of words.                                                     *)
(***************************************************************************)
EXTENDS SyncFifo, SequenceTheorems, TLAPS

IInv == TypeOK /\ AddressesAgree

-----------------------------------------------------------------------------
(* Addresses.                                                              *)

LEMMA AheadStep ==
  ASSUME NEW a \in Addresses, NEW n \in 0..(Depth - 1)
  PROVE  /\ Ahead(a, n) \in Addresses
         /\ Inc(a) \in Addresses
         /\ Ahead(Inc(a), n) = IF n = Depth - 1 THEN a ELSE Ahead(a, n + 1)
         /\ Inc(Ahead(a, n)) = Ahead(a, n + 1)
         /\ \A m \in 0..(Depth - 1) : m # n => Ahead(a, m) # Ahead(a, n)
  BY DepthAssumption DEF DepthAssumption, Addresses, Ahead, Inc

LEMMA AheadAll ==
  ASSUME NEW a \in Addresses
  PROVE  Ahead(a, 0) = a /\ Ahead(a, Depth) = a /\ Ahead(Inc(a), Depth) = Inc(a)
  BY DepthAssumption DEF DepthAssumption, Addresses, Ahead, Inc

-----------------------------------------------------------------------------
(* What a clock edge does, by whether a word goes in and whether one comes *)
(* out.                                                                    *)

In(d) ==
  /\ fifo_data_cnt < Depth
  /\ fifo_mem' = [fifo_mem EXCEPT ![fifo_wr_addr] = d]
  /\ fifo_wr_addr' = Inc(fifo_wr_addr)

NotIn == fifo_mem' = fifo_mem /\ fifo_wr_addr' = fifo_wr_addr

Out ==
  /\ fifo_data_cnt > 0
  /\ fifo_rd_data' = fifo_mem[fifo_rd_addr]
  /\ fifo_rd_addr' = Inc(fifo_rd_addr)

NotOut == fifo_rd_data' = fifo_rd_data /\ fifo_rd_addr' = fifo_rd_addr

PutStep(d)    == In(d) /\ NotOut /\ fifo_data_cnt' = fifo_data_cnt + 1
GetStep       == NotIn /\ Out /\ fifo_data_cnt' = fifo_data_cnt - 1
PutGetStep(d) == In(d) /\ Out /\ fifo_data_cnt' = fifo_data_cnt
IdleStep      == NotIn /\ NotOut /\ fifo_data_cnt' = fifo_data_cnt

LEMMA StepCases ==
  ASSUME TypeOK, [Next]_vars
  PROVE  \/ \E d \in Data : PutStep(d) \/ PutGetStep(d)
         \/ GetStep \/ IdleStep \/ Reset
<1>1. CASE UNCHANGED vars
  BY <1>1 DEF vars, IdleStep, NotIn, NotOut
<1>2. ASSUME NEW wr \in BOOLEAN, NEW rd \in BOOLEAN, NEW d \in Data, Tick(wr, rd, d)
      PROVE  PutStep(d) \/ PutGetStep(d) \/ GetStep \/ IdleStep
  <2>1. (wr /\ ~fifo_full => In(d)) /\ (~(wr /\ ~fifo_full) => NotIn)
    BY <1>2, DepthAssumption DEF Tick, In, NotIn, fifo_full, TypeOK, DepthAssumption
  <2>2. (rd /\ ~fifo_empty => Out) /\ (~(rd /\ ~fifo_empty) => NotOut)
    BY <1>2 DEF Tick, Out, NotOut, fifo_empty, TypeOK
  <2>3. CountWords(wr /\ ~fifo_full, rd /\ ~fifo_empty)
    BY <1>2 DEF Tick
  <2> QED BY <2>1, <2>2, <2>3 DEF CountWords, PutStep, PutGetStep, GetStep, IdleStep
<1> QED BY <1>1, <1>2 DEF Next

-----------------------------------------------------------------------------
LEMMA InvInit == Init => IInv
  BY DepthAssumption, DataAssumption
  DEF Init, IInv, TypeOK, AddressesAgree, Ahead, Addresses, DepthAssumption, DataAssumption

LEMMA InvNext == IInv /\ [Next]_vars => IInv'
<1> SUFFICES ASSUME IInv, [Next]_vars PROVE IInv'
  OBVIOUS
<1> USE DEF IInv, TypeOK, AddressesAgree
<1>1. ASSUME NEW d \in Data, PutStep(d) PROVE IInv'
  <2>1. fifo_data_cnt \in 0..(Depth - 1)
    BY <1>1, DepthAssumption DEF PutStep, In, DepthAssumption
  <2>2. fifo_wr_addr' = Ahead(fifo_rd_addr', fifo_data_cnt')
    BY <1>1, <2>1, AheadStep DEF PutStep, In, NotOut
  <2>3. TypeOK'
    BY <1>1, <2>1, AheadStep, DepthAssumption
    DEF PutStep, In, NotOut, DepthAssumption
  <2> QED BY <2>2, <2>3 DEF Ahead
<1>2. ASSUME GetStep PROVE IInv'
  <2>1. fifo_data_cnt \in 1..Depth /\ fifo_data_cnt - 1 \in 0..(Depth - 1)
    BY <1>2, DepthAssumption DEF GetStep, Out, DepthAssumption
  <2>2. fifo_wr_addr' = Ahead(fifo_rd_addr', fifo_data_cnt')
    BY <1>2, <2>1, AheadStep, AheadAll, DepthAssumption
    DEF GetStep, Out, NotIn, DepthAssumption
  <2>3. TypeOK'
    BY <1>2, <2>1, AheadStep, DepthAssumption
    DEF GetStep, Out, NotIn, DepthAssumption
  <2> QED BY <2>2, <2>3 DEF Ahead
<1>3. ASSUME NEW d \in Data, PutGetStep(d) PROVE IInv'
  <2>1. fifo_data_cnt \in 1..(Depth - 1)
    BY <1>3, DepthAssumption DEF PutGetStep, In, Out, DepthAssumption
  <2>2. fifo_wr_addr' = Ahead(fifo_rd_addr', fifo_data_cnt')
    BY <1>3, <2>1, AheadStep, AheadAll, DepthAssumption
    DEF PutGetStep, In, Out, DepthAssumption
  <2>3. TypeOK'
    BY <1>3, <2>1, AheadStep DEF PutGetStep, In, Out
  <2> QED BY <2>2, <2>3 DEF Ahead
<1>4. CASE IdleStep
  BY <1>4 DEF IdleStep, NotIn, NotOut, Ahead
<1>5. CASE Reset
  BY <1>5, DepthAssumption, DataAssumption
  DEF Reset, Ahead, Addresses, DepthAssumption, DataAssumption
<1> QED BY <1>1, <1>2, <1>3, <1>4, <1>5, StepCases

(* The registers stay in range: the counter, a bit wider than an address,  *)
(* never leaves 0..Depth.                                                  *)
THEOREM SyncFifoTypeCorrect == Spec => []TypeOK
<1>1. IInv => TypeOK
  BY DEF IInv
<1> QED BY <1>1, InvInit, InvNext, PTL DEF Spec

(* The two addresses and the counter agree.                                *)
THEOREM SyncFifoAddressesAgree == Spec => []AddressesAgree
<1>1. IInv => AddressesAgree
  BY DEF IInv
<1> QED BY <1>1, InvInit, InvNext, PTL DEF Spec

-----------------------------------------------------------------------------
(* The words stored.                                                       *)

StoredFacts ==
  /\ Stored \in Seq(Data)
  /\ Len(Stored) = fifo_data_cnt
  /\ \A i \in 1..fifo_data_cnt :
       Stored[i] = fifo_mem[Ahead(fifo_rd_addr, i - 1)]

LEMMA StoredWords == TypeOK => StoredFacts
<1> SUFFICES ASSUME TypeOK PROVE StoredFacts
  OBVIOUS
<1>1. \A i \in 1..fifo_data_cnt : fifo_mem[Ahead(fifo_rd_addr, i - 1)] \in Data
  <2> TAKE i \in 1..fifo_data_cnt
  <2>1. i - 1 \in 0..(Depth - 1) /\ fifo_rd_addr \in Addresses
    BY DepthAssumption DEF TypeOK, DepthAssumption
  <2>2. Ahead(fifo_rd_addr, i - 1) \in Addresses
    BY <2>1, AheadStep
  <2> QED BY <2>2 DEF TypeOK
<1>2. Stored \in [1..fifo_data_cnt -> Data] /\ fifo_data_cnt \in Nat
  BY <1>1, DepthAssumption DEF Stored, TypeOK, DepthAssumption
<1>3. Stored \in Seq(Data)
  BY <1>2, SeqDef
<1>4. Len(Stored) = fifo_data_cnt
  BY <1>2, <1>3, LenProperties
<1>5. \A i \in 1..fifo_data_cnt : Stored[i] = fifo_mem[Ahead(fifo_rd_addr, i - 1)]
  BY DEF Stored
<1> QED BY <1>3, <1>4, <1>5 DEF StoredFacts

LEMMA StoredWordsNext == (TypeOK => StoredFacts)'
  BY StoredWords, PTL

(* Cell i of the words stored after the step, for the three kinds of step. *)
LEMMA PutStored ==
  ASSUME IInv, IInv', NEW d \in Data, PutStep(d)
  PROVE  Stored' = Append(Stored, d)
<1>1. /\ fifo_data_cnt \in 0..(Depth - 1) /\ fifo_data_cnt' = fifo_data_cnt + 1
      /\ fifo_rd_addr' = fifo_rd_addr /\ fifo_rd_addr \in Addresses
  BY DepthAssumption DEF PutStep, In, NotOut, IInv, TypeOK, DepthAssumption
<1>2. /\ Stored \in Seq(Data) /\ Len(Stored) = fifo_data_cnt
      /\ Stored' \in Seq(Data) /\ Len(Stored') = fifo_data_cnt'
      /\ \A i \in 1..fifo_data_cnt' :
           Stored'[i] = fifo_mem'[Ahead(fifo_rd_addr, i - 1)]
  BY <1>1, StoredWords, StoredWordsNext DEF StoredFacts, IInv, Ahead
<1>3. ASSUME NEW i \in 1..fifo_data_cnt'
      PROVE  Stored'[i] = Append(Stored, d)[i]
  <2>1. i - 1 \in 0..(Depth - 1)
    BY <1>1, DepthAssumption DEF DepthAssumption
  <2>2. CASE i = fifo_data_cnt'
    <3>1. Stored'[i] = fifo_mem'[fifo_wr_addr]
      BY <1>1, <1>2, <2>2 DEF IInv, AddressesAgree
    <3> QED BY <1>1, <1>2, <2>2, <3>1, AppendProperties DEF PutStep, In, IInv, TypeOK
  <2>3. CASE i # fifo_data_cnt'
    <3>1. Ahead(fifo_rd_addr, i - 1) # fifo_wr_addr
      BY <1>1, <2>1, <2>3, AheadStep DEF IInv, AddressesAgree
    <3>2. Ahead(fifo_rd_addr, i - 1) \in Addresses
      BY <1>1, <2>1, AheadStep
    <3>3. Stored'[i] = fifo_mem[Ahead(fifo_rd_addr, i - 1)]
      BY <1>2, <3>1, <3>2 DEF PutStep, In, IInv, TypeOK
    <3>4. i \in 1..fifo_data_cnt
      BY <1>1, <2>3
    <3>5. Stored[i] = fifo_mem[Ahead(fifo_rd_addr, i - 1)]
      BY <3>4, StoredWords DEF IInv, StoredFacts
    <3> QED BY <1>2, <3>3, <3>4, <3>5, AppendProperties
  <2> QED BY <2>2, <2>3
<1>4. Append(Stored, d) \in Seq(Data) /\ Len(Append(Stored, d)) = fifo_data_cnt'
  BY <1>1, <1>2, AppendProperties
<1> QED BY <1>2, <1>3, <1>4, SeqEqual

LEMMA GetStored ==
  ASSUME IInv, IInv', GetStep
  PROVE  Stored # <<>> /\ Stored' = Tail(Stored) /\ fifo_rd_data' = Head(Stored)
<1>1. /\ fifo_data_cnt \in 1..Depth /\ fifo_data_cnt' = fifo_data_cnt - 1
      /\ fifo_rd_addr' = Inc(fifo_rd_addr) /\ fifo_rd_addr \in Addresses
      /\ fifo_mem' = fifo_mem
  BY DepthAssumption DEF GetStep, Out, NotIn, IInv, TypeOK, DepthAssumption
<1>2. /\ Stored \in Seq(Data) /\ Len(Stored) = fifo_data_cnt
      /\ Stored' \in Seq(Data) /\ Len(Stored') = fifo_data_cnt'
      /\ \A i \in 1..fifo_data_cnt :
           Stored[i] = fifo_mem[Ahead(fifo_rd_addr, i - 1)]
      /\ \A i \in 1..fifo_data_cnt' :
           Stored'[i] = fifo_mem[Ahead(Inc(fifo_rd_addr), i - 1)]
  BY <1>1, StoredWords, StoredWordsNext DEF StoredFacts, IInv, Ahead
<1>3. Stored # <<>>
  BY <1>1, <1>2, EmptySeq
<1>4. fifo_rd_data' = Head(Stored)
  <2>1. Head(Stored) = Stored[1]
    BY <1>2, <1>3
  <2>2. Stored[1] = fifo_mem[fifo_rd_addr]
    BY <1>1, <1>2, AheadAll
  <2> QED BY <2>1, <2>2 DEF GetStep, Out
<1>5. /\ Tail(Stored) \in Seq(Data) /\ Len(Tail(Stored)) = fifo_data_cnt'
      /\ \A i \in 1..fifo_data_cnt' : Tail(Stored)[i] = Stored[i + 1]
  BY <1>1, <1>2, <1>3, HeadTailProperties
<1>6. ASSUME NEW i \in 1..fifo_data_cnt' PROVE Stored'[i] = Tail(Stored)[i]
  <2>1. /\ i - 1 \in 0..(Depth - 1) /\ i - 1 # Depth - 1
        /\ i + 1 \in 1..fifo_data_cnt /\ (i + 1) - 1 = (i - 1) + 1
    BY <1>1, DepthAssumption DEF DepthAssumption
  <2>2. Ahead(Inc(fifo_rd_addr), i - 1) = Ahead(fifo_rd_addr, (i + 1) - 1)
    BY <1>1, <2>1, AheadStep
  <2> QED BY <1>2, <1>5, <2>1, <2>2
<1>7. Stored' = Tail(Stored)
  BY <1>2, <1>5, <1>6, SeqEqual
<1> QED BY <1>3, <1>4, <1>7

LEMMA PutGetStored ==
  ASSUME IInv, IInv', NEW d \in Data, PutGetStep(d)
  PROVE  /\ Stored # <<>> /\ Stored' = Append(Tail(Stored), d)
         /\ fifo_rd_data' = Head(Stored)
<1>1. /\ fifo_data_cnt \in 1..(Depth - 1) /\ fifo_data_cnt' = fifo_data_cnt
      /\ fifo_rd_addr' = Inc(fifo_rd_addr) /\ fifo_rd_addr \in Addresses
      /\ fifo_mem' = [fifo_mem EXCEPT ![fifo_wr_addr] = d]
  BY DepthAssumption DEF PutGetStep, In, Out, IInv, TypeOK, DepthAssumption
<1>2. /\ Stored \in Seq(Data) /\ Len(Stored) = fifo_data_cnt
      /\ Stored' \in Seq(Data) /\ Len(Stored') = fifo_data_cnt
      /\ \A i \in 1..fifo_data_cnt :
           Stored[i] = fifo_mem[Ahead(fifo_rd_addr, i - 1)]
      /\ \A i \in 1..fifo_data_cnt :
           Stored'[i] = fifo_mem'[Ahead(Inc(fifo_rd_addr), i - 1)]
  BY <1>1, StoredWords, StoredWordsNext DEF StoredFacts, IInv, Ahead
<1>3. Stored # <<>>
  BY <1>1, <1>2, EmptySeq
<1>4. fifo_rd_data' = Head(Stored)
  <2>1. Head(Stored) = Stored[1]
    BY <1>2, <1>3
  <2>2. Stored[1] = fifo_mem[fifo_rd_addr]
    BY <1>1, <1>2, AheadAll
  <2> QED BY <2>1, <2>2 DEF PutGetStep, Out
<1>5. /\ Tail(Stored) \in Seq(Data) /\ Len(Tail(Stored)) = fifo_data_cnt - 1
      /\ \A i \in 1..(fifo_data_cnt - 1) : Tail(Stored)[i] = Stored[i + 1]
  BY <1>1, <1>2, <1>3, HeadTailProperties
<1> DEFINE A == Append(Tail(Stored), d)
<1>6. /\ A \in Seq(Data) /\ Len(A) = fifo_data_cnt
      /\ A[fifo_data_cnt] = d
      /\ \A i \in 1..(fifo_data_cnt - 1) : A[i] = Stored[i + 1]
  BY <1>1, <1>5, AppendProperties
<1>7. ASSUME NEW i \in 1..fifo_data_cnt PROVE Stored'[i] = A[i]
  <2>1. /\ i - 1 \in 0..(Depth - 1) /\ i - 1 # Depth - 1 /\ (i - 1) + 1 = i
        /\ i \in 0..(Depth - 1) /\ fifo_data_cnt \in 0..(Depth - 1)
    BY <1>1, DepthAssumption DEF DepthAssumption
  <2>2. Ahead(Inc(fifo_rd_addr), i - 1) = Ahead(fifo_rd_addr, i)
    BY <1>1, <2>1, AheadStep
  <2>3. Ahead(fifo_rd_addr, i) \in Addresses
    BY <1>1, <2>1, AheadStep
  <2>4. CASE i = fifo_data_cnt
    <3>1. Ahead(fifo_rd_addr, i) = fifo_wr_addr
      BY <2>4 DEF IInv, AddressesAgree
    <3> QED BY <1>1, <1>2, <1>6, <2>2, <2>3, <2>4, <3>1 DEF IInv, TypeOK
  <2>5. CASE i # fifo_data_cnt
    <3>1. Ahead(fifo_rd_addr, i) # fifo_wr_addr
      BY <1>1, <2>1, <2>5, AheadStep DEF IInv, AddressesAgree
    <3>2. Stored'[i] = fifo_mem[Ahead(fifo_rd_addr, i)]
      BY <1>1, <1>2, <2>2, <2>3, <3>1 DEF IInv, TypeOK
    <3>3. i \in 1..(fifo_data_cnt - 1) /\ i + 1 \in 1..fifo_data_cnt /\ (i + 1) - 1 = i
      BY <1>1, <2>5
    <3>4. Stored[i + 1] = fifo_mem[Ahead(fifo_rd_addr, i)]
      BY <1>2, <3>3
    <3> QED BY <1>6, <3>2, <3>3, <3>4
  <2> QED BY <2>4, <2>5
<1>8. Stored' = A
  BY <1>2, <1>6, <1>7, SeqEqual
<1> QED BY <1>3, <1>4, <1>8

LEMMA EmptyStored == TypeOK /\ fifo_data_cnt = 0 => Stored = <<>>
<1> SUFFICES ASSUME TypeOK, fifo_data_cnt = 0 PROVE Stored = <<>>
  OBVIOUS
<1>1. Stored \in Seq(Data) /\ Len(Stored) = 0
  BY StoredWords DEF StoredFacts
<1> QED BY <1>1, EmptySeq

LEMMA EmptyStoredNext == (TypeOK /\ fifo_data_cnt = 0 => Stored = <<>>)'
  BY EmptyStored, PTL

-----------------------------------------------------------------------------
(* The controller implements a bounded FIFO: no pattern of reads, writes   *)
(* and resets loses, repeats or reorders a word.                           *)
THEOREM SyncFifoIsFifo == Spec => IsFifo
<1>1. Init => Fifo!Init
  <2> SUFFICES ASSUME Init PROVE Fifo!Init
    OBVIOUS
  <2>1. TypeOK /\ fifo_data_cnt = 0 /\ fifo_rd_data = Zero
    BY InvInit DEF IInv, Init
  <2> QED BY <2>1, EmptyStored DEF Fifo!Init
<1>2. IInv /\ IInv' /\ [Next]_vars => [Fifo!Next]_(Fifo!vars)
  <2> SUFFICES ASSUME IInv, IInv', [Next]_vars
               PROVE  [Fifo!Next]_<<Stored, fifo_rd_data>>
    BY DEF Fifo!vars
  <2>0. Len(Stored) = fifo_data_cnt
    BY StoredWords DEF IInv, StoredFacts
  <2>1. ASSUME NEW d \in Data, PutStep(d) PROVE Fifo!Put(d)
    BY <2>0, <2>1, PutStored DEF Fifo!Put, PutStep, In, NotOut
  <2>2. CASE GetStep
    BY <2>2, GetStored DEF Fifo!Next, Fifo!Get
  <2>3. ASSUME NEW d \in Data, PutGetStep(d) PROVE Fifo!PutGet(d)
    BY <2>0, <2>3, PutGetStored DEF Fifo!PutGet, PutGetStep, In
  <2>4. CASE IdleStep
    <3>1. Stored' = Stored
      BY <2>4 DEF IdleStep, NotIn, NotOut, Stored, Ahead
    <3> QED BY <2>4, <3>1 DEF IdleStep, NotOut
  <2>5. CASE Reset
    BY <2>5, EmptyStoredNext DEF Reset, IInv, Fifo!Next, Fifo!Clear
  <2> QED BY <2>1, <2>2, <2>3, <2>4, <2>5, StepCases DEF Fifo!Next, IInv
<1> QED BY <1>1, <1>2, InvInit, InvNext, PTL DEF Spec, IsFifo, Fifo!Spec
=============================================================================
