------------------------------ MODULE SyncFifo -------------------------------
(***************************************************************************)
(* S06_FIFO/code/SYNC_FIFO_CTRL.v: a FIFO of one clock made of a memory,   *)
(* two addresses and a counter of the words stored.  Reads and writes may  *)
(* come in the same clock; a write to a full FIFO and a read of an empty   *)
(* one are refused.                                                        *)
(***************************************************************************)
EXTENDS Integers, Sequences

CONSTANTS
  Data,   \* the words
  Zero,   \* the word of all zeros
  Depth   \* 2 ^ FIFO_ADDR_WIDTH

ASSUME DataAssumption == Zero \in Data

ASSUME DepthAssumption == Depth \in Nat /\ Depth >= 2

VARIABLES
  fifo_mem, fifo_rd_addr, fifo_wr_addr, fifo_data_cnt, fifo_rd_data

vars == <<fifo_mem, fifo_rd_addr, fifo_wr_addr, fifo_data_cnt, fifo_rd_data>>

Addresses == 0..(Depth - 1)

(* An address wraps at its width.                                          *)
Inc(addr) == IF addr = Depth - 1 THEN 0 ELSE addr + 1

(* Faulty form: the FIFO is full only above its size.                      *)
LateFull == fifo_data_cnt = Depth + 1

fifo_empty == fifo_data_cnt = 0
fifo_full  == fifo_data_cnt = Depth

(* What the memory holds at power-up is not known.                         *)
Init ==
  /\ fifo_mem \in [Addresses -> Data]
  /\ fifo_rd_addr = 0 /\ fifo_wr_addr = 0 /\ fifo_data_cnt = 0
  /\ fifo_rd_data = Zero

CountWords(write, read) ==
  fifo_data_cnt' = IF write /\ ~read THEN fifo_data_cnt + 1
                   ELSE IF read /\ ~write THEN fifo_data_cnt - 1
                   ELSE fifo_data_cnt

Tick(fifo_wr_en, fifo_rd_en, fifo_wr_data) ==
  LET write == fifo_wr_en /\ ~fifo_full
      read  == fifo_rd_en /\ ~fifo_empty
  IN /\ fifo_mem' = IF write THEN [fifo_mem EXCEPT ![fifo_wr_addr] = fifo_wr_data]
                    ELSE fifo_mem
     /\ fifo_wr_addr' = IF write THEN Inc(fifo_wr_addr) ELSE fifo_wr_addr
     /\ fifo_rd_addr' = IF read THEN Inc(fifo_rd_addr) ELSE fifo_rd_addr
     /\ fifo_rd_data' = IF read THEN fifo_mem[fifo_rd_addr] ELSE fifo_rd_data
     /\ CountWords(write, read)

(* The loop of the reset (l.79) ends at index 0: the other words stay.     *)
Reset ==
  /\ fifo_mem' = [fifo_mem EXCEPT ![0] = Zero]
  /\ fifo_rd_addr' = 0 /\ fifo_wr_addr' = 0 /\ fifo_data_cnt' = 0
  /\ fifo_rd_data' = Zero

Next ==
  \/ \E fifo_wr_en, fifo_rd_en \in BOOLEAN, fifo_wr_data \in Data :
       Tick(fifo_wr_en, fifo_rd_en, fifo_wr_data)
  \/ Reset

Spec == Init /\ [][Next]_vars

-----------------------------------------------------------------------------
TypeOK ==
  /\ fifo_mem \in [Addresses -> Data]
  /\ fifo_rd_addr \in Addresses /\ fifo_wr_addr \in Addresses
  /\ fifo_data_cnt \in 0..Depth
  /\ fifo_rd_data \in Data

(* The three registers agree: the write address is the read address moved  *)
(* on by the words counted, although each is kept by a process of its own  *)
(* (l.99, 112, 125).                                                       *)
Ahead(addr, n) == IF addr + n >= Depth THEN addr + n - Depth ELSE addr + n
AddressesAgree == fifo_wr_addr = Ahead(fifo_rd_addr, fifo_data_cnt)

(* The controller is a bounded FIFO: the words stored are those from the   *)
(* read address on.  In particular a read and a write in one clock of an   *)
(* almost empty or almost full FIFO lose no word and invent none.          *)
Stored == [i \in 1..fifo_data_cnt |-> fifo_mem[Ahead(fifo_rd_addr, i - 1)]]
Fifo == INSTANCE BoundedFifo WITH queue <- Stored, out <- fifo_rd_data
IsFifo == Fifo!Spec
=============================================================================
