----------------------------- MODULE Sdram_proofs -----------------------------
(***************************************************************************)
(* Proofs about the SDRAM of the video system, for every value of the      *)
(* parameters: the state controller by itself, the pins in front of the    *)
(* chip, the path that reads the picture out of it and, last, the path     *)
(* that writes the camera's picture into it.                               *)
(***************************************************************************)
EXTENDS SdramTop, VideoRead, VideoWrite, FiniteSetTheorems, TLAPS

(* The counter of a wait state has not passed the value that ends it.      *)
CounterInRange ==
  /\ work_state = "TRCD" => cnt_clk \in 1..(TRCD - 1)
  /\ work_state = "CL"   => cnt_clk <= TCL - 1
  /\ work_state = "RD"   => cnt_clk <= RdByte + 2
  /\ work_state = "WD"   => cnt_clk <= WrByte - 1
  /\ work_state = "TDAL" => cnt_clk <= TDAL
  /\ work_state = "TRFC" => cnt_clk <= TRFC

(* The direction register agrees with the states of each operation, and no *)
(* operation runs before the initialisation is done.                       *)
DirectionMatches ==
  /\ work_state \in {"READ", "CL", "RD", "AR", "TRFC"} => sys_r_wn
  /\ work_state \in {"WRITE", "WD", "TDAL"} => ~sys_r_wn
  /\ ~init_done => work_state = "IDLE"

CtrlInv == CtrlTypeOK /\ CounterInRange /\ DirectionMatches /\ CounterCleared

-----------------------------------------------------------------------------
LEMMA InitTyped ==
  ASSUME CtrlInit
  PROVE  CtrlTypeOK
<1>1. cnt_200us \in 0..PowerUp /\ cnt_15us \in 0..(RefPeriod - 1)
  BY TimingAssumption DEF TimingAssumption, CtrlInit
<1>2. init_state \in I_States /\ work_state \in W_States
  BY DEF CtrlInit, I_NOP, I_States, W_States
<1>3. ref_req \in BOOLEAN /\ sys_r_wn \in BOOLEAN
  BY DEF CtrlInit
<1>4. cnt_clk \in 0..511 /\ acks \in Nat
  BY DEF CtrlInit
<1> QED
  BY <1>1, <1>2, <1>3, <1>4 DEF CtrlTypeOK

LEMMA InitFsmTyped ==
  ASSUME CtrlTypeOK, InitFsm
  PROVE  init_state' \in I_States
  BY DEF CtrlTypeOK, InitFsm, I_States, I_NOP, I_PRE, I_Issue, I_MRS, I_AR,
         I_Wait, end_init

(* The working state machine stays in its states and keeps a Boolean       *)
(* direction.                                                              *)
LEMMA WorkFsmTyped ==
  ASSUME CtrlTypeOK, NEW wr \in BOOLEAN, NEW rd \in BOOLEAN, WorkFsm(wr, rd)
  PROVE  work_state' \in W_States /\ sys_r_wn' \in BOOLEAN
  BY DEF CtrlTypeOK, WorkFsm, GrantRefresh, GrantWrite, GrantRead, StayIdle,
         RunOperation, Move, Column, W_States

LEMMA TickTyped ==
  ASSUME CtrlTypeOK, NEW wr \in BOOLEAN, NEW rd \in BOOLEAN, CtrlTick(wr, rd)
  PROVE  CtrlTypeOK'
<1>1. init_state' \in I_States
  BY InitFsmTyped DEF CtrlTick
<1>2. work_state' \in W_States /\ sys_r_wn' \in BOOLEAN
  BY WorkFsmTyped DEF CtrlTick
<1>3. cnt_200us' \in 0..PowerUp
  BY TimingAssumption DEF TimingAssumption, CtrlTypeOK, CtrlTick, PowerUpTimer
<1>4. cnt_15us' \in 0..(RefPeriod - 1) /\ ref_req' \in BOOLEAN
  BY TimingAssumption DEF TimingAssumption, CtrlTypeOK, CtrlTick, RefreshTimer, ref_ack
<1>5. cnt_clk' \in 0..511
  BY DEF CtrlTypeOK, CtrlTick, DelayCounter
<1>6. acks' \in Nat
  BY DEF CtrlTypeOK, CtrlTick, CountAcks
<1> QED
  BY <1>1, <1>2, <1>3, <1>4, <1>5, <1>6 DEF CtrlTypeOK

LEMMA ResetTyped ==
  ASSUME CtrlTypeOK, CtrlReset
  PROVE  CtrlTypeOK'
<1>1. cnt_200us' \in 0..PowerUp /\ cnt_15us' \in 0..(RefPeriod - 1)
  BY TimingAssumption DEF TimingAssumption, CtrlReset
<1>2. init_state' \in I_States /\ work_state' \in W_States
  BY DEF CtrlReset, I_NOP, I_States, W_States
<1>3. ref_req' \in BOOLEAN /\ sys_r_wn' \in BOOLEAN
  BY DEF CtrlTypeOK, CtrlReset
<1>4. cnt_clk' \in 0..511 /\ acks' \in Nat
  BY DEF CtrlReset
<1> QED
  BY <1>1, <1>2, <1>3, <1>4 DEF CtrlTypeOK

(* The registers of sdram_ctrl.v keep their widths and states.             *)
THEOREM CtrlTypeCorrect == CtrlSpec => []CtrlTypeOK
<1>1. CtrlTypeOK /\ [CtrlNext]_ctrlVars => CtrlTypeOK'
  <2> SUFFICES ASSUME CtrlTypeOK, [CtrlNext]_ctrlVars PROVE CtrlTypeOK'
    OBVIOUS
  <2>1. CASE CtrlReset
    BY <2>1, ResetTyped
  <2>2. ASSUME NEW wr \in BOOLEAN, NEW rd \in BOOLEAN, CtrlTick(wr, rd)
        PROVE  CtrlTypeOK'
    BY <2>2, TickTyped
  <2>3. CASE UNCHANGED ctrlVars
    BY <2>3 DEF CtrlTypeOK, ctrlVars
  <2> QED
    BY <2>1, <2>2, <2>3 DEF CtrlNext
<1> QED
  BY InitTyped, <1>1, PTL DEF CtrlSpec

-----------------------------------------------------------------------------
(* The operation invariant.  Outside an operation nothing is assumed of    *)
(* the counter; inside one it lies within the wait it counts.              *)
LEMMA InitInv ==
  ASSUME CtrlInit
  PROVE  CtrlInv
<1>1. CtrlTypeOK
  BY InitTyped
<1> QED
  BY <1>1 DEF CtrlInit, CtrlInv, CounterInRange, DirectionMatches,
              CounterCleared, init_done, I_NOP, I_DONE

LEMMA ResetInv ==
  ASSUME CtrlInv, CtrlReset
  PROVE  CtrlInv'
<1>1. CtrlTypeOK'
  BY ResetTyped DEF CtrlInv
<1> QED
  BY <1>1 DEF CtrlReset, CtrlInv, CounterInRange, DirectionMatches,
              CounterCleared, init_done, I_NOP, I_DONE

(* Once done, the initialisation stays done; while it is not, no operation *)
(* runs, and the clock that ends it clears the delay counter.              *)
LEMMA InitPhase ==
  ASSUME CtrlInv, InitFsm, DelayCounter
  PROVE  /\ init_done => init_done'
         /\ ~init_done /\ init_done' => cnt_clk' = 0
<1>1. ASSUME init_done PROVE init_done'
  BY <1>1 DEF init_done, InitFsm, I_DONE, I_NOP, I_PRE, I_Issue, I_MRS, I_AR, I_Wait
<1>2. ASSUME ~init_done, init_done' PROVE cnt_clk' = 0
  <2>1. CASE init_state \in I_Issue
    BY <1>2, <2>1 DEF init_done, InitFsm, DelayCounter, cnt_run, I_DONE, I_NOP,
       I_PRE, I_Issue, I_MRS, I_AR, I_Wait, InitDelay
  <2>2. CASE init_state \in I_Wait
    BY <1>2, <2>2 DEF init_done, InitFsm, DelayCounter, cnt_run, I_DONE, I_NOP,
       I_PRE, I_Issue, I_MRS, I_AR, I_Wait, end_init
  <2>3. CASE init_state \notin I_Issue \cup I_Wait
    BY <1>2, <2>3 DEF init_done, InitFsm, I_DONE, I_NOP, I_PRE, CtrlInv, CtrlTypeOK, I_States
  <2> QED
    BY <2>1, <2>2, <2>3
<1> QED
  BY <1>1, <1>2
(* One clock of the delay counter in each working state.                   *)
LEMMA DelayStep ==
  ASSUME CtrlInv, init_done, DelayCounter
  PROVE  /\ work_state \in {"IDLE", "READ", "WRITE", "AR"} => cnt_clk' = 0
         /\ work_state = "ACTIVE" => cnt_clk' = IF TRCD = 0 THEN 0 ELSE 1
         /\ work_state = "TRCD" => cnt_clk' = IF end_trcd(cnt_clk) THEN 0 ELSE cnt_clk + 1
         /\ work_state = "CL" => cnt_clk' = IF end_tcl(cnt_clk) THEN 0 ELSE cnt_clk + 1
         /\ work_state = "RD" => cnt_clk' = IF end_tread(cnt_clk) THEN 0 ELSE cnt_clk + 1
         /\ work_state = "WD" => cnt_clk' = IF end_twrite(cnt_clk) THEN 0 ELSE cnt_clk + 1
         /\ work_state = "TDAL" => cnt_clk' = IF end_tdal(cnt_clk) THEN 0 ELSE cnt_clk + 1
         /\ work_state = "TRFC" => cnt_clk' = IF end_trfc(cnt_clk) THEN 0 ELSE cnt_clk + 1
<1>1. init_state \notin I_Issue /\ init_state \notin I_Wait
  BY DEF init_done, I_DONE, I_Issue, I_Wait, I_PRE, I_MRS, I_AR
<1>2. cnt_clk \in 0..511
  BY DEF CtrlInv, CtrlTypeOK
<1> USE <1>1, <1>2 DEF DelayCounter, cnt_run
<1>3. work_state \in {"IDLE", "READ", "WRITE", "AR"} => cnt_clk' = 0
  OBVIOUS
<1>4. work_state = "ACTIVE" => cnt_clk' = IF TRCD = 0 THEN 0 ELSE 1
  BY DEF CtrlInv, CounterCleared
<1>5. work_state = "TRCD" => cnt_clk' = IF end_trcd(cnt_clk) THEN 0 ELSE cnt_clk + 1
  BY TimingAssumption DEF TimingAssumption, CtrlInv, CounterInRange, end_trcd
<1>6. work_state = "CL" => cnt_clk' = IF end_tcl(cnt_clk) THEN 0 ELSE cnt_clk + 1
  BY TimingAssumption DEF TimingAssumption, CtrlInv, CounterInRange, end_tcl
<1>7. work_state = "RD" => cnt_clk' = IF end_tread(cnt_clk) THEN 0 ELSE cnt_clk + 1
  BY TimingAssumption DEF TimingAssumption, CtrlInv, CounterInRange, end_tread
<1>8. work_state = "WD" => cnt_clk' = IF end_twrite(cnt_clk) THEN 0 ELSE cnt_clk + 1
  BY TimingAssumption DEF TimingAssumption, CtrlInv, CounterInRange, end_twrite
<1>9. work_state = "TDAL" => cnt_clk' = IF end_tdal(cnt_clk) THEN 0 ELSE cnt_clk + 1
  BY TimingAssumption DEF TimingAssumption, CtrlInv, CounterInRange, end_tdal
<1>10. work_state = "TRFC" => cnt_clk' = IF end_trfc(cnt_clk) THEN 0 ELSE cnt_clk + 1
  BY TimingAssumption DEF TimingAssumption, CtrlInv, CounterInRange, end_trfc
<1> QED
  BY <1>3, <1>4, <1>5, <1>6, <1>7, <1>8, <1>9, <1>10

(* A clock before the initialisation is done leaves the arbiter idle.      *)
LEMMA InitClock ==
  ASSUME CtrlInv, ~init_done, NEW wr \in BOOLEAN, NEW rd \in BOOLEAN,
         CtrlTick(wr, rd)
  PROVE  CtrlInv' /\ work_state' = "IDLE"
<1>1. work_state = "IDLE"
  BY DEF CtrlInv, DirectionMatches
<1>2. work_state' = "IDLE"
  BY <1>1 DEF CtrlTick, WorkFsm, GrantRefresh, GrantWrite, GrantRead, StayIdle,
              RunOperation, Move
<1>3. init_done' => cnt_clk' = 0
  BY InitPhase DEF CtrlTick
<1>4. CtrlTypeOK'
  BY TickTyped DEF CtrlInv
<1> QED
  BY <1>2, <1>3, <1>4 DEF CtrlInv, CounterInRange, DirectionMatches, CounterCleared

LEMMA WorkClock ==
  ASSUME CtrlInv, init_done, NEW wr \in BOOLEAN,
         NEW rd \in BOOLEAN, CtrlTick(wr, rd)
  PROVE  CtrlInv'
<1>1. CtrlTypeOK'
  BY TickTyped DEF CtrlInv
<1>2. init_done'
  BY InitPhase DEF CtrlTick
<1>3. WorkFsm(wr, rd) /\ DelayCounter
  BY DEF CtrlTick
<1>4. cnt_clk \in 0..511
  BY DEF CtrlInv, CtrlTypeOK
<1> DEFINE Goal == CounterInRange' /\ DirectionMatches' /\ CounterCleared'
<1>5. ASSUME work_state = "IDLE" PROVE Goal
  <2>1. cnt_clk' = 0
    BY <1>3, <1>5, DelayStep
  <2>2. \/ work_state' = "AR" /\ sys_r_wn'
        \/ work_state' \in {"ACTIVE", "IDLE"}
    BY <1>3, <1>5 DEF WorkFsm, GrantRefresh, GrantWrite, GrantRead, StayIdle,
                      RunOperation, Move
  <2> QED
    BY <1>2, <2>1, <2>2 DEF CounterInRange, DirectionMatches, CounterCleared
<1>6. ASSUME work_state # "IDLE" PROVE Goal
  <2>1. sys_r_wn' = sys_r_wn /\ RunOperation
    BY <1>3, <1>6 DEF WorkFsm, GrantRefresh, GrantWrite, GrantRead, StayIdle,
                      RunOperation, Move
  <2>2. CASE Move("ACTIVE", TRUE, IF TRCD = 0 THEN Column ELSE "TRCD")
    <3>1. cnt_clk' = IF TRCD = 0 THEN 0 ELSE 1
      BY <1>3, <2>2, DelayStep DEF Move
    <3> QED
      BY <1>2, <2>1, <2>2, <3>1, TimingAssumption
         DEF TimingAssumption, Move, Column, CounterInRange, DirectionMatches, CounterCleared
  <2>3. CASE Move("TRCD", end_trcd(cnt_clk), Column)
    <3>1. cnt_clk' = IF end_trcd(cnt_clk) THEN 0 ELSE cnt_clk + 1
      BY <1>3, <2>3, DelayStep DEF Move
    <3> QED
      BY <1>2, <1>4, <2>1, <2>3, <3>1, TimingAssumption
         DEF TimingAssumption, CtrlInv, Move, Column, end_trcd, CounterInRange, DirectionMatches, CounterCleared
  <2>4. CASE Move("READ", TRUE, "CL")
    <3>1. cnt_clk' = 0
      BY <1>3, <2>4, DelayStep DEF Move
    <3> QED
      BY <1>2, <2>1, <2>4, <3>1, TimingAssumption
         DEF TimingAssumption, CtrlInv, Move, CounterInRange, DirectionMatches, CounterCleared
  <2>5. CASE Move("CL", end_tcl(cnt_clk), "RD")
    <3>1. cnt_clk' = IF end_tcl(cnt_clk) THEN 0 ELSE cnt_clk + 1
      BY <1>3, <2>5, DelayStep DEF Move
    <3> QED
      BY <1>2, <1>4, <2>1, <2>5, <3>1, TimingAssumption
         DEF TimingAssumption, CtrlInv, Move, end_tcl, CounterInRange, DirectionMatches, CounterCleared
  <2>6. CASE Move("RD", end_tread(cnt_clk), "IDLE")
    <3>1. cnt_clk' = IF end_tread(cnt_clk) THEN 0 ELSE cnt_clk + 1
      BY <1>3, <2>6, DelayStep DEF Move
    <3> QED
      BY <1>2, <1>4, <2>1, <2>6, <3>1, TimingAssumption
         DEF TimingAssumption, CtrlInv, Move, end_tread, CounterInRange, DirectionMatches, CounterCleared
  <2>7. CASE Move("WRITE", TRUE, "WD")
    <3>1. cnt_clk' = 0
      BY <1>3, <2>7, DelayStep DEF Move
    <3> QED
      BY <1>2, <2>1, <2>7, <3>1, TimingAssumption
         DEF TimingAssumption, CtrlInv, Move, CounterInRange, DirectionMatches, CounterCleared
  <2>8. CASE Move("WD", end_twrite(cnt_clk), "TDAL")
    <3>1. cnt_clk' = IF end_twrite(cnt_clk) THEN 0 ELSE cnt_clk + 1
      BY <1>3, <2>8, DelayStep DEF Move
    <3> QED
      BY <1>2, <1>4, <2>1, <2>8, <3>1, TimingAssumption
         DEF TimingAssumption, CtrlInv, Move, end_twrite, CounterInRange, DirectionMatches, CounterCleared
  <2>9. CASE Move("TDAL", end_tdal(cnt_clk), "IDLE")
    <3>1. cnt_clk' = IF end_tdal(cnt_clk) THEN 0 ELSE cnt_clk + 1
      BY <1>3, <2>9, DelayStep DEF Move
    <3> QED
      BY <1>2, <1>4, <2>1, <2>9, <3>1, TimingAssumption
         DEF TimingAssumption, CtrlInv, Move, end_tdal, CounterInRange, DirectionMatches, CounterCleared
  <2>10. CASE Move("AR", TRUE, IF TRFC = 0 THEN "IDLE" ELSE "TRFC")
    <3>1. cnt_clk' = 0
      BY <1>3, <2>10, DelayStep DEF Move
    <3> QED
      BY <1>2, <2>1, <2>10, <3>1, TimingAssumption
         DEF TimingAssumption, CtrlInv, Move, CounterInRange, DirectionMatches, CounterCleared
  <2>11. CASE Move("TRFC", end_trfc(cnt_clk), "IDLE")
    <3>1. cnt_clk' = IF end_trfc(cnt_clk) THEN 0 ELSE cnt_clk + 1
      BY <1>3, <2>11, DelayStep DEF Move
    <3> QED
      BY <1>2, <1>4, <2>1, <2>11, <3>1, TimingAssumption
         DEF TimingAssumption, CtrlInv, Move, end_trfc, CounterInRange, DirectionMatches, CounterCleared
  <2> QED
    BY <2>1, <2>2, <2>3, <2>4, <2>5, <2>6, <2>7, <2>8, <2>9, <2>10, <2>11
       DEF RunOperation
<1> QED
  BY <1>1, <1>5, <1>6 DEF CtrlInv

THEOREM CtrlInvariant == CtrlSpec => []CtrlInv
<1>1. CtrlInv /\ [CtrlNext]_ctrlVars => CtrlInv'
  <2> SUFFICES ASSUME CtrlInv, [CtrlNext]_ctrlVars
               PROVE  CtrlInv'
    OBVIOUS
  <2>1. CASE CtrlReset
    BY <2>1, ResetInv
  <2>2. ASSUME NEW wr \in BOOLEAN, NEW rd \in BOOLEAN, CtrlTick(wr, rd)
        PROVE  CtrlInv'
    BY <2>2, InitClock, WorkClock
  <2>3. CASE UNCHANGED ctrlVars
    BY <2>3 DEF ctrlVars, CtrlInv, CtrlTypeOK, CounterInRange, DirectionMatches,
                CounterCleared, init_done
  <2> QED
    BY <2>1, <2>2, <2>3 DEF CtrlNext
<1> QED
  BY InitInv, <1>1, PTL DEF CtrlSpec

-----------------------------------------------------------------------------
(* The refresh deadline.  Inside an operation the clocks left go down by   *)
(* one per clock while the age of a request goes up by at most one.        *)
OpLeftTable ==
  /\ work_state = "IDLE"   => OpLeft = 0
  /\ work_state = "ACTIVE" => OpLeft = Larger(1, TRCD) + ColumnTail
  /\ work_state = "TRCD"   => OpLeft = TRCD - cnt_clk + ColumnTail
  /\ work_state = "READ"   => OpLeft = ReadTail
  /\ work_state = "CL"     => OpLeft = TCL - cnt_clk + RdByte + 3
  /\ work_state = "RD"     => OpLeft = RdByte + 3 - cnt_clk
  /\ work_state = "WRITE"  => OpLeft = WriteTail
  /\ work_state = "WD"     => OpLeft = WrByte - cnt_clk + TDAL + 1
  /\ work_state = "TDAL"   => OpLeft = TDAL + 1 - cnt_clk
  /\ work_state = "AR"     => OpLeft = TRFC + 2
  /\ work_state = "TRFC"   => OpLeft = TRFC + 1 - cnt_clk

LEMMA OpLeftCases == OpLeftTable /\ OpLeftTable'
<1>1. OpLeftTable
  BY DEF OpLeft, OpLeftTable
<1>2. OpLeftTable'
  BY DEF OpLeft, OpLeftTable
<1> QED
  BY <1>1, <1>2

OpLeftOK == OpLeft \in Int /\ OpLeft <= MaxOp

LEMMA OperationSizes ==
      /\ MaxOp \in Int /\ TRFC + 2 <= MaxOp
      /\ Larger(1, TRCD) + ReadTail <= MaxOp
      /\ Larger(1, TRCD) + WriteTail <= MaxOp
      /\ Larger(1, TRCD) \in Nat /\ Larger(1, TRCD) >= 1 /\ Larger(1, TRCD) >= TRCD
      /\ ReadTail \in Nat /\ WriteTail \in Nat
  BY TimingAssumption DEF TimingAssumption, MaxOp, Larger, ReadTail, WriteTail

LEMMA OpLeftBounded == CtrlInv => OpLeftOK
<1> SUFFICES ASSUME CtrlInv PROVE OpLeftOK
  OBVIOUS
<1>1. cnt_clk \in 0..511 /\ work_state \in W_States
  BY DEF CtrlInv, CtrlTypeOK
<1>2. OpLeftTable
  BY OpLeftCases
<1>3. CASE work_state \in {"IDLE", "AR"}
  BY <1>2, <1>3, OperationSizes, TimingAssumption DEF TimingAssumption, OpLeftTable, OpLeftOK
<1>4. CASE work_state = "TRFC"
  BY <1>2, <1>1, <1>4, OperationSizes, TimingAssumption DEF TimingAssumption, OpLeftTable, OpLeftOK
<1>5. CASE work_state = "ACTIVE"
  BY <1>2, <1>1, <1>5, OperationSizes DEF OpLeftTable, OpLeftOK, ColumnTail
<1>6. CASE work_state = "TRCD"
  BY <1>2, <1>1, <1>6, OperationSizes, TimingAssumption DEF TimingAssumption, OpLeftTable, OpLeftOK, ColumnTail, CtrlInv, CounterInRange
<1>7. CASE work_state \in {"READ", "CL", "RD"}
  BY <1>2, <1>1, <1>7, OperationSizes, TimingAssumption DEF TimingAssumption, OpLeftTable, OpLeftOK, ReadTail
<1>8. CASE work_state \in {"WRITE", "WD", "TDAL"}
  BY <1>2, <1>1, <1>8, OperationSizes, TimingAssumption DEF TimingAssumption, OpLeftTable, OpLeftOK, WriteTail
<1> QED
  BY <1>1, <1>3, <1>4, <1>5, <1>6, <1>7, <1>8 DEF W_States

LEMMA OpLeftStep ==
  ASSUME CtrlInv, init_done, work_state \notin {"IDLE", "AR"},
         NEW wr \in BOOLEAN, NEW rd \in BOOLEAN, CtrlTick(wr, rd)
  PROVE  OpLeft' = OpLeft - 1
<1>1. WorkFsm(wr, rd) /\ DelayCounter
  BY DEF CtrlTick
<1>2. sys_r_wn' = sys_r_wn /\ RunOperation
  BY <1>1 DEF WorkFsm, GrantRefresh, GrantWrite, GrantRead, StayIdle,
              RunOperation, Move
<1>3. cnt_clk \in 0..511 /\ sys_r_wn \in BOOLEAN
  BY DEF CtrlInv, CtrlTypeOK
<1>table. OpLeftTable /\ OpLeftTable'
  BY OpLeftCases
<1>4. CASE Move("ACTIVE", TRUE, IF TRCD = 0 THEN Column ELSE "TRCD")
  <2>1. cnt_clk' = IF TRCD = 0 THEN 0 ELSE 1
    BY <1>1, <1>4, DelayStep DEF Move
  <2> QED
    BY <1>2, <1>3, <1>4, <2>1, TimingAssumption, <1>table
       DEF TimingAssumption, Move, Column, OpLeftTable, ColumnTail, Larger, ReadTail, WriteTail
<1>5. CASE Move("TRCD", end_trcd(cnt_clk), Column)
  <2>1. cnt_clk' = IF end_trcd(cnt_clk) THEN 0 ELSE cnt_clk + 1
    BY <1>1, <1>5, DelayStep DEF Move
  <2> QED
    BY <1>2, <1>3, <1>5, <2>1, TimingAssumption, <1>table
       DEF TimingAssumption, Move, Column, end_trcd, OpLeftTable, ColumnTail, ReadTail, WriteTail
<1>6. CASE Move("READ", TRUE, "CL")
  <2>1. cnt_clk' = 0
    BY <1>1, <1>6, DelayStep DEF Move
  <2> QED
    BY <1>6, <2>1, TimingAssumption, <1>table DEF TimingAssumption, Move, OpLeftTable, ReadTail
<1>7. CASE Move("CL", end_tcl(cnt_clk), "RD")
  <2>1. cnt_clk' = IF end_tcl(cnt_clk) THEN 0 ELSE cnt_clk + 1
    BY <1>1, <1>7, DelayStep DEF Move
  <2> QED
    BY <1>3, <1>7, <2>1, TimingAssumption, <1>table DEF TimingAssumption, Move, OpLeftTable, end_tcl
<1>8. CASE Move("RD", end_tread(cnt_clk), "IDLE")
  <2>1. cnt_clk' = IF end_tread(cnt_clk) THEN 0 ELSE cnt_clk + 1
    BY <1>1, <1>8, DelayStep DEF Move
  <2> QED
    BY <1>3, <1>8, <2>1, TimingAssumption, <1>table DEF TimingAssumption, Move, OpLeftTable, end_tread
<1>9. CASE Move("WRITE", TRUE, "WD")
  <2>1. cnt_clk' = 0
    BY <1>1, <1>9, DelayStep DEF Move
  <2> QED
    BY <1>9, <2>1, TimingAssumption, <1>table DEF TimingAssumption, Move, OpLeftTable, WriteTail
<1>10. CASE Move("WD", end_twrite(cnt_clk), "TDAL")
  <2>1. cnt_clk' = IF end_twrite(cnt_clk) THEN 0 ELSE cnt_clk + 1
    BY <1>1, <1>10, DelayStep DEF Move
  <2> QED
    BY <1>3, <1>10, <2>1, TimingAssumption, <1>table DEF TimingAssumption, Move, OpLeftTable, end_twrite
<1>11. CASE Move("TDAL", end_tdal(cnt_clk), "IDLE")
  <2>1. cnt_clk' = IF end_tdal(cnt_clk) THEN 0 ELSE cnt_clk + 1
    BY <1>1, <1>11, DelayStep DEF Move
  <2> QED
    BY <1>3, <1>11, <2>1, TimingAssumption, <1>table DEF TimingAssumption, Move, OpLeftTable, end_tdal
<1>12. CASE Move("TRFC", end_trfc(cnt_clk), "IDLE")
  <2>1. cnt_clk' = IF end_trfc(cnt_clk) THEN 0 ELSE cnt_clk + 1
    BY <1>1, <1>12, DelayStep DEF Move
  <2> QED
    BY <1>3, <1>12, <2>1, TimingAssumption, <1>table DEF TimingAssumption, Move, OpLeftTable, end_trfc
<1> QED
  BY <1>2, <1>4, <1>5, <1>6, <1>7, <1>8, <1>9, <1>10, <1>11, <1>12
     DEF RunOperation, Move

LEMMA RefAgeStep ==
  ASSUME CtrlInv, RefreshTimer
  PROVE  /\ RefAge \in Int /\ RefAge' \in Int /\ RefAge' <= RefAge + 1
         /\ cnt_15us = RefPeriod - 2 => RefAge' = 0
  BY TimingAssumption
     DEF TimingAssumption, CtrlInv, CtrlTypeOK, RefreshTimer, RefAge

LEMMA DeadlineTick ==
  ASSUME CtrlInv, RefreshDeadline, NEW wr \in BOOLEAN, NEW rd \in BOOLEAN,
         CtrlTick(wr, rd)
  PROVE  RefreshDeadline'
<1> SUFFICES ASSUME ref_req', work_state' \notin {"IDLE", "AR"}
             PROVE  RefAge' + OpLeft' <= MaxOp
  BY DEF RefreshDeadline
<1>1. init_done
  BY InitClock
<1>2. CtrlInv' /\ RefreshTimer /\ MaxOp' = MaxOp
  BY <1>1, WorkClock DEF CtrlTick
<1>3. OpLeft \in Int /\ OpLeft <= MaxOp /\ MaxOp \in Int
  BY OpLeftBounded, OperationSizes DEF OpLeftOK
<1>4. OpLeft' \in Int /\ OpLeft' <= MaxOp
  <2>1. (CtrlInv => OpLeftOK)'
    BY OpLeftBounded, PTL
  <2> QED
    BY <1>2, <2>1 DEF OpLeftOK, MaxOp, Larger, ReadTail, WriteTail
<1>5. CASE cnt_15us = RefPeriod - 2
  <2>1. RefAge' \in Int /\ RefAge' <= 0
    BY <1>2, <1>5, RefAgeStep
  <2>2. \A a, b \in Int : a <= 0 /\ b <= MaxOp => a + b <= MaxOp
    BY <1>3
  <2> QED
    BY <1>4, <2>1, <2>2
<1>6. CASE cnt_15us # RefPeriod - 2
  <2>1. ref_req /\ work_state # "AR"
    BY <1>2, <1>6 DEF RefreshTimer, ref_ack
  <2>2. work_state # "IDLE"
    BY <1>1, <2>1 DEF CtrlTick, WorkFsm, GrantRefresh, GrantWrite, GrantRead,
                      StayIdle, RunOperation, Move
  <2>3. OpLeft' = OpLeft - 1
    BY <1>1, <2>1, <2>2, OpLeftStep
  <2>4. RefAge + OpLeft <= MaxOp
    BY <2>1, <2>2 DEF RefreshDeadline
  <2> QED
    BY <1>2, <1>3, <2>3, <2>4, RefAgeStep
<1> QED
  BY <1>5, <1>6

(* A pending refresh waits for at most one operation, whatever the FIFO    *)
(* side requests and whenever it requests it.                              *)
THEOREM RefreshMeetsDeadline == CtrlSpec => []RefreshDeadline
<1>1. CtrlInit => RefreshDeadline
  BY DEF CtrlInit, RefreshDeadline
<1>2. CtrlInv /\ RefreshDeadline /\ [CtrlNext]_ctrlVars => RefreshDeadline'
  <2> SUFFICES ASSUME CtrlInv, RefreshDeadline, [CtrlNext]_ctrlVars
               PROVE  RefreshDeadline'
    OBVIOUS
  <2>1. CASE CtrlReset
    BY <2>1 DEF CtrlReset, RefreshDeadline
  <2>2. ASSUME NEW wr \in BOOLEAN, NEW rd \in BOOLEAN, CtrlTick(wr, rd)
        PROVE  RefreshDeadline'
    BY <2>2, DeadlineTick
  <2>3. CASE UNCHANGED ctrlVars
    BY <2>3 DEF ctrlVars, RefreshDeadline, RefAge, OpLeft, ColumnTail
  <2> QED
    BY <2>1, <2>2, <2>3 DEF CtrlNext
<1> QED
  BY CtrlInvariant, <1>1, <1>2, PTL DEF CtrlSpec

(* Every operation starts its waits from a cleared counter.                *)
THEOREM CountersCleared == CtrlSpec => []CounterCleared
<1>1. CtrlInv => CounterCleared
  BY DEF CtrlInv
<1> QED
  BY CtrlInvariant, <1>1, PTL

-----------------------------------------------------------------------------
(* The acknowledge window.  It matches the burst only for the row-to-column*)
(* wait the source ships with, and not for a write of one word, for which  *)
(* sdwr_byte-2'd2 wraps.                                                   *)
AckAssumption == TRCD = 2 /\ WrByte >= 2

AckCount ==
  /\ work_state \in {"ACTIVE", "TRCD", "READ", "CL"} => acks = 0
  /\ work_state = "WRITE" => acks = 1
  /\ work_state = "WD"    => acks = IF cnt_clk <= WrByte - 2 THEN 2 + cnt_clk ELSE WrByte
  /\ work_state = "TDAL"  => acks = WrByte
  /\ work_state = "RD"    => acks = IF cnt_clk <= 2 THEN 0 ELSE cnt_clk - 2

LEMMA AckWindow ==
  ASSUME CtrlInv, AckAssumption
  PROVE  /\ work_state = "TRCD"  => (wr_ack <=> ~sys_r_wn) /\ ~rd_ack
         /\ work_state = "WRITE" => wr_ack
         /\ work_state = "WD"    => (wr_ack <=> cnt_clk < WrByte - 2) /\ ~rd_ack
         /\ work_state = "RD"    => ~wr_ack /\ (rd_ack <=> cnt_clk > 1 /\ cnt_clk < RdByte + 2)
         /\ work_state \in {"ACTIVE", "READ", "CL", "TDAL"} => ~wr_ack /\ ~rd_ack
<1>1. (WrByte - 2) % 512 = WrByte - 2 /\ (RdByte + 2) % 512 = RdByte + 2
  BY TimingAssumption DEF TimingAssumption, AckAssumption
<1> QED
  BY <1>1 DEF wr_ack, rd_ack

LEMMA AckStep ==
  ASSUME CtrlInv, AckCount, AckAssumption, init_done,
         NEW wr \in BOOLEAN, NEW rd \in BOOLEAN, CtrlTick(wr, rd)
  PROVE  AckCount'
<1>1. WorkFsm(wr, rd) /\ DelayCounter /\ CountAcks
  BY DEF CtrlTick
<1>2. cnt_clk \in 0..511 /\ sys_r_wn \in BOOLEAN /\ acks \in Nat
  BY DEF CtrlInv, CtrlTypeOK
<1>3. CASE work_state = "IDLE"
  <2>1. acks' = 0 /\ work_state' \in {"IDLE", "AR", "ACTIVE"}
    BY <1>1, <1>3 DEF CountAcks, WorkFsm, GrantRefresh, GrantWrite, GrantRead,
                      StayIdle, RunOperation, Move
  <2> QED
    BY <2>1 DEF AckCount
<1>4. CASE work_state # "IDLE"
  <2>1. sys_r_wn' = sys_r_wn /\ RunOperation
    BY <1>1, <1>4 DEF WorkFsm, GrantRefresh, GrantWrite, GrantRead, StayIdle,
                      RunOperation, Move
  <2>2. acks' = IF wr_ack \/ rd_ack THEN acks + 1 ELSE acks
    BY <1>1, <1>4 DEF CountAcks
  <2>3. CASE Move("ACTIVE", TRUE, IF TRCD = 0 THEN Column ELSE "TRCD")
    <3>1. ~wr_ack /\ ~rd_ack
      BY <2>3, AckWindow DEF Move
    <3> QED
      BY <2>2, <2>3, <3>1 DEF Move, AckCount, AckAssumption
  <2>4. CASE Move("TRCD", end_trcd(cnt_clk), Column)
    <3>1. (wr_ack <=> ~sys_r_wn) /\ ~rd_ack
      BY <2>4, AckWindow DEF Move
    <3>2. cnt_clk = 1 /\ acks = 0
      BY <2>4, <1>2 DEF Move, AckCount, CtrlInv, CounterInRange, AckAssumption
    <3>3. work_state' = IF sys_r_wn THEN "READ" ELSE "WRITE"
      BY <2>4, <3>2 DEF Move, Column, end_trcd, AckAssumption
    <3> QED
      BY <1>2, <2>2, <3>1, <3>2, <3>3 DEF AckCount
  <2>5. CASE Move("READ", TRUE, "CL")
    <3>1. ~wr_ack /\ ~rd_ack
      BY <2>5, AckWindow DEF Move
    <3> QED
      BY <2>2, <2>5, <3>1 DEF Move, AckCount
  <2>6. CASE Move("CL", end_tcl(cnt_clk), "RD")
    <3>1. ~wr_ack /\ ~rd_ack
      BY <2>6, AckWindow DEF Move
    <3>2. cnt_clk' = IF end_tcl(cnt_clk) THEN 0 ELSE cnt_clk + 1
      BY <1>1, <2>6, DelayStep DEF Move
    <3> QED
      BY <2>2, <2>6, <3>1, <3>2 DEF Move, AckCount
  <2>7. CASE Move("RD", end_tread(cnt_clk), "IDLE")
    <3>1. ~wr_ack /\ (rd_ack <=> cnt_clk > 1 /\ cnt_clk < RdByte + 2)
      BY <2>7, AckWindow DEF Move
    <3>2. cnt_clk' = IF end_tread(cnt_clk) THEN 0 ELSE cnt_clk + 1
      BY <1>1, <2>7, DelayStep DEF Move
    <3>3. cnt_clk <= RdByte + 2
      BY <2>7 DEF Move, CtrlInv, CounterInRange
    <3> QED
      BY <1>2, <2>2, <2>7, <3>1, <3>2, <3>3, TimingAssumption
         DEF TimingAssumption, Move, AckCount, end_tread
  <2>8. CASE Move("WRITE", TRUE, "WD")
    <3>1. wr_ack
      BY <2>8, AckWindow DEF Move
    <3>2. cnt_clk' = 0
      BY <1>1, <2>8, DelayStep DEF Move
    <3> QED
      BY <2>2, <2>8, <3>1, <3>2, TimingAssumption
         DEF TimingAssumption, Move, AckCount, AckAssumption
  <2>9. CASE Move("WD", end_twrite(cnt_clk), "TDAL")
    <3>1. (wr_ack <=> cnt_clk < WrByte - 2) /\ ~rd_ack
      BY <2>9, AckWindow DEF Move
    <3>2. cnt_clk' = IF end_twrite(cnt_clk) THEN 0 ELSE cnt_clk + 1
      BY <1>1, <2>9, DelayStep DEF Move
    <3>3. cnt_clk <= WrByte - 1
      BY <2>9 DEF Move, CtrlInv, CounterInRange
    <3> QED
      BY <1>2, <2>2, <2>9, <3>1, <3>2, <3>3, TimingAssumption
         DEF TimingAssumption, Move, AckCount, AckAssumption, end_twrite
  <2>10. CASE Move("TDAL", end_tdal(cnt_clk), "IDLE")
    <3>1. ~wr_ack /\ ~rd_ack
      BY <2>10, AckWindow DEF Move
    <3> QED
      BY <2>2, <2>10, <3>1 DEF Move, AckCount
  <2>11. CASE work_state \in {"AR", "TRFC"}
    BY <2>1, <2>11 DEF RunOperation, Move, AckCount
  <2> QED
    BY <2>1, <2>3, <2>4, <2>5, <2>6, <2>7, <2>8, <2>9, <2>10, <2>11
       DEF RunOperation, Move
<1> QED
  BY <1>3, <1>4

LEMMA AckInvariant ==
  ASSUME AckAssumption
  PROVE  CtrlSpec => [](CtrlInv /\ AckCount)
<1>1. CtrlInit => AckCount
  BY DEF CtrlInit, AckCount
<1>2. CtrlInv /\ AckCount /\ [CtrlNext]_ctrlVars => AckCount'
  <2> SUFFICES ASSUME CtrlInv, AckCount, [CtrlNext]_ctrlVars
               PROVE  AckCount'
    OBVIOUS
  <2>1. CASE CtrlReset
    BY <2>1 DEF CtrlReset, AckCount
  <2>2. ASSUME NEW wr \in BOOLEAN, NEW rd \in BOOLEAN, CtrlTick(wr, rd)
        PROVE  AckCount'
    <3>1. CASE init_done
      BY <2>2, <3>1, AckStep, AckAssumption
    <3>2. CASE ~init_done
      BY <2>2, <3>2, InitClock DEF AckCount
    <3> QED
      BY <3>1, <3>2
  <2>3. CASE UNCHANGED ctrlVars
    BY <2>3 DEF ctrlVars, AckCount
  <2> QED
    BY <2>1, <2>2, <2>3 DEF CtrlNext
<1> QED
  BY CtrlInvariant, <1>1, <1>2, PTL DEF CtrlSpec

(* Exactly sdwr_byte words are popped in a write operation and exactly     *)
(* sdrd_byte words are pushed in a read operation.                         *)
THEOREM AcksExact ==
  ASSUME AckAssumption
  PROVE  CtrlSpec => []AcksMatchBurst
<1>1. CtrlInv /\ AckCount => AcksMatchBurst
  BY TimingAssumption
     DEF TimingAssumption, CtrlInv, CtrlTypeOK, AckCount, AcksMatchBurst, end_tread
<1> QED
  BY AckInvariant, <1>1, PTL

-----------------------------------------------------------------------------
(* The pins.                                                               *)


(* The chip has a write burst open exactly while the controller counts it. *)
WriteOpen == last = "WRITE" <=> work_state = "WD"

-----------------------------------------------------------------------------
(* The controller inside keeps its own specification.                      *)

LEMMA TopSteps ==
  ASSUME [Next]_vars
  PROVE  /\ [CtrlNext]_ctrlVars
         /\ \/ Reset
            \/ \E wr, rd \in BOOLEAN, wp, rp \in Pages : Tick(wr, rd, wp, rp)
            \/ UNCHANGED vars
<1>1. CASE Reset
  BY <1>1 DEF Reset, TopReset, CtrlNext
<1>2. ASSUME NEW wr \in BOOLEAN, NEW rd \in BOOLEAN, NEW wp \in Pages, NEW rp \in Pages,
             Tick(wr, rd, wp, rp)
      PROVE  CtrlNext
  BY <1>2 DEF Tick, TopTick, CtrlNext
<1>3. CASE UNCHANGED vars
  BY <1>3 DEF vars, topVars
<1> QED BY <1>1, <1>2, <1>3 DEF Next, Ticks

LEMMA TopInvariant == Spec => [](CtrlInv /\ RefreshDeadline)
<1>1. Init => CtrlInit
  BY DEF Init, TopInit
<1>2. [Next]_vars => [CtrlNext]_ctrlVars
  BY TopSteps
<1>3. Spec => CtrlSpec
  BY <1>1, <1>2, PTL DEF Spec, CtrlSpec
<1> QED BY <1>3, CtrlInvariant, RefreshMeetsDeadline, PTL

(* One clock of the controller, by the state it is in.                     *)
LEMMA WorkStep ==
  ASSUME CtrlInv, init_done, NEW wr \in BOOLEAN, NEW rd \in BOOLEAN, CtrlTick(wr, rd)
  PROVE  /\ init_done'
         /\ work_state # "IDLE" => sys_r_wn' = sys_r_wn
         /\ work_state = "IDLE" => work_state' \in {"IDLE", "ACTIVE", "AR"}
         /\ work_state = "ACTIVE" => work_state' = IF TRCD = 0 THEN Column ELSE "TRCD"
         /\ work_state = "TRCD" => work_state' = IF end_trcd(cnt_clk) THEN Column ELSE "TRCD"
         /\ work_state = "READ" => work_state' = "CL"
         /\ work_state = "CL" => work_state' = IF end_tcl(cnt_clk) THEN "RD" ELSE "CL"
         /\ work_state = "RD" => work_state' = IF end_tread(cnt_clk) THEN "IDLE" ELSE "RD"
         /\ work_state = "WRITE" => work_state' = "WD"
         /\ work_state = "WD" => work_state' = IF end_twrite(cnt_clk) THEN "TDAL" ELSE "WD"
         /\ work_state = "TDAL" => work_state' = IF end_tdal(cnt_clk) THEN "IDLE" ELSE "TDAL"
         /\ work_state = "AR" => work_state' = IF TRFC = 0 THEN "IDLE" ELSE "TRFC"
         /\ work_state = "TRFC" => work_state' = IF end_trfc(cnt_clk) THEN "IDLE" ELSE "TRFC"
<1>1. init_done'
  BY InitPhase DEF CtrlTick
<1>2. CASE work_state = "IDLE"
  BY <1>1, <1>2 DEF CtrlTick, WorkFsm, GrantRefresh, GrantWrite, GrantRead, StayIdle,
                    RunOperation, Move
<1>3. CASE work_state # "IDLE"
  BY <1>1, <1>3 DEF CtrlTick, WorkFsm, GrantRefresh, GrantWrite, GrantRead, StayIdle,
                    RunOperation, Move
<1> QED BY <1>2, <1>3

(* The command that appears on the pins.                                   *)
LEMMA WorkCommand ==
  ASSUME CtrlInv, init_done, NEW wp, NEW rp, CmdTick(wp, rp)
  PROVE  cmd' = CASE work_state \in {"ACTIVE", "READ", "WRITE"} -> work_state
                  [] work_state = "RD" /\ end_rdburst(cnt_clk) -> "B_STOP"
                  [] work_state = "WD" /\ end_wrburst(cnt_clk) -> "B_STOP"
                  [] work_state = "AR" -> "A_REF"
                  [] OTHER -> "NOP"
<1>1. WorkCmd(IF sys_r_wn THEN rp ELSE wp)
  BY DEF CmdTick, init_done, I_DONE, I_PRE, I_AR, I_MRS
<1>2. work_state \in W_States
  BY DEF CtrlInv, CtrlTypeOK
<1> QED BY <1>1, <1>2 DEF WorkCmd, W_States, Pins, Quiet, StopOrQuiet

LEMMA InitCommand ==
  ASSUME CtrlInv, ~init_done, NEW wp, NEW rp, CmdTick(wp, rp)
  PROVE  cmd' = CASE init_state = I_PRE -> "PRGE"
                  [] init_state \in I_AR -> "A_REF"
                  [] init_state = I_MRS -> "LMR"
                  [] OTHER -> "NOP"
BY DEF CmdTick, init_done, I_DONE, I_PRE, I_AR, I_MRS, Pins, Quiet

-----------------------------------------------------------------------------
(* The data bus.                                                           *)

LEMMA DriveTick ==
  ASSUME CtrlInv, WriteOpen, NEW wr \in BOOLEAN, NEW rd \in BOOLEAN,
         NEW wp \in Pages, NEW rp \in Pages, Tick(wr, rd, wp, rp)
  PROVE  WriteOpen' /\ DriveWindow'
<1>1. /\ CtrlTick(wr, rd) /\ CmdTick(wp, rp)
      /\ last' = IF cmd' \notin {"NOP", "INIT"} THEN cmd' ELSE last
      /\ sdr_dlink' = (work_state \in {"WRITE", "WD"})
  BY DEF Tick, TopTick, Watch, Chip!Observe, DataTick, driving
<1>2. CASE ~init_done
  <2>1. work_state = "IDLE" /\ work_state' = "IDLE"
    BY <1>1, <1>2, InitClock DEF CtrlInv, DirectionMatches
  <2>2. cmd' \in {"PRGE", "A_REF", "LMR", "NOP"}
    BY <1>1, <1>2, InitCommand
  <2> QED BY <1>1, <2>1, <2>2 DEF WriteOpen, DriveWindow
<1>3. CASE init_done
  <2>1. CASE work_state = "WRITE"
    <3>1. cmd' = "WRITE" /\ work_state' = "WD"
      BY <1>1, <1>3, <2>1, WorkCommand, WorkStep
    <3> QED BY <1>1, <2>1, <3>1 DEF WriteOpen, DriveWindow
  <2>2. CASE work_state = "WD"
    <3>1. /\ cmd' = IF end_twrite(cnt_clk) THEN "B_STOP" ELSE "NOP"
          /\ work_state' = IF end_twrite(cnt_clk) THEN "TDAL" ELSE "WD"
      BY <1>1, <1>3, <2>2, WorkCommand, WorkStep DEF end_twrite, end_wrburst
    <3>2. ~sys_r_wn'
      BY <1>1, <1>3, <2>2, WorkStep DEF CtrlInv, DirectionMatches
    <3> QED BY <1>1, <2>2, <3>1, <3>2 DEF WriteOpen, DriveWindow
  <2>3. CASE work_state \notin {"WRITE", "WD"}
    <3>1. last # "WRITE" /\ work_state \in W_States
      BY <2>3 DEF WriteOpen, CtrlInv, CtrlTypeOK
    <3>2. cmd' # "WRITE"
      BY <1>1, <1>3, <2>3, WorkCommand
    <3>3. work_state' # "WD"
      BY <1>1, <1>3, <2>3, <3>1, WorkStep DEF W_States, Column
    <3>4. cmd' = "B_STOP" => sys_r_wn'
      <4>1. cmd' = "B_STOP" => work_state = "RD"
        BY <1>1, <1>3, <2>3, WorkCommand
      <4> QED BY <1>1, <1>3, <4>1, WorkStep DEF CtrlInv, DirectionMatches
    <3> QED BY <1>1, <2>3, <3>1, <3>2, <3>3, <3>4 DEF WriteOpen, DriveWindow
  <2> QED BY <2>1, <2>2, <2>3
<1> QED BY <1>2, <1>3

(* The FPGA drives the data bus while a write burst runs and in the clock  *)
(* that ends it, and in no other: never while the chip drives it.          *)
THEOREM BusDrivenInWindow == Spec => []DriveWindow
<1>1. Init => WriteOpen /\ DriveWindow
  BY DEF Init, TopInit, CtrlInit, WriteOpen, DriveWindow
<1>2. CtrlInv /\ WriteOpen /\ DriveWindow /\ [Next]_vars => WriteOpen' /\ DriveWindow'
  <2> SUFFICES ASSUME CtrlInv, WriteOpen, DriveWindow, [Next]_vars
               PROVE  WriteOpen' /\ DriveWindow'
    OBVIOUS
  <2>1. CASE Reset
    BY <2>1 DEF Reset, TopReset, CtrlReset, CmdReset, Quiet, Pins, DataReset,
                WriteOpen, DriveWindow
  <2>2. CASE UNCHANGED vars
    BY <2>2 DEF vars, topVars, ctrlVars, cmdVars, datVars, chipVars, WriteOpen, DriveWindow
  <2> QED BY <2>1, <2>2, TopSteps, DriveTick
<1> QED BY TopInvariant, <1>1, <1>2, PTL DEF Spec

(* The delay counter starts each wait of the initialisation from 0.        *)
InitCount ==
  /\ init_state \in {I_NOP} \cup I_Issue => cnt_clk = 0
  /\ init_state \in I_Wait => cnt_clk \in 1..InitDelay(init_state)

LEMMA InitStep ==
  ASSUME CtrlInv, InitCount, ~init_done, InitFsm, DelayCounter
  PROVE  /\ InitCount'
         /\ init_state = I_NOP => init_state' \in {I_NOP, I_PRE}
         /\ init_state \in I_Issue /\ InitDelay(init_state) = 0 => init_state' = init_state + 2
         /\ init_state \in I_Issue /\ InitDelay(init_state) # 0
              => init_state' = init_state + 1 /\ cnt_clk' = 1
         /\ init_state \in I_Wait /\ cnt_clk = InitDelay(init_state) => init_state' = init_state + 1
         /\ init_state \in I_Wait /\ cnt_clk # InitDelay(init_state)
              => init_state' = init_state /\ cnt_clk' = cnt_clk + 1
<1>0. /\ init_state \in 0..20 /\ cnt_clk \in 0..511
      /\ InitDelay(init_state) \in 0..511
  BY TimingAssumption DEF TimingAssumption, CtrlInv, CtrlTypeOK, I_States, init_done, I_DONE, InitDelay
<1>1. CASE init_state = I_NOP
  <2>1. init_state' \in {I_NOP, I_PRE} /\ cnt_clk' = 0
    BY <1>1 DEF InitFsm, DelayCounter, cnt_run, init_done, I_NOP, I_PRE, I_Issue, I_MRS, I_AR,
                I_Wait, I_DONE
  <2> QED BY <1>1, <2>1 DEF InitCount, I_NOP, I_PRE, I_Issue, I_MRS, I_AR, I_Wait
<1>2. CASE init_state \in I_Issue
  <2>1. /\ init_state' = init_state + (IF InitDelay(init_state) = 0 THEN 2 ELSE 1)
        /\ cnt_clk' = IF InitDelay(init_state) # 0 THEN 1 ELSE 0
    BY <1>0, <1>2 DEF InitFsm, DelayCounter, cnt_run, InitCount, I_NOP, I_PRE, I_Issue, I_MRS, I_AR
  <2>2. InitDelay(init_state + 1) = InitDelay(init_state)
    BY <1>2 DEF InitDelay, I_PRE, I_Issue, I_MRS, I_AR
  <2>3. CASE InitDelay(init_state) = 0
    <3>1. init_state' \in I_Issue \cup {I_DONE}
      BY <1>2, <2>1, <2>3 DEF I_DONE, I_PRE, I_Issue, I_MRS, I_AR
    <3> QED BY <1>2, <2>1, <2>3, <3>1
               DEF InitCount, I_NOP, I_DONE, I_PRE, I_Issue, I_MRS, I_AR, I_Wait
  <2>4. CASE InitDelay(init_state) # 0
    <3>1. init_state' \in I_Wait /\ init_state' \notin {I_NOP} \cup I_Issue
      BY <1>2, <2>1, <2>4 DEF I_NOP, I_PRE, I_Issue, I_MRS, I_AR, I_Wait
    <3>2. InitCount'
      BY <1>0, <2>1, <2>2, <2>4, <3>1 DEF InitCount
    <3> QED BY <1>2, <2>1, <2>4, <3>2 DEF I_NOP, I_PRE, I_Issue, I_MRS, I_AR, I_Wait
  <2> QED BY <2>3, <2>4
<1>3. CASE init_state \in I_Wait
  <2>0. init_state \notin I_Issue /\ init_state # I_NOP
    BY <1>3 DEF I_NOP, I_PRE, I_Issue, I_MRS, I_AR, I_Wait
  <2>1. CASE cnt_clk = InitDelay(init_state)
    <3>1. init_state' = init_state + 1 /\ cnt_clk' = 0
      BY <1>3, <2>0, <2>1 DEF InitFsm, DelayCounter, cnt_run, end_init
    <3> QED BY <1>3, <2>0, <2>1, <3>1 DEF InitCount, I_NOP, I_PRE, I_Issue, I_MRS, I_AR, I_Wait
  <2>2. CASE cnt_clk # InitDelay(init_state)
    <3>1. init_state' = init_state /\ cnt_clk' = cnt_clk + 1
      BY <1>0, <1>3, <2>0, <2>2 DEF InitFsm, DelayCounter, cnt_run, end_init, InitCount
    <3>2. cnt_clk + 1 \in 1..InitDelay(init_state)
      BY <1>0, <1>3, <2>2 DEF InitCount
    <3> QED BY <1>3, <2>0, <2>2, <3>1, <3>2 DEF InitCount
  <2> QED BY <2>1, <2>2
<1> QED BY <1>0, <1>1, <1>2, <1>3 DEF I_NOP, I_PRE, I_Issue, I_MRS, I_AR, I_Wait

LEMMA InitCountTick ==
  ASSUME CtrlInv, InitCount, NEW wr \in BOOLEAN, NEW rd \in BOOLEAN, CtrlTick(wr, rd)
  PROVE  InitCount'
<1>1. CASE init_done
  <2>1. init_done'
    BY <1>1, InitPhase DEF CtrlTick
  <2> QED BY <2>1 DEF InitCount, init_done, I_DONE, I_NOP, I_PRE, I_Issue, I_MRS, I_AR, I_Wait
<1>2. CASE ~init_done
  BY <1>2, InitStep DEF CtrlTick
<1> QED BY <1>1, <1>2

LEMMA InitCountInvariant == Spec => []InitCount
<1>1. Init => InitCount
  BY DEF Init, TopInit, CtrlInit, InitCount, I_NOP, I_Wait
<1>2. CtrlInv /\ InitCount /\ [Next]_vars => InitCount'
  <2> SUFFICES ASSUME CtrlInv, InitCount, [Next]_vars PROVE InitCount'
    OBVIOUS
  <2>1. CASE Reset
    BY <2>1 DEF Reset, TopReset, CtrlReset, InitCount, I_NOP, I_Wait
  <2>2. CASE UNCHANGED vars
    BY <2>2 DEF vars, topVars, ctrlVars, InitCount
  <2>3. ASSUME NEW wr \in BOOLEAN, NEW rd \in BOOLEAN, NEW wp \in Pages, NEW rp \in Pages,
               Tick(wr, rd, wp, rp)
        PROVE  InitCount'
    BY <2>3, InitCountTick DEF Tick, TopTick
  <2> QED BY <2>1, <2>2, <2>3, TopSteps
<1> QED BY TopInvariant, <1>1, <1>2, PTL DEF Spec

-----------------------------------------------------------------------------
(* The refresh period of the source (1500 clocks) is longer than any       *)
(* operation (174), and than the wait for the mode register (6).           *)
RefreshAssumption == RefPeriod >= MaxOp + 2 /\ TMRD <= RefPeriod + MaxOp + 1

(* Clocks since A_REF and since the request differ by one period at most.  *)
LaterRequest ==
  /\ sinceRef <= RefAge + RefPeriod
  /\ work_state = "IDLE" => RefAge <= MaxOp
  /\ work_state = "AR" => RefAge <= MaxOp + 1

(* A request that has waited since before the initialisation ended may be  *)
(* older than a period; the arbiter grants it at once.                     *)
FirstRequest ==
  \/ work_state = "IDLE" /\ sinceRef <= TMRD
  \/ work_state = "AR" /\ sinceRef <= TMRD + 1

RefInv ==
  /\ sinceRef \in Nat
  /\ ready <=> init_state \in {20, I_DONE}
  /\ ~ready => sinceRef = 0
  /\ init_state = 20 => sinceRef < cnt_clk
  /\ work_state = "AR" => ref_req
  /\ ~ref_req => sinceRef <= RefAge
  /\ ref_req /\ init_done => LaterRequest \/ FirstRequest

(* An operation that runs has a clock left.                                *)
LEMMA OpRuns ==
  ASSUME CtrlInv, work_state \notin {"IDLE", "AR"}
  PROVE  OpLeft \in Int /\ OpLeft >= 1
<1>1. cnt_clk \in 0..511 /\ work_state \in W_States /\ OpLeft \in Int
  BY OpLeftBounded DEF OpLeftOK, CtrlInv, CtrlTypeOK
<1>2. OpLeftTable
  BY OpLeftCases
<1>3. CASE work_state \in {"ACTIVE", "TRCD"}
  <2>1. ColumnTail \in Nat /\ ColumnTail >= 1
    BY OperationSizes, TimingAssumption DEF TimingAssumption, ColumnTail, ReadTail, WriteTail
  <2> QED BY <1>1, <1>2, <1>3, <2>1, OperationSizes, TimingAssumption
             DEF TimingAssumption, OpLeftTable, CtrlInv, CounterInRange
<1>4. CASE work_state \in {"READ", "CL", "RD", "WRITE", "WD", "TDAL", "TRFC"}
  BY <1>1, <1>2, <1>4, TimingAssumption
     DEF TimingAssumption, OpLeftTable, CtrlInv, CounterInRange, ReadTail, WriteTail
<1> QED BY <1>1, <1>3, <1>4 DEF W_States

(* The age of the request in one clock.                                    *)
LEMMA AgeStep ==
  ASSUME CtrlInv, RefreshTimer
  PROVE  /\ RefAge \in 0..(RefPeriod - 1) /\ RefAge' \in 0..(RefPeriod - 1)
         /\ cnt_15us = RefPeriod - 2 => RefAge = RefPeriod - 1 /\ RefAge' = 0 /\ ref_req'
         /\ cnt_15us # RefPeriod - 2 => RefAge' = RefAge + 1 /\ (ref_req' <=> ref_req /\ ~ref_ack)
<1>1. /\ RefPeriod \in Nat /\ RefPeriod >= 2 /\ cnt_15us \in 0..(RefPeriod - 1)
      /\ cnt_15us' = IF cnt_15us < RefPeriod - 1 THEN cnt_15us + 1 ELSE 0
  BY TimingAssumption DEF TimingAssumption, CtrlInv, CtrlTypeOK, RefreshTimer
<1>2. /\ RefAge \in 0..(RefPeriod - 1) /\ RefAge' \in 0..(RefPeriod - 1)
      /\ cnt_15us = RefPeriod - 2 => RefAge = RefPeriod - 1 /\ RefAge' = 0
      /\ cnt_15us # RefPeriod - 2 => RefAge' = RefAge + 1
  BY <1>1 DEF RefAge
<1>3. ref_req' <=> cnt_15us = RefPeriod - 2 \/ (ref_req /\ ~ref_ack)
  BY DEF RefreshTimer
<1> QED BY <1>2, <1>3

LEMMA SinceRefStep ==
  ASSUME CtrlInv, RefInv, Watch
  PROVE  /\ sinceRef' \in Nat /\ sinceRef' <= sinceRef + 1
         /\ cmd' = "A_REF" => sinceRef' = 0
         /\ ~ready => sinceRef' = 0
         /\ ready' <=> ready \/ cmd' = "LMR"
<1>1. sinceRef \in Nat /\ (~ready => sinceRef = 0)
  BY DEF RefInv
<1>2. sinceRef' = IF cmd' = "A_REF" THEN 0
                 ELSE IF ready /\ sinceRef <= Retention THEN sinceRef + 1 ELSE sinceRef
  BY DEF Watch
<1>3. ready' <=> ready \/ cmd' = "LMR"
  BY DEF Watch, Chip!Observe
<1>4. sinceRef' \in Nat /\ sinceRef' <= sinceRef + 1
  <2>1. sinceRef' \in {0, sinceRef, sinceRef + 1}
    BY <1>2
  <2> QED BY <1>1, <2>1
<1>5. (cmd' = "A_REF" => sinceRef' = 0) /\ (~ready => sinceRef' = 0)
  BY <1>1, <1>2
<1> QED BY <1>3, <1>4, <1>5

(* While the chip is initialised.                                          *)
LEMMA RefInit ==
  ASSUME CtrlInv, InitCount, RefInv, ~init_done, NEW wr \in BOOLEAN, NEW rd \in BOOLEAN,
         NEW wp \in Pages, NEW rp \in Pages, Tick(wr, rd, wp, rp)
  PROVE  RefInv'
<1>1. /\ CtrlTick(wr, rd) /\ CmdTick(wp, rp) /\ Watch
      /\ InitFsm /\ DelayCounter /\ RefreshTimer
  BY DEF Tick, TopTick, CtrlTick
<1>2. work_state = "IDLE" /\ work_state' = "IDLE"
  BY <1>1, InitClock DEF CtrlInv, DirectionMatches
<1>3. init_state \in 0..20 /\ init_state # I_DONE
  BY DEF CtrlInv, CtrlTypeOK, I_States, init_done, I_DONE
<1>4. ready' <=> init_state' \in {20, I_DONE}
  <2>1. ready <=> init_state = 20
    BY <1>3 DEF RefInv
  <2>2. cmd' = "LMR" <=> init_state = I_MRS
    BY <1>1, InitCommand DEF I_MRS, I_PRE, I_AR
  <2>3. init_state' \in {20, I_DONE} <=> init_state \in {I_MRS, 20}
    <3>1. CASE init_state = I_NOP
      BY <1>1, <3>1, InitStep DEF I_NOP, I_PRE, I_DONE, I_MRS
    <3>2. CASE init_state \in I_Issue
      BY <1>1, <1>3, <3>2, InitStep DEF I_Issue, I_PRE, I_MRS, I_AR, I_DONE
    <3>3. CASE init_state \in I_Wait
      BY <1>1, <1>3, <3>3, InitStep DEF I_Wait, I_DONE, I_MRS
    <3> QED BY <1>3, <3>1, <3>2, <3>3 DEF I_NOP, I_PRE, I_Issue, I_MRS, I_AR, I_Wait
  <2> QED BY <1>1, <2>1, <2>2, <2>3, SinceRefStep DEF I_MRS
<1>5. ~ready' => sinceRef' = 0
  BY <1>1, SinceRefStep
<1>6. init_state' = 20 => sinceRef' < cnt_clk'
  <2> SUFFICES ASSUME init_state' = 20 PROVE sinceRef' < cnt_clk'
    OBVIOUS
  <2>1. init_state \in {19, 20}
    <3>1. CASE init_state = I_NOP
      BY <1>1, <3>1, InitStep DEF I_NOP, I_PRE
    <3>2. CASE init_state \in I_Issue
      BY <1>1, <3>2, InitStep DEF I_Issue, I_PRE, I_MRS, I_AR
    <3>3. CASE init_state \in I_Wait
      BY <1>1, <3>3, InitStep DEF I_Wait
    <3> QED BY <1>3, <3>1, <3>2, <3>3 DEF I_NOP, I_PRE, I_Issue, I_MRS, I_AR, I_Wait
  <2>2. CASE init_state = 19
    <3>1. cnt_clk' = 1
      BY <1>1, <2>2, InitStep DEF I_Issue, I_PRE, I_MRS
    <3>2. ~ready
      BY <2>2 DEF RefInv, I_DONE
    <3> QED BY <1>1, <3>1, <3>2, SinceRefStep
  <2>3. CASE init_state = 20
    <3>1. cnt_clk' = cnt_clk + 1 /\ cnt_clk \in 0..511
      BY <1>1, <2>3, InitStep DEF I_Wait, CtrlInv, CtrlTypeOK
    <3>2. sinceRef \in Nat /\ sinceRef < cnt_clk
      BY <2>3 DEF RefInv
    <3> QED BY <1>1, <3>1, <3>2, SinceRefStep
  <2> QED BY <2>1, <2>2, <2>3
<1>7. ~ref_req' => sinceRef' <= RefAge'
  <2> SUFFICES ASSUME ~ref_req' PROVE sinceRef' <= RefAge'
    OBVIOUS
  <2>1. cnt_15us # RefPeriod - 2 /\ RefAge' = RefAge + 1 /\ ~ref_req /\ RefAge \in Nat
    BY <1>1, <1>2, AgeStep, TimingAssumption DEF TimingAssumption, ref_ack
  <2>2. sinceRef \in Nat /\ sinceRef <= RefAge
    BY <2>1 DEF RefInv
  <2> QED BY <1>1, <2>1, <2>2, SinceRefStep
<1>8. init_done' => sinceRef' <= TMRD
  <2> SUFFICES ASSUME init_done' PROVE sinceRef' <= TMRD
    OBVIOUS
  <2>1. CASE ready
    <3>1. init_state = 20
      BY <1>3, <2>1 DEF RefInv
    <3>2. init_state \in I_Wait /\ InitDelay(init_state) = TMRD
      BY <3>1 DEF I_Wait, InitDelay
    <3>3. cnt_clk = TMRD
      BY <1>1, <3>1, <3>2, InitStep DEF init_done, I_DONE
    <3>4. sinceRef \in Nat /\ sinceRef < TMRD
      BY <3>1, <3>3 DEF RefInv
    <3> QED BY <1>1, <3>4, SinceRefStep, TimingAssumption DEF TimingAssumption
  <2>2. CASE ~ready
    BY <1>1, <2>2, SinceRefStep, TimingAssumption DEF TimingAssumption
  <2> QED BY <2>1, <2>2
<1>9. sinceRef' \in Nat
  BY <1>1, SinceRefStep
<1> QED BY <1>2, <1>4, <1>5, <1>6, <1>7, <1>8, <1>9 DEF RefInv, FirstRequest

(* In operation.                                                           *)
LEMMA RefWork ==
  ASSUME RefreshAssumption, CtrlInv, RefInv, RefreshDeadline, init_done,
         NEW wr \in BOOLEAN, NEW rd \in BOOLEAN,
         NEW wp \in Pages, NEW rp \in Pages, Tick(wr, rd, wp, rp)
  PROVE  RefInv'
<1>1. CtrlTick(wr, rd) /\ CmdTick(wp, rp) /\ Watch /\ RefreshTimer /\ WorkFsm(wr, rd)
  BY DEF Tick, TopTick, CtrlTick
<1>2. /\ init_done' /\ ready /\ ready'
      /\ (ready' <=> init_state' \in {20, I_DONE}) /\ init_state' # 20
  BY <1>1, WorkStep, SinceRefStep DEF RefInv, init_done, I_DONE
<1>3. /\ sinceRef \in Nat /\ sinceRef' \in Nat /\ sinceRef' <= sinceRef + 1
      /\ RefAge \in 0..(RefPeriod - 1) /\ RefAge' \in 0..(RefPeriod - 1)
      /\ RefPeriod \in Nat /\ MaxOp \in Int /\ MaxOp >= 2 /\ TMRD \in Nat
  BY <1>1, SinceRefStep, AgeStep, OperationSizes, TimingAssumption DEF TimingAssumption, RefInv
<1>4. /\ work_state' = "AR" => work_state = "IDLE" /\ ref_req
      /\ work_state = "IDLE" /\ ref_req => work_state' = "AR"
  BY <1>1 DEF WorkFsm, GrantRefresh, GrantWrite, GrantRead, StayIdle, RunOperation, Move, Column
<1>5. SUFFICES /\ work_state' = "AR" => ref_req'
               /\ ~ref_req' => sinceRef' <= RefAge'
               /\ ref_req' => LaterRequest' \/ FirstRequest'
  <2>1. sinceRef' \in Nat /\ (ready' <=> init_state' \in {20, I_DONE}') /\ (~ready' => sinceRef' = 0)
        /\ (init_state' = 20 => sinceRef' < cnt_clk')
    BY <1>2, <1>3 DEF I_DONE
  <2> QED BY <2>1 DEF RefInv
<1>6. CASE work_state = "AR"
  <2>1. sinceRef' = 0 /\ work_state' # "AR"
    BY <1>1, <1>4, <1>6, WorkCommand, SinceRefStep
  <2>2. ref_req' => RefAge' = 0
    BY <1>1, <1>6, AgeStep DEF ref_ack
  <2>3. ref_req' => LaterRequest'
    <3>1. MaxOp' = MaxOp
      BY DEF MaxOp, Larger, ReadTail, WriteTail
    <3> QED BY <1>3, <2>1, <2>2, <3>1 DEF LaterRequest
  <2>4. sinceRef' <= RefAge'
    BY <1>3, <2>1
  <2> QED BY <2>1, <2>3, <2>4
<1>7. CASE work_state # "AR" /\ ~ref_req
  <2>1. sinceRef <= RefAge /\ work_state' # "AR"
    BY <1>4, <1>7 DEF RefInv
  <2>2. CASE cnt_15us = RefPeriod - 2
    <3>1. ref_req' /\ RefAge = RefPeriod - 1 /\ RefAge' = 0
      BY <1>1, <2>2, AgeStep
    <3> QED BY <1>3, <2>1, <3>1 DEF LaterRequest, MaxOp, Larger, ReadTail, WriteTail
  <2>3. CASE cnt_15us # RefPeriod - 2
    <3>1. ~ref_req' /\ RefAge' = RefAge + 1
      BY <1>1, <1>7, <2>3, AgeStep
    <3> QED BY <1>3, <2>1, <3>1
  <2> QED BY <2>2, <2>3
<1>8. CASE work_state # "AR" /\ ref_req
  <2>1. ref_req'
    BY <1>1, <1>8, AgeStep DEF ref_ack
  <2>2. LaterRequest \/ FirstRequest
    BY <1>8 DEF RefInv
  <2>3. CASE FirstRequest
    BY <1>3, <1>4, <1>8, <2>1, <2>3, TimingAssumption DEF TimingAssumption, FirstRequest
  <2>4. CASE LaterRequest
    <3>1. RefAge <= MaxOp /\ (work_state # "IDLE" => RefAge + 1 <= MaxOp)
      <4>1. CASE work_state = "IDLE"
        BY <2>4, <4>1 DEF LaterRequest
      <4>2. CASE work_state # "IDLE"
        <5>1. RefAge + OpLeft <= MaxOp
          BY <1>8, <4>2 DEF RefreshDeadline
        <5>2. OpLeft \in Int /\ OpLeft >= 1
          BY <1>8, <4>2, OpRuns
        <5> QED BY <1>3, <4>2, <5>1, <5>2
      <4> QED BY <4>1, <4>2
    <3>2. cnt_15us # RefPeriod - 2
      BY <1>1, <1>3, <3>1, AgeStep DEF RefreshAssumption
    <3>3. RefAge' = RefAge + 1 /\ sinceRef <= RefAge + RefPeriod
      BY <1>1, <2>4, <3>2, AgeStep DEF LaterRequest
    <3>4. MaxOp' = MaxOp
      BY DEF MaxOp, Larger, ReadTail, WriteTail
    <3> QED BY <1>3, <1>4, <1>8, <2>1, <3>1, <3>3, <3>4 DEF LaterRequest
  <2> QED BY <2>2, <2>3, <2>4
<1> QED BY <1>6, <1>7, <1>8

(* The chip is refreshed in time, across initialisation, any requests and  *)
(* any resets.                                                             *)
THEOREM ChipRefreshedInTime ==
  ASSUME RefreshAssumption
  PROVE  Spec => []RefreshedInTime
<1>1. Init => RefInv
  <2>1. Init => RefAge \in Nat
    BY TimingAssumption DEF TimingAssumption, Init, TopInit, CtrlInit, RefAge
  <2> QED BY <2>1 DEF Init, TopInit, CtrlInit, RefInv, init_done, I_NOP, I_DONE
<1>2. CtrlInv /\ RefreshDeadline /\ InitCount /\ RefInv /\ [Next]_vars => RefInv'
  <2> SUFFICES ASSUME CtrlInv, RefreshDeadline, InitCount, RefInv, [Next]_vars PROVE RefInv'
    OBVIOUS
  <2>1. CASE Reset
    <3>1. RefAge' \in Nat
      BY <2>1, TimingAssumption DEF TimingAssumption, Reset, TopReset, CtrlReset, RefAge
    <3> QED BY <2>1, <3>1 DEF Reset, TopReset, CtrlReset, RefInv, init_done, I_NOP, I_DONE
  <2>2. CASE UNCHANGED vars
    BY <2>2 DEF vars, topVars, ctrlVars, cmdVars, datVars, chipVars, RefInv, LaterRequest,
                FirstRequest, RefAge, MaxOp, Larger, ReadTail, WriteTail, init_done
  <2>3. ASSUME NEW wr \in BOOLEAN, NEW rd \in BOOLEAN, NEW wp \in Pages, NEW rp \in Pages,
               Tick(wr, rd, wp, rp)
        PROVE  RefInv'
    BY <2>3, RefInit, RefWork, RefreshAssumption
  <2> QED BY <2>1, <2>2, <2>3, TopSteps
<1>3. CtrlInv /\ RefreshDeadline /\ InitCount /\ RefInv => RefreshedInTime
  <2> SUFFICES ASSUME CtrlInv, RefreshDeadline, InitCount, RefInv PROVE sinceRef <= Retention
    BY DEF RefreshedInTime
  <2>1. /\ sinceRef \in Nat /\ RefAge \in 0..(RefPeriod - 1) /\ RefPeriod \in Nat
        /\ MaxOp \in Int /\ MaxOp >= 2 /\ TMRD \in Nat
    BY OperationSizes, TimingAssumption
       DEF TimingAssumption, RefInv, RefAge, CtrlInv, CtrlTypeOK
  <2>2. CASE ~ref_req
    BY <2>1, <2>2 DEF RefInv, Retention
  <2>3. CASE ref_req /\ init_done
    <3>1. LaterRequest \/ FirstRequest
      BY <2>3 DEF RefInv
    <3>2. CASE FirstRequest
      BY <2>1, <3>2, RefreshAssumption DEF RefreshAssumption, FirstRequest, Retention
    <3>3. CASE LaterRequest
      <4>1. RefAge <= MaxOp + 1
        <5>1. CASE work_state \in {"IDLE", "AR"}
          BY <2>1, <3>3, <5>1 DEF LaterRequest
        <5>2. CASE work_state \notin {"IDLE", "AR"}
          BY <2>1, <2>3, <5>2, OpRuns DEF RefreshDeadline
        <5> QED BY <5>1, <5>2
      <4> QED BY <2>1, <3>3, <4>1 DEF LaterRequest, Retention
    <3> QED BY <3>1, <3>2, <3>3
  <2>4. CASE ~init_done
    <3>1. CASE init_state = 20
      <4>1. sinceRef < cnt_clk /\ cnt_clk \in 1..TMRD
        BY <3>1 DEF RefInv, InitCount, I_Wait, InitDelay
      <4> QED BY <2>1, <4>1, RefreshAssumption DEF RefreshAssumption, Retention
    <3>2. CASE init_state # 20
      BY <2>1, <2>4, <3>2 DEF RefInv, init_done, Retention
    <3> QED BY <3>1, <3>2
  <2> QED BY <2>2, <2>3, <2>4
<1> QED BY TopInvariant, InitCountInvariant, <1>1, <1>2, <1>3, PTL DEF Spec

-----------------------------------------------------------------------------
(* The chip's rules.  A read burst has the right length with the latency   *)
(* of 3 that the source ships with (the counts in end_rdburst and          *)
(* end_tread allow for that), and with four words or more; the stop of a   *)
(* read is followed by 7 clocks without a command.  The count gap tells    *)
(* apart all that the rules do.                                            *)
BurstAssumption ==
  /\ TCL = 3 /\ RdByte >= 4 /\ TDAL <= 8
  /\ GapCap \in Nat
  /\ GapCap >= TRP /\ GapCap >= TRFC /\ GapCap >= TMRD /\ GapCap >= TRCD
  /\ GapCap >= TDAL /\ GapCap >= WrByte /\ GapCap >= RdByte

(* The command before an initialisation state, and the refreshes.          *)
Before(s) == IF s < 2 THEN "INIT" ELSE IF s < 4 THEN "PRGE" ELSE IF s < 20 THEN "A_REF" ELSE "LMR"
Refreshed(s) == IF s < 3 THEN 0 ELSE IF s > 18 THEN 8 ELSE (s - 2) \div 2

(* Before each command of the initialisation the one before it has been    *)
(* given its time.                                                         *)
InitGap ==
  /\ nref = Refreshed(init_state)
  /\ ready <=> init_state \in {20, I_DONE}
  /\ ~init_done => last = Before(init_state)
  /\ init_state \in I_Wait => gap = cnt_clk - 1
  /\ init_state \in I_Issue \ {I_PRE} => gap + 1 >= InitDelay(init_state - 1)

(* The chip has no row open, and n clocks from now its time is over.       *)
Rested(n) ==
  \/ last = "LMR"    /\ gap + n >= TMRD
  \/ last = "A_REF"  /\ gap + n >= TRFC
  \/ last = "B_STOP" /\ gap + n >= TDAL

(* What the chip has seen in each working state.                           *)
WorkGap ==
  /\ work_state = "IDLE" => Rested(2)
  /\ work_state \in {"ACTIVE", "AR"} => Rested(1)
  /\ work_state = "TRCD" => last = "ACTIVE" /\ gap = cnt_clk - 1
  /\ work_state \in {"READ", "WRITE"} => last = "ACTIVE" /\ gap + 1 >= TRCD
  /\ work_state = "CL" => last = "READ" /\ gap = cnt_clk
  /\ work_state = "RD" => IF cnt_clk <= RdByte - 4
                          THEN last = "READ" /\ gap = cnt_clk + 3
                          ELSE last = "B_STOP" /\ gap + RdByte + 5 - cnt_clk >= TDAL
  /\ work_state = "WD" => last = "WRITE" /\ gap = cnt_clk
  /\ work_state = "TDAL" => last = "B_STOP" /\ gap >= cnt_clk
  /\ work_state = "TRFC" => last = "A_REF" /\ gap >= cnt_clk

ChipInv == gap \in 0..GapCap /\ InitGap /\ (init_done => WorkGap)

(* One clock of the chip's bookkeeping.                                    *)
LEMMA Quieter ==
  ASSUME BurstAssumption, gap \in 0..GapCap, Watch, cmd' = "NOP"
  PROVE  /\ last' = last /\ nref' = nref /\ (ready' <=> ready) /\ gap' \in 0..GapCap
         /\ gap < GapCap => gap' = gap + 1
         /\ gap = GapCap => gap' = GapCap
<1>1. /\ last' = last /\ nref' = nref
      /\ gap' = IF gap < GapCap THEN gap + 1 ELSE gap
  BY DEF Watch, Chip!Observe
<1>2. ready' <=> ready
  BY DEF Watch, Chip!Observe
<1>3. GapCap \in Nat
  BY DEF BurstAssumption
<1>4. /\ gap' \in 0..GapCap
      /\ gap < GapCap => gap' = gap + 1
      /\ gap = GapCap => gap' = GapCap
  BY <1>1, <1>3
<1> QED BY <1>1, <1>2, <1>4

LEMMA Issued ==
  ASSUME BurstAssumption, Watch, cmd' \in {"PRGE", "A_REF", "LMR", "ACTIVE", "READ", "WRITE", "B_STOP"}
  PROVE  last' = cmd' /\ gap' = 0 /\ gap' \in 0..GapCap
BY DEF BurstAssumption, Watch, Chip!Observe

LEMMA WaitStep ==
  ASSUME Watch, cmd' = "NOP", last = "WRITE" => gap + 1 < WrByte, last = "READ" => gap + 1 < RdByte
  PROVE  Chip!Next
BY DEF Watch, Chip!Next, Chip!Wait, Chip!MayWait

LEMMA CommandStep ==
  ASSUME Watch, cmd' \in {"PRGE", "A_REF", "LMR", "ACTIVE", "READ", "WRITE", "B_STOP"},
         Chip!MayFollow(cmd', gap + 1)
  PROVE  Chip!Next
BY DEF Watch, Chip!Next, Chip!Command

(* While the chip is initialised.                                          *)
LEMMA ChipInit ==
  ASSUME BurstAssumption, CtrlInv, InitCount, ChipInv, ~init_done,
         NEW wr \in BOOLEAN, NEW rd \in BOOLEAN,
         NEW wp \in Pages, NEW rp \in Pages, Tick(wr, rd, wp, rp)
  PROVE  ChipInv' /\ Chip!Next
<1>1. CmdTick(wp, rp) /\ Watch /\ InitFsm /\ DelayCounter
  BY DEF Tick, TopTick, CtrlTick
<1>2. work_state' = "IDLE"
  BY InitClock DEF Tick, TopTick
<1>3. /\ init_state \in 0..20 /\ cnt_clk \in 0..511 /\ gap \in 0..GapCap /\ GapCap \in Nat
      /\ InitDelay(init_state) \in 0..511 /\ InitDelay(init_state) <= GapCap
  BY TimingAssumption DEF TimingAssumption, BurstAssumption, CtrlInv, CtrlTypeOK, I_States,
     init_done, I_DONE, InitDelay, ChipInv
<1>4. last = Before(init_state) /\ nref = Refreshed(init_state) /\ (ready <=> init_state = 20)
  BY <1>3 DEF ChipInv, InitGap, init_done, I_DONE
<1>5. /\ init_state = I_PRE => cmd' = "PRGE"
      /\ init_state \in I_AR => cmd' = "A_REF"
      /\ init_state = I_MRS => cmd' = "LMR"
      /\ init_state \in {I_NOP} \cup I_Wait => cmd' = "NOP"
  BY <1>1, InitCommand DEF I_PRE, I_AR, I_MRS, I_NOP, I_Wait
<1>6. CASE init_state = I_NOP
  <2>1. cmd' = "NOP" /\ init_state' \in {0, 1} /\ last = "INIT" /\ nref = 0 /\ ~ready
    BY <1>1, <1>4, <1>5, <1>6, InitStep DEF I_NOP, I_PRE, Before, Refreshed
  <2>2. gap' \in 0..GapCap /\ last' = "INIT" /\ nref' = 0 /\ ~ready'
    BY <1>1, <1>3, <2>1, Quieter
  <2>3. ChipInv'
    <3>1. /\ init_state' # I_DONE /\ init_state' \notin {20, I_DONE} /\ init_state' \notin I_Wait
          /\ init_state' \notin I_Issue \ {I_PRE}
          /\ Before(init_state') = "INIT" /\ Refreshed(init_state') = 0
      <4>1. CASE init_state' = 0
        BY <4>1 DEF I_DONE, I_PRE, I_Issue, I_MRS, I_AR, I_Wait, Before, Refreshed
      <4>2. CASE init_state' = 1
        BY <4>2 DEF I_DONE, I_PRE, I_Issue, I_MRS, I_AR, I_Wait, Before, Refreshed
      <4> QED BY <2>1, <4>1, <4>2
    <3>2. InitGap' /\ ~init_done'
      BY <2>2, <3>1 DEF InitGap, init_done
    <3> QED BY <2>2, <3>2 DEF ChipInv
  <2>4. Chip!Next
    BY <1>1, <2>1, WaitStep
  <2> QED BY <2>3, <2>4
<1>7. CASE init_state \in I_Wait
  <2>1. cmd' = "NOP" /\ last \notin {"READ", "WRITE"} /\ gap = cnt_clk - 1
    BY <1>4, <1>5, <1>7 DEF Before, ChipInv, InitGap
  <2>2. cnt_clk \in 1..InitDelay(init_state)
    BY <1>7 DEF InitCount
  <2>3. /\ last' = last /\ nref' = nref /\ (ready' <=> ready) /\ gap' \in 0..GapCap /\ gap' = gap + 1
    BY <1>1, <1>3, <2>1, <2>2, Quieter
  <2>4. Chip!Next
    BY <1>1, <2>1, WaitStep
  <2>5. CASE cnt_clk = InitDelay(init_state)
    <3>1. init_state' = init_state + 1 /\ gap' = InitDelay(init_state)
      BY <1>1, <1>3, <1>7, <2>1, <2>3, <2>5, InitStep
    <3>2. /\ Before(init_state + 1) = Before(init_state)
          /\ Refreshed(init_state + 1) = Refreshed(init_state)
          /\ init_state + 1 \in I_Issue \cup {I_DONE} /\ init_state + 1 \notin I_Wait
          /\ (init_state + 1) - 1 = init_state
          /\ init_state + 1 \in {20, I_DONE} <=> init_state = 20
          /\ init_state + 1 = I_DONE <=> init_state = 20
      BY <1>7 DEF Before, Refreshed, I_Wait, I_Issue, I_PRE, I_MRS, I_AR, I_DONE
    <3>3. InitGap'
      BY <1>3, <1>4, <2>3, <3>1, <3>2 DEF InitGap, init_done, InitDelay
    <3>4. init_done' => WorkGap'
      <4>1. init_state = 20 => last = "LMR" /\ InitDelay(init_state) = TMRD
        BY <1>4 DEF Before, InitDelay
      <4> QED BY <1>2, <1>3, <2>3, <3>1, <3>2, <4>1 DEF WorkGap, Rested, init_done
    <3> QED BY <2>3, <2>4, <3>3, <3>4 DEF ChipInv
  <2>6. CASE cnt_clk # InitDelay(init_state)
    <3>1. init_state' = init_state /\ cnt_clk' = cnt_clk + 1
      BY <1>1, <1>7, <2>6, InitStep
    <3>2. init_state \notin I_Issue
      BY <1>7 DEF I_Wait, I_Issue, I_PRE, I_MRS, I_AR
    <3>3. ~init_done'
      BY <3>1 DEF init_done
    <3>4. InitGap'
      BY <1>3, <1>4, <2>1, <2>3, <3>1, <3>2 DEF InitGap, ChipInv
    <3> QED BY <2>3, <2>4, <3>3, <3>4 DEF ChipInv
  <2> QED BY <2>5, <2>6
<1>8. CASE init_state \in I_Issue
  <2>1. cmd' \in {"PRGE", "A_REF", "LMR"} /\ cmd' = Before(init_state + 1) /\ cmd' = Before(init_state + 2)
    BY <1>5, <1>8 DEF Before, I_Issue, I_PRE, I_MRS, I_AR
  <2>2. last' = cmd' /\ gap' = 0 /\ gap' \in 0..GapCap
    BY <1>1, <2>1, Issued
  <2>3. nref' = Refreshed(init_state + 1) /\ nref' = Refreshed(init_state + 2)
    <3>1. nref' = IF cmd' = "PRGE" THEN 0 ELSE IF cmd' = "A_REF" /\ nref < 8 THEN nref + 1 ELSE nref
      BY <1>1 DEF Watch, Chip!Observe, Chip!Refreshes
    <3> QED BY <1>4, <1>5, <1>8, <3>1 DEF Refreshed, I_Issue, I_PRE, I_MRS, I_AR
  <2>4. ready' <=> init_state = I_MRS
    <3>1. ready' <=> ready \/ cmd' = "LMR"
      BY <1>1 DEF Watch, Chip!Observe
    <3> QED BY <1>4, <1>5, <1>8, <3>1 DEF I_Issue, I_PRE, I_MRS, I_AR
  <2>5. InitDelay(init_state + 1) = InitDelay(init_state)
    BY <1>8 DEF InitDelay, I_PRE, I_Issue, I_MRS, I_AR
  <2>6. Chip!Next
    <3>1. init_state \in I_Issue \ {I_PRE} => gap + 1 >= InitDelay(init_state - 1)
      BY DEF ChipInv, InitGap
    <3>2. Chip!MayFollow(cmd', gap + 1)
      <4>1. CASE init_state = I_PRE
        BY <1>4, <1>5, <4>1 DEF Before, I_PRE, Chip!MayFollow
      <4>2. CASE init_state = 3
        <5>1. gap + 1 >= TRP /\ last = "PRGE" /\ cmd' = "A_REF"
          BY <1>4, <1>5, <3>1, <4>2 DEF Before, I_Issue, I_AR, I_PRE, InitDelay
        <5> QED BY <5>1 DEF Chip!MayFollow
      <4>3. CASE init_state \in I_AR \ {3}
        <5>1. gap + 1 >= TRFC /\ last = "A_REF" /\ cmd' = "A_REF" /\ nref < 8 /\ ~ready
          BY <1>4, <1>5, <3>1, <4>3 DEF Before, Refreshed, I_Issue, I_AR, I_PRE, InitDelay
        <5> QED BY <5>1 DEF Chip!MayFollow, Chip!Refreshes
      <4>4. CASE init_state = I_MRS
        <5>1. gap + 1 >= TRFC /\ last = "A_REF" /\ cmd' = "LMR" /\ nref = 8 /\ ~ready
          BY <1>4, <1>5, <3>1, <4>4 DEF Before, Refreshed, I_Issue, I_MRS, I_PRE, InitDelay
        <5> QED BY <5>1 DEF Chip!MayFollow, Chip!Refreshes
      <4> QED BY <1>8, <4>1, <4>2, <4>3, <4>4 DEF I_Issue
    <3> QED BY <1>1, <2>1, <3>2, CommandStep
  <2>7. CASE InitDelay(init_state) = 0
    <3>1. init_state' = init_state + 2
      BY <1>1, <1>8, <2>7, InitStep
    <3>2. /\ init_state + 2 \in I_Issue \cup {I_DONE} /\ init_state + 2 \notin I_Wait
          /\ (init_state + 2) - 1 = init_state + 1
          /\ init_state + 2 \in {20, I_DONE} <=> init_state = I_MRS
          /\ init_state + 2 = I_DONE <=> init_state = I_MRS
      BY <1>8 DEF I_Wait, I_Issue, I_PRE, I_MRS, I_AR, I_DONE
    <3>3. InitGap'
      BY <2>1, <2>2, <2>3, <2>4, <2>5, <2>7, <3>1, <3>2 DEF InitGap, init_done, InitDelay
    <3>4. init_done' => WorkGap'
      <4>1. init_state = I_MRS => cmd' = "LMR" /\ TMRD = 0
        BY <1>5, <2>7 DEF InitDelay, I_MRS
      <4> QED BY <1>2, <2>2, <3>1, <3>2, <4>1 DEF WorkGap, Rested, init_done
    <3> QED BY <2>2, <2>6, <3>3, <3>4 DEF ChipInv
  <2>8. CASE InitDelay(init_state) # 0
    <3>1. init_state' = init_state + 1 /\ cnt_clk' = 1
      BY <1>1, <1>8, <2>8, InitStep
    <3>2. /\ init_state + 1 \in I_Wait /\ init_state + 1 \notin I_Issue \cup {I_DONE}
          /\ init_state + 1 \in {20, I_DONE} <=> init_state = I_MRS
      BY <1>8 DEF I_Wait, I_Issue, I_PRE, I_MRS, I_AR, I_DONE
    <3>3. InitGap' /\ ~init_done'
      BY <2>1, <2>2, <2>3, <2>4, <3>1, <3>2 DEF InitGap, init_done
    <3> QED BY <2>2, <2>6, <3>3 DEF ChipInv
  <2> QED BY <2>7, <2>8
<1> QED BY <1>3, <1>6, <1>7, <1>8 DEF I_NOP, I_Issue, I_PRE, I_MRS, I_AR, I_Wait

(* The count of clocks since the last command, capped or not, never falls  *)
(* behind a wait that is no longer than the cap.                           *)
LEMMA GapGrows ==
  ASSUME NEW g \in Nat, NEW h \in Nat, NEW cap \in Nat, NEW t \in Nat, NEW c \in Nat,
         h = g + 1 \/ h = cap, t <= cap
  PROVE  /\ g + 2 >= t => h + 1 >= t /\ h + 2 >= t
         /\ g + 3 >= t => h + 2 >= t
         /\ g >= c /\ c <= t => (c = t => h + 2 >= t) /\ (c # t => h >= c + 1)
OBVIOUS

LEMMA GapAfterRead ==
  ASSUME NEW g \in Nat, NEW h \in Nat, NEW cap \in Nat, NEW t \in Nat, NEW c \in Nat, NEW r \in Nat,
         h = g + 1 \/ h = cap, t <= cap, c <= r + 2, g + r + 5 - c >= t
  PROVE  c # r + 2 => h + r + 5 - (c + 1) >= t
OBVIOUS

(* While it works.                                                         *)
LEMMA ChipWork ==
  ASSUME BurstAssumption, CtrlInv, ChipInv, init_done,
         NEW wr \in BOOLEAN, NEW rd \in BOOLEAN,
         NEW wp \in Pages, NEW rp \in Pages, Tick(wr, rd, wp, rp)
  PROVE  ChipInv' /\ Chip!Next
<1>1. CtrlTick(wr, rd) /\ CmdTick(wp, rp) /\ Watch /\ DelayCounter
  BY DEF Tick, TopTick, CtrlTick
<1>2. init_done' /\ init_state = I_DONE /\ init_state' = I_DONE
  BY <1>1, WorkStep DEF init_done
<1>3. nref = 8 /\ WorkGap /\ gap \in 0..GapCap
  BY <1>2 DEF ChipInv, InitGap, Refreshed, I_DONE
<1>3a. ready /\ Column \in {"READ", "WRITE"}
  BY <1>2 DEF ChipInv, InitGap, Column
<1>4. ASSUME nref' = 8, ready', gap' \in 0..GapCap, WorkGap'
      PROVE  ChipInv'
  <2>1. /\ Refreshed(I_DONE) = 8 /\ I_DONE \notin I_Wait /\ I_DONE \notin I_Issue
        /\ I_DONE \in {20, I_DONE}
    BY DEF Refreshed, I_DONE, I_Wait, I_Issue, I_PRE, I_MRS, I_AR
  <2>2. InitGap'
    BY <1>2, <1>4, <2>1 DEF InitGap
  <2> QED BY <1>4, <2>2 DEF ChipInv
<1>5. /\ cnt_clk \in 0..511 /\ work_state \in W_States /\ GapCap \in Nat /\ CounterInRange
  BY DEF CtrlInv, CtrlTypeOK, BurstAssumption
<1>6. ASSUME cmd' \in {"A_REF", "ACTIVE", "READ", "WRITE", "B_STOP"}
      PROVE  last' = cmd' /\ gap' = 0 /\ gap' \in 0..GapCap /\ nref' = 8 /\ ready'
  <2>1. last' = cmd' /\ gap' = 0 /\ gap' \in 0..GapCap
    BY <1>1, <1>6, Issued
  <2>2. nref' = 8
    BY <1>1, <1>3, <1>6 DEF Watch, Chip!Observe, Chip!Refreshes
  <2>3. ready'
    BY <1>1, <1>3a DEF Watch, Chip!Observe
  <2> QED BY <2>1, <2>2, <2>3
<1>7. ASSUME cmd' = "NOP"
      PROVE  /\ last' = last /\ nref' = 8 /\ gap' \in 0..GapCap
             /\ gap < GapCap => gap' = gap + 1
             /\ gap = GapCap => gap' = GapCap
  BY <1>1, <1>3, <1>7, Quieter
<1>7a. ASSUME cmd' = "NOP", WorkGap' PROVE ChipInv'
  <2>1. ready'
    <3>1. ready' <=> ready
      BY <1>1, <1>3, <1>7a, Quieter
    <3> QED BY <1>3a, <3>1
  <2> QED BY <1>4, <1>7, <1>7a, <2>1
<1>8. /\ GapCap >= TMRD /\ GapCap >= TRFC /\ GapCap >= TDAL /\ TDAL <= 8
      /\ GapCap >= TRCD /\ GapCap >= WrByte /\ GapCap >= RdByte
      /\ TMRD \in Nat /\ TRFC \in Nat /\ TDAL \in Nat /\ TRCD \in Nat /\ TCL = 3
      /\ WrByte \in Nat /\ RdByte \in Nat /\ RdByte >= 4 /\ WrByte >= 1
  BY TimingAssumption DEF TimingAssumption, BurstAssumption
<1>9. ASSUME cmd' = "NOP", last \notin {"READ", "WRITE"}
      PROVE  Chip!Next
  BY <1>1, <1>9, WaitStep
<1>9a. gap \in Nat /\ gap <= GapCap /\ GapCap \in Nat /\ cnt_clk \in Nat
  BY <1>3, <1>5
<1>10. CASE work_state = "IDLE"
  <2>1. cmd' = "NOP" /\ Rested(2) /\ last \notin {"READ", "WRITE"}
    BY <1>1, <1>3, <1>10, WorkCommand DEF WorkGap, Rested
  <2>2. Rested(1)' /\ Rested(2)'
    <3>1. gap' \in Nat /\ last' = last /\ (gap' = gap + 1 \/ gap' = GapCap)
      BY <1>3, <1>5, <1>7, <2>1
    <3>2. gap + 2 >= TMRD => gap' + 1 >= TMRD /\ gap' + 2 >= TMRD
      BY <1>8, <1>9a, <3>1, GapGrows
    <3>3. gap + 2 >= TRFC => gap' + 1 >= TRFC /\ gap' + 2 >= TRFC
      BY <1>8, <1>9a, <3>1, GapGrows
    <3>4. gap + 2 >= TDAL => gap' + 1 >= TDAL /\ gap' + 2 >= TDAL
      BY <1>8, <1>9a, <3>1, GapGrows
    <3> QED BY <2>1, <3>1, <3>2, <3>3, <3>4 DEF Rested
  <2>3. work_state' \in {"IDLE", "ACTIVE", "AR"}
    BY <1>1, <1>10, WorkStep
  <2>4. WorkGap'
    BY <2>2, <2>3 DEF WorkGap
  <2> QED BY <1>7a, <1>9, <2>1, <2>4
<1>11. CASE work_state = "ACTIVE"
  <2>1. cmd' = "ACTIVE" /\ Rested(1)
    BY <1>1, <1>3, <1>11, WorkCommand DEF WorkGap
  <2>2. Chip!Next
    <3>1. Chip!MayFollow("ACTIVE", gap + 1)
      BY <1>3a, <2>1 DEF Rested, Chip!MayFollow
    <3> QED BY <1>1, <2>1, <3>1, CommandStep
  <2>3. WorkGap'
    <3>1. /\ work_state' = IF TRCD = 0 THEN Column ELSE "TRCD"
          /\ cnt_clk' = IF TRCD = 0 THEN 0 ELSE 1
      BY <1>1, <1>11, WorkStep, DelayStep
    <3>2. CASE TRCD = 0
      BY <1>6, <1>3a, <2>1, <3>1, <3>2 DEF WorkGap
    <3>3. CASE TRCD # 0
      BY <1>6, <2>1, <3>1, <3>3 DEF WorkGap
    <3> QED BY <3>2, <3>3
  <2> QED BY <1>4, <1>6, <2>1, <2>2, <2>3
<1>12. CASE work_state = "TRCD"
  <2>1. /\ cmd' = "NOP" /\ last = "ACTIVE" /\ gap = cnt_clk - 1
        /\ cnt_clk \in 1..(TRCD - 1)
    BY <1>1, <1>3, <1>5, <1>12, WorkCommand DEF WorkGap, CounterInRange
  <2>2. gap' = gap + 1 /\ last' = "ACTIVE"
    <3>1. gap < GapCap
      BY <1>8, <1>9a, <2>1
    <3> QED BY <1>7, <2>1, <3>1
  <2>3. WorkGap'
    <3>1. /\ work_state' = IF cnt_clk = TRCD - 1 THEN Column ELSE "TRCD"
          /\ cnt_clk' = IF cnt_clk = TRCD - 1 THEN 0 ELSE cnt_clk + 1
      BY <1>1, <1>12, WorkStep, DelayStep DEF end_trcd
    <3>2. \/ work_state' \in {"READ", "WRITE"} /\ cnt_clk = TRCD - 1
          \/ work_state' = "TRCD" /\ cnt_clk' = cnt_clk + 1
      BY <1>3a, <3>1
    <3> QED BY <1>5, <1>8, <2>1, <2>2, <3>2 DEF WorkGap
  <2> QED BY <1>7a, <1>9, <2>1, <2>3
<1>13. CASE work_state \in {"READ", "WRITE"}
  <2>1. cmd' = work_state /\ last = "ACTIVE" /\ gap + 1 >= TRCD
    BY <1>1, <1>3, <1>13, WorkCommand DEF WorkGap
  <2>2. Chip!Next
    <3>1. Chip!MayFollow(cmd', gap + 1)
      BY <1>13, <2>1 DEF Chip!MayFollow
    <3> QED BY <1>1, <1>13, <2>1, <3>1, CommandStep
  <2>3. WorkGap'
    <3>1. /\ work_state' = IF work_state = "READ" THEN "CL" ELSE "WD"
          /\ cnt_clk' = 0
      BY <1>1, <1>13, WorkStep, DelayStep
    <3> QED BY <1>6, <1>13, <2>1, <3>1 DEF WorkGap
  <2> QED BY <1>4, <1>6, <1>13, <2>1, <2>2, <2>3
<1>14. CASE work_state = "CL"
  <2>1. cmd' = "NOP" /\ last = "READ" /\ gap = cnt_clk /\ cnt_clk <= 2
    BY <1>1, <1>3, <1>5, <1>8, <1>14, WorkCommand DEF WorkGap, CounterInRange
  <2>2. gap' = gap + 1 /\ last' = "READ"
    BY <1>3, <1>5, <1>7, <1>8, <2>1
  <2>3. Chip!Next
    BY <1>1, <1>5, <1>8, <2>1, WaitStep
  <2>4. WorkGap'
    <3>1. /\ work_state' = IF cnt_clk = 2 THEN "RD" ELSE "CL"
          /\ cnt_clk' = IF cnt_clk = 2 THEN 0 ELSE cnt_clk + 1
      BY <1>1, <1>8, <1>14, WorkStep, DelayStep DEF end_tcl
    <3> QED BY <1>5, <1>8, <2>1, <2>2, <3>1 DEF WorkGap
  <2> QED BY <1>7a, <2>1, <2>3, <2>4
<1>15. CASE work_state = "RD"
  <2>0. /\ work_state' = IF cnt_clk = RdByte + 2 THEN "IDLE" ELSE "RD"
        /\ cnt_clk' = IF cnt_clk = RdByte + 2 THEN 0 ELSE cnt_clk + 1
    BY <1>1, <1>15, WorkStep, DelayStep DEF end_tread
  <2>1. CASE cnt_clk < RdByte - 4
    <3>1. cmd' = "NOP" /\ last = "READ" /\ gap = cnt_clk + 3
      BY <1>1, <1>3, <1>5, <1>8, <1>15, <2>1, WorkCommand DEF WorkGap, end_rdburst
    <3>2. gap' = gap + 1 /\ last' = "READ"
      BY <1>3, <1>5, <1>7, <1>8, <2>1, <3>1
    <3>3. Chip!Next
      BY <1>1, <1>5, <1>8, <2>1, <3>1, WaitStep
    <3>4. WorkGap'
      <4>1. work_state' = "RD" /\ cnt_clk' = cnt_clk + 1
        BY <1>5, <1>8, <2>0, <2>1
      <4> QED BY <1>5, <1>8, <2>1, <3>1, <3>2, <4>1 DEF WorkGap
    <3> QED BY <1>7a, <3>1, <3>3, <3>4
  <2>2. CASE cnt_clk = RdByte - 4
    <3>1. cmd' = "B_STOP" /\ last = "READ" /\ gap + 1 = RdByte
      BY <1>1, <1>3, <1>5, <1>8, <1>15, <2>2, WorkCommand DEF WorkGap, end_rdburst
    <3>2. Chip!Next
      <4>1. Chip!MayFollow("B_STOP", gap + 1)
        BY <3>1 DEF Chip!MayFollow
      <4> QED BY <1>1, <3>1, <4>1, CommandStep
    <3>3. WorkGap'
      <4>1. work_state' = "RD" /\ cnt_clk' = cnt_clk + 1
        BY <1>5, <1>8, <2>0, <2>2
      <4> QED BY <1>5, <1>6, <1>8, <2>2, <3>1, <4>1 DEF WorkGap
    <3> QED BY <1>4, <1>6, <3>1, <3>2, <3>3
  <2>3. CASE cnt_clk > RdByte - 4
    <3>1. /\ cmd' = "NOP" /\ last = "B_STOP" /\ gap + RdByte + 5 - cnt_clk >= TDAL
          /\ cnt_clk <= RdByte + 2
      BY <1>1, <1>3, <1>5, <1>8, <1>15, <2>3, WorkCommand DEF WorkGap, end_rdburst, CounterInRange
    <3>2. gap' \in Nat /\ last' = "B_STOP" /\ (gap' = gap + 1 \/ gap' = GapCap)
      BY <1>3, <1>5, <1>7, <3>1
    <3>3. WorkGap'
      <4>1. CASE cnt_clk = RdByte + 2
        <5>0. gap + 3 >= TDAL
          BY <1>8, <1>9a, <3>1, <4>1
        <5>1. gap' + 2 >= TDAL
          BY <1>8, <1>9a, <3>2, <5>0, GapGrows
        <5> QED BY <2>0, <3>2, <4>1, <5>1 DEF WorkGap, Rested
      <4>2. CASE cnt_clk # RdByte + 2
        <5>1. work_state' = "RD" /\ cnt_clk' = cnt_clk + 1
          BY <2>0, <4>2
        <5>2. gap' + RdByte + 5 - (cnt_clk + 1) >= TDAL
          BY <1>5, <1>8, <1>9a, <3>1, <3>2, <4>2, GapAfterRead
        <5>3. ~(cnt_clk + 1 <= RdByte - 4)
          BY <1>8, <1>9a, <2>3
        <5> QED BY <3>2, <5>1, <5>2, <5>3 DEF WorkGap
      <4> QED BY <4>1, <4>2
    <3> QED BY <1>7a, <1>9, <3>1, <3>3
  <2> QED BY <1>5, <1>8, <2>1, <2>2, <2>3
<1>16. CASE work_state = "WD"
  <2>0. /\ work_state' = IF cnt_clk = WrByte - 1 THEN "TDAL" ELSE "WD"
        /\ cnt_clk' = IF cnt_clk = WrByte - 1 THEN 0 ELSE cnt_clk + 1
        /\ cnt_clk <= WrByte - 1 /\ last = "WRITE" /\ gap = cnt_clk
    BY <1>1, <1>3, <1>5, <1>16, WorkStep, DelayStep DEF end_twrite, CounterInRange, WorkGap
  <2>1. CASE cnt_clk = WrByte - 1
    <3>1. cmd' = "B_STOP" /\ gap + 1 = WrByte
      BY <1>1, <1>5, <1>8, <1>16, <2>0, <2>1, WorkCommand DEF end_wrburst
    <3>2. Chip!Next
      <4>1. Chip!MayFollow("B_STOP", gap + 1)
        BY <2>0, <3>1 DEF Chip!MayFollow
      <4> QED BY <1>1, <3>1, <4>1, CommandStep
    <3>3. WorkGap'
      BY <1>6, <2>0, <2>1, <3>1 DEF WorkGap
    <3> QED BY <1>4, <1>6, <3>1, <3>2, <3>3
  <2>2. CASE cnt_clk # WrByte - 1
    <3>1. cmd' = "NOP" /\ gap + 1 < WrByte
      BY <1>1, <1>5, <1>8, <1>16, <2>0, <2>2, WorkCommand DEF end_wrburst
    <3>2. gap' = gap + 1 /\ last' = "WRITE"
      BY <1>3, <1>5, <1>7, <1>8, <2>0, <3>1
    <3>3. Chip!Next
      BY <1>1, <2>0, <3>1, WaitStep
    <3>4. WorkGap'
      BY <1>5, <2>0, <2>2, <3>2 DEF WorkGap
    <3> QED BY <1>7a, <3>1, <3>3, <3>4
  <2> QED BY <2>1, <2>2
<1>17. CASE work_state = "TDAL"
  <2>0. /\ work_state' = IF cnt_clk = TDAL THEN "IDLE" ELSE "TDAL"
        /\ cnt_clk' = IF cnt_clk = TDAL THEN 0 ELSE cnt_clk + 1
        /\ cnt_clk <= TDAL /\ last = "B_STOP" /\ gap >= cnt_clk /\ cmd' = "NOP"
    BY <1>1, <1>3, <1>5, <1>17, WorkStep, DelayStep, WorkCommand
       DEF end_tdal, CounterInRange, WorkGap
  <2>1. gap' \in Nat /\ last' = "B_STOP" /\ (gap' = gap + 1 \/ gap' = GapCap)
    BY <1>3, <1>5, <1>7, <2>0
  <2>2. /\ cnt_clk = TDAL => gap' + 2 >= TDAL
        /\ cnt_clk # TDAL => gap' >= cnt_clk + 1
    BY <1>5, <1>8, <1>9a, <2>0, <2>1, GapGrows
  <2>3. WorkGap'
    BY <2>0, <2>1, <2>2 DEF WorkGap, Rested
  <2> QED BY <1>7a, <1>9, <2>0, <2>3
<1>18. CASE work_state = "AR"
  <2>0. /\ work_state' = IF TRFC = 0 THEN "IDLE" ELSE "TRFC"
        /\ cnt_clk' = 0 /\ cmd' = "A_REF" /\ Rested(1)
    BY <1>1, <1>3, <1>18, WorkStep, DelayStep, WorkCommand DEF WorkGap
  <2>1. Chip!Next
    <3>1. Chip!MayFollow("A_REF", gap + 1)
      BY <1>3a, <2>0 DEF Rested, Chip!MayFollow
    <3> QED BY <1>1, <2>0, <3>1, CommandStep
  <2>2. WorkGap'
    BY <1>6, <2>0 DEF WorkGap, Rested
  <2> QED BY <1>4, <1>6, <2>0, <2>1, <2>2
<1>19. CASE work_state = "TRFC"
  <2>0. /\ work_state' = IF cnt_clk = TRFC THEN "IDLE" ELSE "TRFC"
        /\ cnt_clk' = IF cnt_clk = TRFC THEN 0 ELSE cnt_clk + 1
        /\ cnt_clk <= TRFC /\ last = "A_REF" /\ gap >= cnt_clk /\ cmd' = "NOP"
    BY <1>1, <1>3, <1>5, <1>19, WorkStep, DelayStep, WorkCommand
       DEF end_trfc, CounterInRange, WorkGap
  <2>1. gap' \in Nat /\ last' = "A_REF" /\ (gap' = gap + 1 \/ gap' = GapCap)
    BY <1>3, <1>5, <1>7, <2>0
  <2>2. /\ cnt_clk = TRFC => gap' + 2 >= TRFC
        /\ cnt_clk # TRFC => gap' >= cnt_clk + 1
    BY <1>5, <1>8, <1>9a, <2>0, <2>1, GapGrows
  <2>3. WorkGap'
    BY <2>0, <2>1, <2>2 DEF WorkGap, Rested
  <2> QED BY <1>7a, <1>9, <2>0, <2>3
<1> QED BY <1>5, <1>10, <1>11, <1>12, <1>13, <1>14, <1>15, <1>16, <1>17, <1>18, <1>19 DEF W_States

(* The controller obeys the chip: the commands come in the order and with  *)
(* the clocks between them that the chip asks for, every burst is stopped  *)
(* after exactly its words, and a reset in any clock is a power cycle.     *)
THEOREM ControllerObeysChip ==
  ASSUME BurstAssumption
  PROVE  Spec => ObeysChip
<1>1. Init => ChipInv /\ Chip!Init
  <2> SUFFICES ASSUME Init PROVE ChipInv /\ Chip!Init
    OBVIOUS
  <2>1. /\ init_state = 0 /\ cmd = "INIT" /\ last = "INIT" /\ gap = 0 /\ nref = 0 /\ ~ready /\ ready = FALSE
    BY DEF Init, TopInit, CtrlInit, I_NOP
  <2>2. InitGap /\ ~init_done
    BY <2>1 DEF InitGap, init_done, I_DONE, Before, Refreshed, I_Wait, I_Issue, I_PRE, I_MRS, I_AR
  <2>3. gap \in 0..GapCap
    BY <2>1 DEF BurstAssumption
  <2> QED BY <2>1, <2>2, <2>3 DEF ChipInv, Chip!Init
<1>2. CtrlInv /\ InitCount /\ ChipInv /\ [Next]_vars => ChipInv' /\ [Chip!Next]_Chip!vars
  <2> SUFFICES ASSUME CtrlInv, InitCount, ChipInv, [Next]_vars
               PROVE  ChipInv' /\ [Chip!Next]_Chip!vars
    OBVIOUS
  <2>1. CASE Reset
    <3>1. /\ init_state' = 0 /\ cmd' = "INIT" /\ last' = "INIT" /\ gap' = 0 /\ nref' = 0
          /\ ready' = FALSE
      BY <2>1 DEF Reset, TopReset, CtrlReset, CmdReset, Quiet, Pins, I_NOP
    <3>2. InitGap' /\ ~init_done'
      BY <3>1 DEF InitGap, init_done, I_DONE, Before, Refreshed, I_Wait, I_Issue, I_PRE, I_MRS, I_AR
    <3>3. gap' \in 0..GapCap
      BY <3>1 DEF BurstAssumption
    <3>4. Chip!PowerCycle
      BY <3>1 DEF Chip!PowerCycle
    <3> QED BY <3>2, <3>3, <3>4 DEF ChipInv, Chip!Next
  <2>2. CASE UNCHANGED vars
    <3>1. UNCHANGED <<ctrlVars, cmd, last, gap, nref, ready>>
      BY <2>2 DEF vars, topVars, cmdVars, chipVars
    <3>2. UNCHANGED Chip!vars
      BY <3>1 DEF Chip!vars
    <3>3. InitGap' /\ (init_done' <=> init_done)
      BY <3>1 DEF ctrlVars, InitGap, init_done, ChipInv
    <3>4. WorkGap => WorkGap'
      BY <3>1 DEF ctrlVars, WorkGap, Rested
    <3> QED BY <3>1, <3>2, <3>3, <3>4 DEF ChipInv
  <2>3. ASSUME NEW wr \in BOOLEAN, NEW rd \in BOOLEAN, NEW wp \in Pages, NEW rp \in Pages,
               Tick(wr, rd, wp, rp)
        PROVE  ChipInv' /\ Chip!Next
    BY <2>3, ChipInit, ChipWork
  <2> QED BY <2>1, <2>2, <2>3, TopSteps
<1> QED BY TopInvariant, InitCountInvariant, <1>1, <1>2, PTL DEF Spec, ObeysChip, Chip!Spec

-----------------------------------------------------------------------------
(* The read path: the controller, the FIFO in front of the display, and the *)
(* display driver, for every size of the FIFO and of the raster.            *)

(* A read burst asked for below RdLevel fits, and a read operation has an  *)
(* acknowledge window as long as its burst.                                *)
RoomAssumption == AckAssumption /\ RdLevel >= 1 /\ RdLevel + RdByte <= RdDepth

-----------------------------------------------------------------------------
(* The usage count.                                                        *)

LEMMA ReadTypes ==
  /\ RdDepth \in Nat /\ RdDepth > 0 /\ RdLevel \in 0..RdDepth
  /\ RdPopLag \in Nat /\ RdPopLag > 0 /\ RdPages \in Nat /\ RdPages > 0 /\ RdWordCap \in Nat
  /\ RdByte \in 1..256
  BY ReadFifoAssumption, TimingAssumption DEF ReadFifoAssumption, TimingAssumption

LEMMA NoneUnseen ==
  ASSUME rdf_pops = NoPop
  PROVE  UnseenTaken = 0
<1>1. {k \in 1..RdPopLag : rdf_pops[k]} = {}
  BY DEF NoPop
<1> QED BY <1>1, FS_EmptySet DEF UnseenTaken

LEMMA UnseenNat == UnseenTaken \in Nat
<1>1. IsFiniteSet(1..RdPopLag)
  BY ReadTypes, FS_Interval
<1>2. IsFiniteSet({k \in 1..RdPopLag : rdf_pops[k]})
  BY <1>1, FS_Subset
<1> QED BY <1>2, FS_CardinalityType DEF UnseenTaken

(* A pop is counted late, but it is counted once.                          *)
LEMMA UnseenStep ==
  ASSUME NEW out \in BOOLEAN,
         rdf_pops' = [k \in 1..RdPopLag |-> IF k = 1 THEN out ELSE rdf_pops[k - 1]]
  PROVE  UnseenTaken' <= UnseenTaken + Bit(out)
<1> DEFINE S == {k \in 1..RdPopLag : rdf_pops[k]}
           R == S \ {RdPopLag}
           T == {k \in 2..RdPopLag : rdf_pops[k - 1]}
           U == {k \in 1..RdPopLag : IF k = 1 THEN out ELSE rdf_pops[k - 1]}
           f == [k \in R |-> k + 1]
<1>0. RdPopLag \in Nat /\ RdPopLag > 0
  BY ReadTypes
<1>1. IsFiniteSet(S) /\ IsFiniteSet(R) /\ Cardinality(R) <= Cardinality(S)
  <2>1. IsFiniteSet(1..RdPopLag)
    BY <1>0, FS_Interval
  <2>2. IsFiniteSet(S)
    BY <2>1, FS_Subset
  <2> QED BY <2>2, FS_Subset
<1>2. f \in Surjection(R, T)
  <2>1. \A k \in R : k \in 1..(RdPopLag - 1) /\ rdf_pops[k]
    BY <1>0
  <2>2. \A k \in R : k + 1 \in T
    BY <1>0, <2>1
  <2>3. \A m \in T : m - 1 \in R /\ f[m - 1] = m
    BY <1>0
  <2>4. f \in [R -> T]
    BY <2>2
  <2> QED BY <2>3, <2>4 DEF Surjection
<1>3. IsFiniteSet(T) /\ Cardinality(T) <= Cardinality(R)
  BY <1>1, <1>2, FS_Surjection
<1>4. U = IF out THEN T \cup {1} ELSE T
  BY <1>0
<1>5. 1 \notin T
  OBVIOUS
<1>6. UnseenTaken = Cardinality(S) /\ UnseenTaken' = Cardinality(U)
  <2>1. {k \in 1..RdPopLag : rdf_pops'[k]} = U
    OBVIOUS
  <2> QED BY <2>1 DEF UnseenTaken
<1> HIDE DEF S, R, T, U, f
<1>7. Cardinality(S) \in Nat /\ Cardinality(R) \in Nat /\ Cardinality(T) \in Nat
  BY <1>1, <1>3, FS_CardinalityType
<1>8. Cardinality(T \cup {1}) = Cardinality(T) + 1
  BY <1>3, <1>5, FS_AddElement
<1> QED BY <1>1, <1>3, <1>4, <1>6, <1>7, <1>8 DEF Bit

-----------------------------------------------------------------------------
(* The clock.                                                              *)

LEMMA RdSteps ==
  ASSUME [RdNext]_rdVars
  PROVE  /\ [CtrlNext]_ctrlVars
         /\ RdReset \/ (\E wr \in BOOLEAN : RdTick(wr)) \/ UNCHANGED rdVars
<1>1. CASE RdReset
  BY <1>1 DEF RdReset, CtrlNext
<1>2. ASSUME NEW wr \in BOOLEAN, RdTick(wr) PROVE CtrlNext
  <2>1. sdram_rd_req \in BOOLEAN
    BY DEF sdram_rd_req
  <2> QED BY <1>2, <2>1 DEF RdTick, CtrlNext
<1>3. CASE UNCHANGED rdVars
  BY <1>3 DEF rdVars
<1> QED BY <1>1, <1>2, <1>3 DEF RdNext

LEMMA RdCtrl == ASSUME AckAssumption PROVE RdSpec => [](CtrlInv /\ AckCount)
<1>1. RdInit => CtrlInit
  BY DEF RdInit
<1>2. [RdNext]_rdVars => [CtrlNext]_ctrlVars
  BY RdSteps
<1>3. RdSpec => CtrlSpec
  BY <1>1, <1>2, PTL DEF RdSpec, CtrlSpec
<1> QED BY <1>3, AckInvariant, PTL

-----------------------------------------------------------------------------
(* Types.                                                                  *)

LEMMA FifoTyped ==
  ASSUME RdFifoTypeOK, NEW push \in BOOLEAN, NEW pop \in BOOLEAN, RdFifo(push, pop)
  PROVE  /\ rdf_words' \in 0..RdDepth /\ rdf_pops' \in [1..RdPopLag -> BOOLEAN]
         /\ rdf_pushed' \in BOOLEAN /\ fetched' \in 0..RdWordCap /\ taken' \in 0..RdWordCap
<1>0. /\ rdf_words \in 0..RdDepth /\ rdf_pops \in [1..RdPopLag -> BOOLEAN]
      /\ fetched \in 0..RdWordCap /\ taken \in 0..RdWordCap
  BY DEF RdFifoTypeOK
<1>1. CASE rdfifo_clrr \/ rdfifo_clrr'
  <2>1. /\ rdf_words' = 0 /\ rdf_pops' = NoPop /\ rdf_pushed' = FALSE
        /\ fetched' = 0 /\ taken' = 0
    BY <1>1 DEF RdFifo
  <2>2. NoPop \in [1..RdPopLag -> BOOLEAN]
    BY DEF NoPop
  <2>3. 0 \in 0..RdDepth /\ 0 \in 0..RdWordCap
    BY ReadTypes
  <2> QED BY <2>1, <2>2, <2>3
<1>2. CASE ~(rdfifo_clrr \/ rdfifo_clrr')
  <2> DEFINE in == push /\ rdf_words < RdDepth
             out == pop /\ rdf_words > 0
  <2>1. /\ rdf_words' = rdf_words + Bit(in) - Bit(out)
        /\ rdf_pops' = [k \in 1..RdPopLag |-> IF k = 1 THEN out ELSE rdf_pops[k - 1]]
        /\ rdf_pushed' = in /\ fetched' = CountUp(fetched, in) /\ taken' = CountUp(taken, out)
    BY <1>2 DEF RdFifo
  <2>2. rdf_words' \in 0..RdDepth
    BY <1>0, <2>1, ReadTypes DEF Bit
  <2>3. \A k \in 1..RdPopLag : (IF k = 1 THEN out ELSE rdf_pops[k - 1]) \in BOOLEAN
    <3>1. \A k \in 1..RdPopLag : k # 1 => k - 1 \in 1..RdPopLag
      BY ReadTypes
    <3> QED BY <1>0, <3>1
  <2>4. rdf_pops' \in [1..RdPopLag -> BOOLEAN]
    BY <2>1, <2>3
  <2>5. fetched' \in 0..RdWordCap /\ taken' \in 0..RdWordCap
    BY <1>0, <2>1, ReadTypes DEF CountUp
  <2> QED BY <2>1, <2>2, <2>4, <2>5
<1> QED BY <1>1, <1>2

LEMMA RasterTypes ==
  /\ XOn \in Nat /\ XOff \in Nat /\ XLast \in Nat /\ 0 < XOn /\ XOn < XOff /\ XOff < XLast
  /\ YOn \in Nat /\ YOff \in Nat /\ YLast \in Nat /\ 0 < YOn /\ YOn < YOff /\ YOff <= YLast
  BY RasterAssumption DEF RasterAssumption

LEMMA LcdTyped == ASSUME LcdTypeOK, LcdTick PROVE LcdTypeOK'
<1>1. sft_cnt \in 0..3 /\ x_cnt \in 0..XLast /\ y_cnt \in 0..YLast /\ XLast \in Nat /\ YLast \in Nat
  BY RasterTypes DEF LcdTypeOK
<1>2. sft_cnt' \in 0..3
  BY <1>1 DEF LcdTick
<1>3. x_cnt' \in 0..XLast /\ y_cnt' \in 0..YLast
  BY <1>1 DEF LcdTick
<1>4. /\ valid_yr' \in BOOLEAN /\ validr' \in BOOLEAN /\ valid' \in BOOLEAN
      /\ lcd_hsy_r' \in BOOLEAN /\ lcd_vsy_r' \in BOOLEAN
  BY DEF LcdTick, LcdTypeOK, SetClear
<1> QED BY <1>2, <1>3, <1>4 DEF LcdTypeOK

LEMMA RdTyped ==
  RdTypeOK /\ CtrlTypeOK' /\ [RdNext]_rdVars => RdTypeOK'
<1> SUFFICES ASSUME RdTypeOK, CtrlTypeOK', [RdNext]_rdVars PROVE RdTypeOK'
  OBVIOUS
<1>0. RdFifoTypeOK /\ LcdTypeOK /\ ph \in 0..3 /\ wgap \in 0..WrGap /\ WrGap \in Nat
  BY WriteRateAssumption DEF RdTypeOK, WriteRateAssumption
<1>1. CASE RdReset
  <2>1. RdFifo(FALSE, FALSE) /\ LcdReset /\ UNCHANGED <<ph, wgap>> /\ RdFifoReset
    BY <1>1 DEF RdReset, RdFifoReset
  <2>2. RdFifoTypeOK'
    <3>1. /\ rdf_words' \in 0..RdDepth /\ rdf_pops' \in [1..RdPopLag -> BOOLEAN]
          /\ rdf_pushed' \in BOOLEAN /\ fetched' \in 0..RdWordCap /\ taken' \in 0..RdWordCap
      BY <1>0, <2>1, FifoTyped
    <3>2. 0 \in 0..(RdPages - 1)
      BY ReadTypes
    <3> QED BY <2>1, <3>1, <3>2 DEF RdFifoReset, RdFifoTypeOK
  <2>3. LcdTypeOK'
    <3>1. 0 \in 0..XLast /\ 0 \in 0..YLast /\ 0 \in 0..3
      BY RasterTypes
    <3> QED BY <2>1, <3>1 DEF LcdReset, LcdTypeOK
  <2> QED BY <1>0, <2>1, <2>2, <2>3 DEF RdTypeOK
<1>2. ASSUME NEW wr \in BOOLEAN, RdTick(wr) PROVE RdTypeOK'
  <2>1. RdFifoTick(rd_ack, rdfifo_clr, rdfifo_rdreq /\ ph = 3)
    BY <1>2 DEF RdTick
  <2>2. rd_ack \in BOOLEAN /\ rdfifo_clr \in BOOLEAN /\ (rdfifo_rdreq /\ ph = 3) \in BOOLEAN
    BY DEF rd_ack, rdfifo_clr, rdfifo_rdreq
  <2>3. RdFifo(rd_ack, rdfifo_rdreq /\ ph = 3)
    BY <2>1 DEF RdFifoTick
  <2>4. sys_rdabr' \in 0..(RdPages - 1)
    BY <1>0, <2>1, ReadTypes DEF RdFifoTick, ReadPage, RdFifoTypeOK
  <2>5. sdrdackr1' \in BOOLEAN /\ sdrdackr2' \in BOOLEAN /\ rdfifo_clrr' \in BOOLEAN
    BY <1>0, <2>1, <2>2 DEF RdFifoTick, RdFifoTypeOK
  <2>6. RdFifoTypeOK'
    BY <1>0, <2>2, <2>3, <2>4, <2>5, FifoTyped DEF RdFifoTypeOK
  <2>7. LcdTypeOK'
    <3>1. CASE ph = 3
      BY <1>0, <1>2, <3>1, LcdTyped DEF RdTick
    <3>2. CASE ph # 3
      BY <1>0, <1>2, <3>2 DEF RdTick, lcdVars, LcdTypeOK
    <3> QED BY <3>1, <3>2
  <2>8. ph' \in 0..3 /\ wgap' \in 0..WrGap
    BY <1>0, <1>2 DEF RdTick
  <2> QED BY <2>6, <2>7, <2>8 DEF RdTypeOK
<1>3. CASE UNCHANGED rdVars
  BY <1>0, <1>3 DEF rdVars, rdFifoVars, lcdVars, RdTypeOK, RdFifoTypeOK, LcdTypeOK
<1> QED BY <1>1, <1>2, <1>3, RdSteps

LEMMA RdInitTyped == RdInit => RdTypeOK
<1>1. RdInit => CtrlTypeOK
  BY InitInv DEF RdInit, CtrlInv
<1>2. RdInit => RdFifoTypeOK /\ LcdTypeOK /\ ph \in 0..3 /\ wgap \in 0..WrGap
  <2>1. /\ 0 \in 0..XLast /\ 0 \in 0..YLast /\ 0 \in 0..3 /\ 0 \in 0..WrGap
        /\ 0 \in 0..RdDepth /\ 0 \in 0..RdWordCap /\ 0 \in 0..(RdPages - 1)
    BY RasterTypes, ReadTypes, WriteRateAssumption DEF WriteRateAssumption
  <2>2. NoPop \in [1..RdPopLag -> BOOLEAN]
    BY DEF NoPop
  <2> QED BY <2>1, <2>2 DEF RdInit, RdFifoInit, LcdInit, RdFifoTypeOK, LcdTypeOK
<1> QED BY <1>1, <1>2 DEF RdTypeOK

-----------------------------------------------------------------------------
(* Room for a burst.                                                       *)

RdRunning == work_state \in {"ACTIVE", "TRCD", "READ", "CL", "RD"} /\ sys_r_wn

(* Words in the FIFO, as the request sees them.                            *)
Level == rdf_words + UnseenTaken

(* As many as there may be: a burst fits on top, or its rest does.         *)
Allowed == RdLevel - 1 + (IF RdRunning THEN acks ELSE RdByte)

RoomInv ==
  /\ Level <= Allowed
  /\ rdf_pushed => work_state = "RD"
  /\ rdfifo_clrr => rdf_words = 0 /\ fetched = 0 /\ taken = 0 /\ rdf_pops = NoPop

LEMMA Shifts ==
  ASSUME CtrlInv, NEW wr \in BOOLEAN, NEW rd \in BOOLEAN, CtrlTick(wr, rd)
  PROVE  /\ work_state = "IDLE" =>
              \/ work_state' \in {"IDLE", "AR"}
              \/ work_state' = "ACTIVE" /\ ~sys_r_wn'
              \/ work_state' = "ACTIVE" /\ sys_r_wn' /\ rd
         /\ work_state # "IDLE" => init_done /\ sys_r_wn' = sys_r_wn /\ RunOperation
<1>1. WorkFsm(wr, rd)
  BY DEF CtrlTick
<1>2. work_state = "IDLE" => ~RunOperation
  BY DEF RunOperation, Move
<1>3. work_state = "IDLE" =>
              \/ work_state' \in {"IDLE", "AR"}
              \/ work_state' = "ACTIVE" /\ ~sys_r_wn'
              \/ work_state' = "ACTIVE" /\ sys_r_wn' /\ rd
  BY <1>1, <1>2 DEF WorkFsm, GrantRefresh, GrantWrite, GrantRead, StayIdle
<1>4. work_state # "IDLE" => init_done /\ sys_r_wn' = sys_r_wn /\ RunOperation
  BY <1>1 DEF CtrlInv, DirectionMatches, WorkFsm, GrantRefresh, GrantWrite, GrantRead,
              StayIdle, RunOperation, Move
<1> QED BY <1>3, <1>4

(* A read operation in one clock: it begins only where it is asked for,    *)
(* its acknowledges are those of its burst, and it ends after the last.    *)
LEMMA ReadMoves ==
  ASSUME CtrlInv, AckCount, AckAssumption,
         NEW wr \in BOOLEAN, NEW rd \in BOOLEAN, CtrlTick(wr, rd)
  PROVE  /\ rd_ack => RdRunning /\ work_state = "RD" /\ work_state' = "RD" /\ RdRunning'
                      /\ acks \in 0..(RdByte - 1) /\ acks' = acks + 1
         /\ RdRunning /\ RdRunning' /\ ~rd_ack => acks' = acks
         /\ ~RdRunning /\ RdRunning' =>
              rd /\ work_state = "IDLE" /\ work_state' = "ACTIVE" /\ acks' = 0
         /\ RdRunning /\ ~RdRunning' =>
              work_state = "RD" /\ cnt_clk = RdByte + 2 /\ acks = RdByte /\ ~rd_ack
                /\ work_state' = "IDLE"
<1>0. /\ cnt_clk \in 0..511 /\ acks \in Nat /\ sys_r_wn \in BOOLEAN /\ RdByte \in 1..256
      /\ CountAcks
  BY TimingAssumption DEF TimingAssumption, CtrlInv, CtrlTypeOK, CtrlTick
<1>1. ASSUME rd_ack
      PROVE  RdRunning /\ work_state = "RD" /\ work_state' = "RD" /\ RdRunning'
              /\ acks \in 0..(RdByte - 1) /\ acks' = acks + 1
  <2>1. work_state = "RD"
    BY <1>1 DEF rd_ack
  <2>2. cnt_clk > 1 /\ cnt_clk < RdByte + 2 /\ sys_r_wn
    BY <1>1, <2>1, AckWindow DEF CtrlInv, DirectionMatches
  <2>3. acks = IF cnt_clk <= 2 THEN 0 ELSE cnt_clk - 2
    BY <2>1 DEF AckCount
  <2>4. acks \in 0..(RdByte - 1)
    BY <1>0, <2>2, <2>3
  <2>5. acks' = acks + 1
    BY <1>0, <1>1, <2>1 DEF CountAcks
  <2>6. RunOperation /\ sys_r_wn' = sys_r_wn
    BY <2>1, Shifts
  <2>7. work_state' = "RD"
    BY <1>0, <2>1, <2>2, <2>6 DEF RunOperation, Move, end_tread
  <2> QED BY <2>1, <2>2, <2>4, <2>5, <2>6, <2>7 DEF RdRunning
<1>2. ASSUME RdRunning, RdRunning', ~rd_ack PROVE acks' = acks
  <2>1. ~wr_ack
    BY <1>2, AckWindow DEF RdRunning
  <2> QED BY <1>0, <1>2, <2>1 DEF CountAcks, RdRunning
<1>3. ASSUME ~RdRunning, RdRunning'
      PROVE  rd /\ work_state = "IDLE" /\ work_state' = "ACTIVE" /\ acks' = 0
  <2>1. work_state = "IDLE"
    <3> SUFFICES ASSUME work_state # "IDLE" PROVE FALSE
      OBVIOUS
    <3>1. RunOperation /\ sys_r_wn' = sys_r_wn
      BY Shifts
    <3>2. sys_r_wn /\ work_state \notin {"ACTIVE", "TRCD", "READ", "CL", "RD"}
      BY <1>3, <3>1 DEF RdRunning
    <3>3. work_state \in {"WRITE", "WD", "TDAL", "AR", "TRFC"}
      BY <3>2 DEF CtrlInv, CtrlTypeOK, W_States
    <3> QED BY <1>3, <3>1, <3>3 DEF RunOperation, Move, RdRunning
  <2> QED BY <1>0, <1>3, <2>1, Shifts DEF RdRunning, CountAcks
<1>4. ASSUME RdRunning, ~RdRunning'
      PROVE  work_state = "RD" /\ cnt_clk = RdByte + 2 /\ acks = RdByte /\ ~rd_ack
                /\ work_state' = "IDLE"
  <2>1. RunOperation /\ sys_r_wn' /\ sys_r_wn
    BY <1>4, Shifts DEF RdRunning
  <2>2. work_state = "RD" /\ end_tread(cnt_clk) /\ work_state' = "IDLE"
    BY <1>4, <2>1 DEF RdRunning, RunOperation, Move, Column
  <2>3. cnt_clk = RdByte + 2
    BY <2>2 DEF end_tread
  <2>4. acks = RdByte
    BY <1>0, <2>2, <2>3 DEF AckCount
  <2>5. ~rd_ack
    BY <1>0, <2>2, <2>3, AckWindow
  <2> QED BY <2>2, <2>3, <2>4, <2>5
<1> QED BY <1>1, <1>2, <1>3, <1>4

LEMMA NoneUnseenNext == (rdf_pops = NoPop => UnseenTaken = 0)'
<1>1. rdf_pops = NoPop => UnseenTaken = 0
  BY NoneUnseen
<1> QED BY <1>1, PTL

LEMMA UnseenNatNext == (UnseenTaken \in Nat)'
  BY UnseenNat, PTL

LEMMA AcksBounded ==
  ASSUME CtrlInv, AckCount, RdRunning
  PROVE  acks \in 0..RdByte
<1>1. cnt_clk \in 0..511 /\ RdByte \in 1..256
  BY TimingAssumption DEF TimingAssumption, CtrlInv, CtrlTypeOK
<1>2. CASE work_state = "RD"
  BY <1>1, <1>2 DEF AckCount, CtrlInv, CounterInRange
<1>3. CASE work_state # "RD"
  BY <1>1, <1>3 DEF AckCount, RdRunning
<1> QED BY <1>2, <1>3

(* The words in the FIFO and the pops not yet counted in one clock.        *)
LEMMA LevelStep ==
  ASSUME RdTypeOK, NEW push \in BOOLEAN, NEW pop \in BOOLEAN, RdFifo(push, pop)
  PROVE  /\ Level \in Nat /\ Level' \in Nat
         /\ rdfifo_clrr \/ rdfifo_clrr' =>
              /\ Level' = 0 /\ ~rdf_pushed'
              /\ rdf_words' = 0 /\ fetched' = 0 /\ taken' = 0 /\ rdf_pops' = NoPop
         /\ ~rdfifo_clrr /\ ~rdfifo_clrr' =>
              Level' <= Level + Bit(push) /\ (rdf_pushed' => push)
<1>0. rdf_words \in 0..RdDepth /\ RdFifoTypeOK /\ RdDepth \in Nat
  BY ReadTypes DEF RdTypeOK, RdFifoTypeOK
<1>1. rdf_words' \in 0..RdDepth
  BY <1>0, FifoTyped
<1>2. UnseenTaken \in Nat /\ UnseenTaken' \in Nat
  BY UnseenNat, UnseenNatNext
<1>3. Level \in Nat /\ Level' \in Nat
  <2>1. Level = rdf_words + UnseenTaken /\ Level' = rdf_words' + UnseenTaken'
    BY DEF Level
  <2>2. rdf_words \in Nat /\ rdf_words' \in Nat
    BY <1>0, <1>1
  <2>3. \A a, b \in Nat : a + b \in Nat
    OBVIOUS
  <2>4. Level \in Nat
    BY <1>2, <2>1, <2>2, <2>3
  <2>5. Level' \in Nat
    BY <1>2, <2>1, <2>2, <2>3
  <2> QED BY <2>4, <2>5
<1>4. ASSUME rdfifo_clrr \/ rdfifo_clrr'
      PROVE  /\ Level' = 0 /\ ~rdf_pushed'
             /\ rdf_words' = 0 /\ fetched' = 0 /\ taken' = 0 /\ rdf_pops' = NoPop
  <2>1. /\ ~rdf_pushed'
        /\ rdf_words' = 0 /\ fetched' = 0 /\ taken' = 0 /\ rdf_pops' = NoPop
    BY <1>4 DEF RdFifo
  <2>2. UnseenTaken' = 0
    <3>1. NoPop' = NoPop
      BY DEF NoPop
    <3> QED BY <2>1, <3>1, NoneUnseenNext
  <2> QED BY <2>1, <2>2 DEF Level
<1>5. ASSUME ~rdfifo_clrr, ~rdfifo_clrr'
      PROVE  Level' <= Level + Bit(push) /\ (rdf_pushed' => push)
  <2> DEFINE in == push /\ rdf_words < RdDepth
             out == pop /\ rdf_words > 0
  <2>1. /\ rdf_words' = rdf_words + Bit(in) - Bit(out)
        /\ rdf_pops' = [k \in 1..RdPopLag |-> IF k = 1 THEN out ELSE rdf_pops[k - 1]]
        /\ rdf_pushed' = in
    BY <1>5 DEF RdFifo
  <2>2. UnseenTaken' <= UnseenTaken + Bit(out)
    BY <2>1, UnseenStep
  <2>3. Bit(in) <= Bit(push) /\ Bit(in) \in 0..1 /\ Bit(out) \in 0..1 /\ Bit(push) \in 0..1
    BY DEF Bit
  <2>4. Level = rdf_words + UnseenTaken /\ Level' = rdf_words' + UnseenTaken'
    BY DEF Level
  <2> HIDE DEF in, out
  <2>5. Level' <= Level + Bit(push)
    BY <1>0, <1>1, <1>2, <2>1, <2>2, <2>3, <2>4
  <2> QED BY <2>1, <2>5 DEF in
<1> QED BY <1>3, <1>4, <1>5

(* A request is made only below the level, pops that are still under way   *)
(* counted as words.                                                       *)
LEMMA RequestBelowLevel ==
  ASSUME RdTypeOK, RoomAssumption, RoomInv, ~RdRunning, work_state = "IDLE", sdram_rd_req
  PROVE  Level < RdLevel /\ ~rdfifo_clrr
<1>0. /\ RdDepth \in Nat /\ RdLevel \in Nat /\ RdByte \in Nat /\ RdLevel + RdByte <= RdDepth
      /\ rdf_words \in Nat /\ UnseenTaken \in Nat
  BY ReadTypes, UnseenNat DEF RoomAssumption, RdTypeOK, RdFifoTypeOK
<1>1. Level <= RdLevel - 1 + RdByte /\ Level \in Nat
  BY <1>0 DEF RoomInv, Allowed, Level
<1>2. Bit(rdf_pushed) = 0
  BY DEF RoomInv, Bit
<1>3. rdf_use = Level % RdDepth
  BY <1>0, <1>2 DEF rdf_use, Level
<1>4. Level % RdDepth = Level
  BY <1>0, <1>1
<1> QED BY <1>3, <1>4 DEF sdram_rd_req

LEMMA RoomStep ==
  RoomAssumption /\ RdTypeOK /\ RdTypeOK' /\ CtrlInv /\ AckCount /\ AckCount'
    /\ RoomInv /\ [RdNext]_rdVars => RoomInv'
<1> SUFFICES ASSUME RoomAssumption, RdTypeOK, RdTypeOK', CtrlInv, AckCount, AckCount',
                    RoomInv, [RdNext]_rdVars
             PROVE  RoomInv'
  OBVIOUS
<1>0. /\ RdLevel \in Nat /\ RdByte \in Nat /\ RdLevel >= 1 /\ acks \in Nat /\ acks' \in Nat
  BY ReadTypes DEF RoomAssumption, RdTypeOK, CtrlTypeOK
<1>b. /\ Allowed = RdLevel - 1 + (IF RdRunning THEN acks ELSE RdByte)
      /\ Allowed' = RdLevel - 1 + (IF RdRunning' THEN acks' ELSE RdByte)
  BY DEF Allowed
<1>c. Allowed \in Nat /\ Allowed' \in Nat
  <2>1. \A n \in Nat : RdLevel - 1 + n \in Nat
    BY <1>0
  <2>2. Allowed \in Nat
    BY <1>0, <1>b, <2>1
  <2>3. Allowed' \in Nat
    BY <1>0, <1>b, <2>1
  <2> QED BY <2>2, <2>3
<1>a. RoomInv' <=>
        /\ Level' <= Allowed'
        /\ rdf_pushed' => work_state' = "RD"
        /\ rdfifo_clrr' => rdf_words' = 0 /\ fetched' = 0 /\ taken' = 0 /\ rdf_pops' = NoPop
  BY DEF RoomInv, NoPop
<1>1. CASE RdReset
  <2>1. RdFifo(FALSE, FALSE) /\ ~rdfifo_clrr' /\ work_state' = "IDLE"
    BY <1>1 DEF RdReset, RdFifoReset, CtrlReset
  <2>2. /\ Level \in Nat /\ Level' \in Nat
        /\ Level' = 0 \/ Level' <= Level
        /\ ~rdf_pushed'
    <3>1. /\ Level \in Nat /\ Level' \in Nat
          /\ rdfifo_clrr \/ rdfifo_clrr' => Level' = 0 /\ ~rdf_pushed'
          /\ ~rdfifo_clrr /\ ~rdfifo_clrr' => Level' <= Level + Bit(FALSE) /\ ~rdf_pushed'
      BY <2>1, LevelStep
    <3>2. Level + Bit(FALSE) = Level
      BY <3>1 DEF Bit
    <3> QED BY <3>1, <3>2
  <2>3. ~RdRunning'
    BY <2>1 DEF RdRunning
  <2>4. Level <= RdLevel - 1 + RdByte
    <3>1. CASE RdRunning
      <4>1. acks <= RdByte
        BY <3>1, AcksBounded, <1>0
      <4>2. Level <= RdLevel - 1 + acks
        BY <1>b, <3>1 DEF RoomInv
      <4> QED BY <1>0, <2>2, <4>1, <4>2
    <3>2. CASE ~RdRunning
      BY <1>b, <3>2 DEF RoomInv
    <3> QED BY <3>1, <3>2
  <2>5. Level' <= Allowed'
    <3>1. Allowed' = RdLevel - 1 + RdByte
      BY <1>b, <2>3
    <3> QED BY <1>0, <1>c, <2>2, <2>4, <3>1
  <2> QED BY <1>a, <2>1, <2>2, <2>3, <2>5
<1>2. ASSUME NEW wr \in BOOLEAN, RdTick(wr) PROVE RoomInv'
  <2>1. /\ CtrlTick(wr, sdram_rd_req) /\ sdram_rd_req \in BOOLEAN
        /\ RdFifo(rd_ack, rdfifo_rdreq /\ ph = 3)
        /\ rd_ack \in BOOLEAN /\ (rdfifo_rdreq /\ ph = 3) \in BOOLEAN
    BY <1>2 DEF RdTick, RdFifoTick, sdram_rd_req, rd_ack, rdfifo_rdreq
  <2>2. /\ rd_ack => RdRunning /\ work_state = "RD" /\ work_state' = "RD" /\ RdRunning'
                      /\ acks \in 0..(RdByte - 1) /\ acks' = acks + 1
        /\ RdRunning /\ RdRunning' /\ ~rd_ack => acks' = acks
        /\ ~RdRunning /\ RdRunning' =>
             sdram_rd_req /\ work_state = "IDLE" /\ work_state' = "ACTIVE" /\ acks' = 0
        /\ RdRunning /\ ~RdRunning' =>
             work_state = "RD" /\ cnt_clk = RdByte + 2 /\ acks = RdByte /\ ~rd_ack
                /\ work_state' = "IDLE"
    BY <2>1, ReadMoves DEF RoomAssumption
  <2>3. /\ Level \in Nat /\ Level' \in Nat
        /\ rdfifo_clrr \/ rdfifo_clrr' =>
              /\ Level' = 0 /\ ~rdf_pushed'
              /\ rdf_words' = 0 /\ fetched' = 0 /\ taken' = 0 /\ rdf_pops' = NoPop
        /\ ~rdfifo_clrr /\ ~rdfifo_clrr' =>
              Level' <= Level + Bit(rd_ack) /\ (rdf_pushed' => rd_ack)
    BY <2>1, LevelStep
  <2>4. CASE rdfifo_clrr \/ rdfifo_clrr'
    BY <1>a, <1>c, <2>3, <2>4
  <2>5. CASE ~rdfifo_clrr /\ ~rdfifo_clrr'
    <3>1. Level <= Allowed
      BY DEF RoomInv
    <3>2. rdf_pushed' => work_state' = "RD"
      BY <2>2, <2>3, <2>5
    <3>3. Level' <= Level + (IF rd_ack THEN 1 ELSE 0)
      BY <2>3, <2>5 DEF Bit
    <3>4. CASE rd_ack
      <4>1. Allowed' = Allowed + 1
        BY <1>0, <1>b, <2>2, <3>4
      <4>2. Level' <= Allowed'
        BY <1>c, <2>3, <3>1, <3>3, <3>4, <4>1
      <4> QED BY <1>a, <2>5, <3>2, <4>2
    <3>5. CASE ~rd_ack /\ ~RdRunning /\ RdRunning'
      <4>1. Level < RdLevel
        BY <2>2, <3>5, RequestBelowLevel
      <4>2. Allowed' = RdLevel - 1
        BY <1>0, <1>b, <2>2, <3>5
      <4>3. Level' <= Allowed'
        BY <1>0, <1>c, <2>3, <3>3, <3>5, <4>1, <4>2
      <4> QED BY <1>a, <2>5, <3>2, <4>3
    <3>6. CASE ~rd_ack /\ ~(~RdRunning /\ RdRunning')
      <4>1. Level' <= Level
        BY <2>3, <3>3, <3>6
      <4>2. Allowed' = Allowed
        BY <1>b, <2>2, <3>6
      <4>3. Level' <= Allowed'
        BY <1>c, <2>3, <3>1, <4>1, <4>2
      <4> QED BY <1>a, <2>5, <3>2, <4>3
    <3> QED BY <3>4, <3>5, <3>6
  <2> QED BY <2>4, <2>5
<1>3. CASE UNCHANGED rdVars
  BY <1>3 DEF rdVars, rdFifoVars, ctrlVars, RoomInv, Level, Allowed, UnseenTaken, RdRunning
<1> QED BY <1>1, <1>2, <1>3, RdSteps

LEMMA RoomInit == RoomAssumption /\ RdInit => RoomInv
<1> SUFFICES ASSUME RoomAssumption, RdInit PROVE RoomInv
  OBVIOUS
<1>1. /\ rdf_words = 0 /\ rdf_pops = NoPop /\ ~rdf_pushed /\ fetched = 0 /\ taken = 0
      /\ work_state = "IDLE"
  BY DEF RdInit, RdFifoInit, CtrlInit
<1>2. Level = 0
  BY <1>1, NoneUnseen DEF Level
<1> QED BY <1>1, <1>2, ReadTypes DEF RoomInv, Allowed, RoomAssumption, RdRunning

LEMMA RoomInvariant ==
  ASSUME RoomAssumption
  PROVE  RdSpec => [](RdTypeOK /\ CtrlInv /\ AckCount /\ RoomInv)
<1>1. RdSpec => [](CtrlInv /\ AckCount)
  BY RdCtrl DEF RoomAssumption
<1>2. CtrlInv => CtrlTypeOK
  BY DEF CtrlInv
<1>3. RdInit => RdTypeOK /\ RoomInv
  BY RdInitTyped, RoomInit
<1>4. RdTypeOK /\ CtrlInv /\ AckCount /\ CtrlInv' /\ AckCount' /\ RoomInv /\ [RdNext]_rdVars
        => RdTypeOK' /\ RoomInv'
  <2> SUFFICES ASSUME RdTypeOK, CtrlInv, AckCount, CtrlInv', AckCount', RoomInv, [RdNext]_rdVars
               PROVE  RdTypeOK' /\ RoomInv'
    OBVIOUS
  <2>1. CtrlTypeOK'
    BY DEF CtrlInv
  <2> QED BY <2>1, RdTyped, RoomStep, RoomAssumption
<1> QED BY <1>1, <1>3, <1>4, PTL DEF RdSpec

(* No word of a burst meets a full FIFO: whatever the display takes and    *)
(* whatever waited between the request and the burst, the level at which   *)
(* sdfifo_ctrl.v:82 asks leaves room for all of it.                        *)
THEOREM ReadBurstFits ==
  ASSUME RoomAssumption
  PROVE  RdSpec => []RdFifoNeverFull
<1>1. RdTypeOK /\ CtrlInv /\ AckCount /\ RoomInv => RdFifoNeverFull
  <2> SUFFICES ASSUME RdTypeOK, CtrlInv, AckCount, RoomInv, rd_ack
               PROVE  rdf_words < RdDepth
    BY DEF RdFifoNeverFull
  <2>0. /\ RdLevel \in Nat /\ RdByte \in 1..256 /\ RdDepth \in Nat
        /\ RdLevel + RdByte <= RdDepth /\ rdf_words \in Nat /\ UnseenTaken \in Nat
        /\ cnt_clk \in 0..511 /\ acks \in Nat
    BY ReadTypes, UnseenNat DEF RoomAssumption, RdTypeOK, RdFifoTypeOK, CtrlTypeOK
  <2>1. work_state = "RD" /\ sys_r_wn
    BY DEF rd_ack, CtrlInv, DirectionMatches
  <2>2. cnt_clk > 1 /\ cnt_clk < RdByte + 2
    BY <2>1, AckWindow, RoomAssumption DEF RoomAssumption
  <2>3. acks <= RdByte - 1
    BY <2>0, <2>1, <2>2 DEF AckCount
  <2>4. Level <= RdLevel - 1 + acks
    BY <2>1 DEF RoomInv, Allowed, RdRunning
  <2> QED BY <2>0, <2>3, <2>4 DEF Level
<1> QED BY RoomInvariant, <1>1, PTL

-----------------------------------------------------------------------------
(* The raster.                                                             *)

RowWords == XOff - XOn
FrameWords == (YOff - YOn) * RowWords

(* Words of this line, and of this frame, that the raster has passed.      *)
Col == IF x_cnt <= XOn THEN 0
       ELSE IF x_cnt > XOff THEN RowWords
       ELSE x_cnt - XOn - 1 + (IF sft_cnt = 3 THEN 0 ELSE 1)
Passed == IF y_cnt < YOn THEN 0
          ELSE IF y_cnt >= YOff THEN FrameWords
          ELSE (y_cnt - YOn) * RowWords + Col

(* The window registers as functions of the raster position.               *)
Window ==
  /\ valid_yr <=> \/ y_cnt \in YOn..(YOff - 1) /\ ~(y_cnt = YOn /\ x_cnt = 0 /\ sft_cnt = 3)
                  \/ y_cnt = YOff /\ x_cnt = 0 /\ sft_cnt = 3
  /\ validr <=> /\ y_cnt \in YOn..(YOff - 1)
                /\ \/ x_cnt = XOn /\ sft_cnt # 3
                   \/ x_cnt \in (XOn + 1)..(XOff - 1)
                   \/ x_cnt = XOff /\ sft_cnt = 3

LEMMA NextRow == \A a, b \in Int : (a + 1) * b = a * b + b
  OBVIOUS

LEMMA ProductNat == \A a, b \in Nat : a * b \in Nat
  OBVIOUS

LEMMA RowsBelow ==
  ASSUME NEW a \in Nat, NEW b \in Nat, NEW n \in Nat, a < b
  PROVE  a * n + n <= b * n
<1>1. PICK d \in Nat : b = a + 1 + d
  <2>1. b - a - 1 \in Nat /\ b = a + 1 + (b - a - 1)
    OBVIOUS
  <2> QED BY <2>1
<1>2. b * n = a * n + n + d * n
  BY <1>1
<1>3. d * n \in Nat /\ a * n \in Nat
  BY ProductNat
<1> QED BY <1>2, <1>3

LEMMA RasterSizes ==
  /\ RowWords \in Nat /\ RowWords > 0 /\ FrameWords \in Nat
  /\ \A n \in 0..(YOff - YOn - 1) : n * RowWords \in Nat /\ n * RowWords + RowWords <= FrameWords
<1>1. RowWords \in Nat /\ RowWords > 0 /\ YOff - YOn \in Nat
  BY RasterTypes DEF RowWords
<1>2. FrameWords \in Nat
  BY <1>1, ProductNat DEF FrameWords
<1>3. ASSUME NEW n \in 0..(YOff - YOn - 1)
      PROVE  n * RowWords \in Nat /\ n * RowWords + RowWords <= FrameWords
  <2>1. n \in Nat /\ n < YOff - YOn
    BY <1>1, <1>3
  <2> QED BY <1>1, <2>1, ProductNat, RowsBelow DEF FrameWords
<1> QED BY <1>1, <1>2, <1>3

LEMMA WindowStep == ASSUME LcdTypeOK, Window, LcdTick PROVE Window'
<1>0. /\ sft_cnt \in 0..3 /\ x_cnt \in 0..XLast /\ y_cnt \in 0..YLast
      /\ XOn \in Nat /\ XOff \in Nat /\ XLast \in Nat /\ 0 < XOn /\ XOn < XOff /\ XOff < XLast
      /\ YOn \in Nat /\ YOff \in Nat /\ YLast \in Nat /\ 0 < YOn /\ YOn < YOff /\ YOff <= YLast
  BY RasterTypes DEF LcdTypeOK
<1>1. /\ sft_cnt' = IF sft_cnt = 3 THEN 0 ELSE sft_cnt + 1
      /\ x_cnt' = IF sft_cnt # 2 THEN x_cnt ELSE IF x_cnt = XLast THEN 0 ELSE x_cnt + 1
      /\ y_cnt' = IF sft_cnt # 2 \/ x_cnt # XLast THEN y_cnt
                  ELSE IF y_cnt = YLast THEN 0 ELSE y_cnt + 1
  BY <1>0 DEF LcdTick, dchange
<1>2. /\ valid_yr' <=> (y_cnt = YOn \/ (y_cnt # YOff /\ valid_yr))
      /\ validr' <=> ((x_cnt = XOn /\ valid_yr) \/ (~(x_cnt = XOff /\ valid_yr) /\ validr))
  BY DEF LcdTick, SetClear, LcdTypeOK
<1>3. valid_yr' <=> \/ y_cnt' \in YOn..(YOff - 1) /\ ~(y_cnt' = YOn /\ x_cnt' = 0 /\ sft_cnt' = 3)
                    \/ y_cnt' = YOff /\ x_cnt' = 0 /\ sft_cnt' = 3
  <2>1. valid_yr' <=> y_cnt \in YOn..(YOff - 1)
    BY <1>0, <1>2 DEF Window
  <2>2. CASE sft_cnt = 2 /\ x_cnt = XLast
    BY <1>0, <1>1, <2>1, <2>2
  <2>3. CASE ~(sft_cnt = 2 /\ x_cnt = XLast)
    <3>1. ~(x_cnt' = 0 /\ sft_cnt' = 3) /\ y_cnt' = y_cnt
      BY <1>0, <1>1, <2>3
    <3> QED BY <2>1, <3>1
  <2> QED BY <2>2, <2>3
<1>4. validr' <=> /\ y_cnt' \in YOn..(YOff - 1)
                  /\ \/ x_cnt' = XOn /\ sft_cnt' # 3
                     \/ x_cnt' \in (XOn + 1)..(XOff - 1)
                     \/ x_cnt' = XOff /\ sft_cnt' = 3
  <2>1. x_cnt \in {XOn, XOff} => (valid_yr <=> y_cnt \in YOn..(YOff - 1))
    BY <1>0 DEF Window
  <2>2. validr' <=> /\ y_cnt \in YOn..(YOff - 1)
                    /\ \/ x_cnt = XOn
                       \/ x_cnt \in (XOn + 1)..(XOff - 1)
    BY <1>0, <1>2, <2>1 DEF Window
  <2>3. CASE sft_cnt = 2 /\ x_cnt = XLast
    BY <1>0, <1>1, <2>2, <2>3
  <2>4. CASE ~(sft_cnt = 2 /\ x_cnt = XLast)
    <3>1. y_cnt' = y_cnt
      BY <1>1, <2>4
    <3>2. x_cnt \in XOn..(XOff - 1) <=>
                     \/ x_cnt' = XOn /\ sft_cnt' # 3
                     \/ x_cnt' \in (XOn + 1)..(XOff - 1)
                     \/ x_cnt' = XOff /\ sft_cnt' = 3
      BY <1>0, <1>1, <2>4
    <3> QED BY <1>0, <2>2, <3>1, <3>2
  <2> QED BY <2>3, <2>4
<1> QED BY <1>3, <1>4 DEF Window

(* What a clock of the display does to the words it has passed.            *)
LEMMA PassedStep ==
  ASSUME LcdTypeOK, Window, LcdTick
  PROVE  /\ y_cnt # 0 /\ y_cnt' # 0 => Passed' = Passed + Bit(rdfifo_rdreq)
         /\ y_cnt = 0 /\ y_cnt' # 0 => Passed' = 0 /\ x_cnt = XLast /\ sft_cnt = 2
         /\ y_cnt # 0 /\ y_cnt' = 0 => x_cnt' = 0 /\ sft_cnt' = 3
         /\ y_cnt = 0 \/ y_cnt' = 0 => ~rdfifo_rdreq
<1>0. /\ sft_cnt \in 0..3 /\ x_cnt \in 0..XLast /\ y_cnt \in 0..YLast
      /\ XOn \in Nat /\ XOff \in Nat /\ XLast \in Nat /\ 0 < XOn /\ XOn < XOff /\ XOff < XLast
      /\ YOn \in Nat /\ YOff \in Nat /\ YLast \in Nat /\ 0 < YOn /\ YOn < YOff /\ YOff <= YLast
      /\ RowWords \in Nat /\ FrameWords \in Nat /\ RowWords = XOff - XOn
  BY RasterTypes, RasterSizes DEF LcdTypeOK, RowWords
<1>1. /\ sft_cnt' = IF sft_cnt = 3 THEN 0 ELSE sft_cnt + 1
      /\ x_cnt' = IF sft_cnt # 2 THEN x_cnt ELSE IF x_cnt = XLast THEN 0 ELSE x_cnt + 1
      /\ y_cnt' = IF sft_cnt # 2 \/ x_cnt # XLast THEN y_cnt
                  ELSE IF y_cnt = YLast THEN 0 ELSE y_cnt + 1
  BY <1>0 DEF LcdTick, dchange
<1>2. rdfifo_rdreq <=> /\ sft_cnt = 3 /\ y_cnt \in YOn..(YOff - 1)
                       /\ x_cnt \in (XOn + 1)..XOff
  BY <1>0 DEF rdfifo_rdreq, Window
<1>3. /\ Col = IF x_cnt <= XOn THEN 0 ELSE IF x_cnt > XOff THEN RowWords
               ELSE x_cnt - XOn - 1 + (IF sft_cnt = 3 THEN 0 ELSE 1)
      /\ Col' = IF x_cnt' <= XOn THEN 0 ELSE IF x_cnt' > XOff THEN RowWords
                ELSE x_cnt' - XOn - 1 + (IF sft_cnt' = 3 THEN 0 ELSE 1)
      /\ Passed = IF y_cnt < YOn THEN 0 ELSE IF y_cnt >= YOff THEN FrameWords
                  ELSE (y_cnt - YOn) * RowWords + Col
      /\ Passed' = IF y_cnt' < YOn THEN 0 ELSE IF y_cnt' >= YOff THEN FrameWords
                  ELSE (y_cnt' - YOn) * RowWords + Col'
  BY DEF Col, Passed, RowWords, FrameWords
<1>4. CASE ~(sft_cnt = 2 /\ x_cnt = XLast)
  <2>1. y_cnt' = y_cnt
    BY <1>1, <1>4
  <2>2. CASE y_cnt \in YOn..(YOff - 1)
    <3>1. Passed = (y_cnt - YOn) * RowWords + Col /\ Passed' = (y_cnt - YOn) * RowWords + Col'
      BY <1>0, <1>3, <2>1, <2>2
    <3>2. Col' = Col + Bit(rdfifo_rdreq)
      <4>1. CASE sft_cnt = 3
        BY <1>0, <1>1, <1>2, <1>3, <2>2, <4>1 DEF Bit
      <4>2. CASE sft_cnt = 2
        BY <1>0, <1>1, <1>2, <1>3, <1>4, <4>2 DEF Bit
      <4>3. CASE sft_cnt \in {0, 1}
        BY <1>0, <1>1, <1>2, <1>3, <4>3 DEF Bit
      <4> QED BY <1>0, <4>1, <4>2, <4>3
    <3>3. (y_cnt - YOn) * RowWords \in Nat /\ Col \in Nat /\ Bit(rdfifo_rdreq) \in Nat
      <4>1. y_cnt - YOn \in Nat
        BY <1>0, <2>2
      <4>2. Col \in Nat
        BY <1>0, <1>3
      <4> QED BY <1>0, <4>1, <4>2, ProductNat DEF Bit
    <3>4. Passed' = Passed + Bit(rdfifo_rdreq)
      BY <3>1, <3>2, <3>3
    <3> QED BY <1>0, <2>1, <2>2, <3>4
  <2>3. CASE y_cnt \notin YOn..(YOff - 1)
    <3>1. ~rdfifo_rdreq /\ Passed' = Passed /\ Passed \in Nat
      BY <1>0, <1>2, <1>3, <2>1, <2>3
    <3>2. Passed' = Passed + Bit(rdfifo_rdreq)
      BY <3>1 DEF Bit
    <3> QED BY <2>1, <3>1, <3>2
  <2> QED BY <2>2, <2>3
<1>5. CASE sft_cnt = 2 /\ x_cnt = XLast
  <2>1. /\ ~rdfifo_rdreq /\ Col = RowWords /\ Col' = 0 /\ sft_cnt' = 3 /\ x_cnt' = 0
        /\ y_cnt' = IF y_cnt = YLast THEN 0 ELSE y_cnt + 1
    BY <1>0, <1>1, <1>2, <1>3, <1>5
  <2>2. CASE y_cnt = YLast
    BY <1>0, <2>1, <2>2
  <2>3. CASE y_cnt # YLast /\ y_cnt \notin (YOn - 1)..(YOff - 1)
    <3>1. Passed' = Passed /\ Passed \in Nat
      BY <1>0, <1>3, <2>1, <2>3
    <3>2. Passed' = Passed + Bit(rdfifo_rdreq)
      BY <2>1, <3>1 DEF Bit
    <3>3. y_cnt = 0 => Passed' = 0
      BY <1>0, <1>3, <3>1
    <3> QED BY <1>0, <1>5, <2>1, <2>3, <3>2, <3>3
  <2>4. CASE y_cnt # YLast /\ y_cnt = YOn - 1
    <3>1. Passed = 0
      BY <1>0, <1>3, <2>4
    <3>2. Passed' = 0
      <4>1. 0 * RowWords + 0 = 0
        BY <1>0
      <4>2. y_cnt' = YOn /\ y_cnt' - YOn = 0
        BY <1>0, <2>1, <2>4
      <4> QED BY <1>0, <1>3, <2>1, <4>1, <4>2
    <3> QED BY <1>0, <1>5, <2>1, <2>4, <3>1, <3>2 DEF Bit
  <2>5. CASE y_cnt # YLast /\ y_cnt \in YOn..(YOff - 1)
    <3>1. y_cnt # 0 /\ y_cnt' = y_cnt + 1
      BY <1>0, <2>1, <2>5
    <3>2. Passed = (y_cnt - YOn) * RowWords + RowWords
      BY <1>0, <1>3, <2>1, <2>5
    <3>3. (y_cnt - YOn + 1) * RowWords = (y_cnt - YOn) * RowWords + RowWords
      BY <1>0, NextRow
    <3>4. Passed' = (y_cnt - YOn + 1) * RowWords
      <4>1. CASE y_cnt = YOff - 1
        <5>1. FrameWords = (YOff - YOn) * RowWords /\ y_cnt - YOn + 1 = YOff - YOn
          BY <1>0, <4>1 DEF FrameWords
        <5> QED BY <1>0, <1>3, <3>1, <4>1, <5>1
      <4>2. CASE y_cnt # YOff - 1
        <5>1. y_cnt' - YOn = y_cnt - YOn + 1 /\ (y_cnt - YOn + 1) * RowWords \in Nat
          BY <1>0, <2>5, <3>1, ProductNat
        <5> QED BY <1>0, <1>3, <2>1, <2>5, <3>1, <4>2, <5>1
      <4> QED BY <4>1, <4>2
    <3>5. Passed' = Passed /\ Passed \in Nat
      <4>1. y_cnt - YOn + 1 \in Nat
        BY <1>0, <2>5
      <4> QED BY <1>0, <3>2, <3>3, <3>4, <4>1, ProductNat
    <3>6. Passed' = Passed + Bit(rdfifo_rdreq)
      BY <2>1, <3>5 DEF Bit
    <3> QED BY <1>0, <2>1, <3>1, <3>6
  <2> QED BY <1>0, <2>2, <2>3, <2>4, <2>5
<1> QED BY <1>4, <1>5

(* Where a word is taken.                                                  *)
LEMMA TakenHere ==
  ASSUME LcdTypeOK, Window, rdfifo_rdreq
  PROVE  /\ Passed = (y_cnt - YOn) * (XOff - XOn) + (x_cnt - XOn - 1)
         /\ Passed \in Nat /\ Passed < FrameWords /\ y_cnt # 0
<1>0. /\ sft_cnt = 3 /\ x_cnt \in 0..XLast /\ y_cnt \in 0..YLast
      /\ XOn \in Nat /\ XOff \in Nat /\ XLast \in Nat /\ 0 < XOn /\ XOn < XOff /\ XOff < XLast
      /\ YOn \in Nat /\ YOff \in Nat /\ YLast \in Nat /\ 0 < YOn /\ YOn < YOff /\ YOff <= YLast
      /\ RowWords \in Nat /\ FrameWords \in Nat /\ RowWords = XOff - XOn
  BY RasterTypes, RasterSizes DEF LcdTypeOK, RowWords, rdfifo_rdreq
<1>1. y_cnt \in YOn..(YOff - 1) /\ x_cnt \in (XOn + 1)..XOff
  BY <1>0 DEF rdfifo_rdreq, Window
<1>2. Col = x_cnt - XOn - 1 /\ Col \in Nat /\ Col < RowWords
  BY <1>0, <1>1 DEF Col
<1>3. Passed = (y_cnt - YOn) * RowWords + Col
  BY <1>0, <1>1 DEF Passed
<1>4. /\ (y_cnt - YOn) * RowWords \in Nat
      /\ (y_cnt - YOn) * RowWords + RowWords <= FrameWords
  <2>1. y_cnt - YOn \in 0..(YOff - YOn - 1)
    BY <1>0, <1>1
  <2> QED BY <2>1, RasterSizes
<1> QED BY <1>0, <1>1, <1>2, <1>3, <1>4

-----------------------------------------------------------------------------
(* Pixels and words.  The words taken since the clear are never ahead of   *)
(* the raster, and exactly level with it while there is always one to take.*)

WordCapAssumption == FrameWords <= RdWordCap

DisplayInv ==
  /\ Window
  /\ rdfifo_clrr => taken = 0 /\ (y_cnt # 0 => ph = 0)
  /\ y_cnt # 0 => taken <= Passed
  /\ taken <= FrameWords

Exact == y_cnt # 0 => taken = Passed

LEMMA PassedNat == LcdTypeOK => Passed \in Nat
<1> SUFFICES ASSUME LcdTypeOK PROVE Passed \in Nat
  OBVIOUS
<1>0. /\ sft_cnt \in 0..3 /\ x_cnt \in 0..XLast /\ y_cnt \in 0..YLast
      /\ XOn \in Nat /\ XOff \in Nat /\ XLast \in Nat
      /\ YOn \in Nat /\ YOff \in Nat /\ YLast \in Nat
      /\ RowWords \in Nat /\ FrameWords \in Nat
  BY RasterTypes, RasterSizes DEF LcdTypeOK
<1>1. Col \in Nat
  BY <1>0 DEF Col
<1>2. CASE y_cnt < YOn \/ y_cnt >= YOff
  BY <1>0, <1>2 DEF Passed
<1>3. CASE ~(y_cnt < YOn \/ y_cnt >= YOff)
  <2>1. y_cnt - YOn \in Nat
    BY <1>0, <1>3
  <2>2. (y_cnt - YOn) * RowWords \in Nat
    BY <1>0, <2>1, ProductNat
  <2> QED BY <1>1, <1>3, <2>2 DEF Passed
<1> QED BY <1>2, <1>3

LEMMA RdTypeInvariant == RdSpec => []RdTypeOK
<1>1. RdInit => CtrlInit
  BY DEF RdInit
<1>2. [RdNext]_rdVars => [CtrlNext]_ctrlVars
  BY RdSteps
<1>3. RdSpec => []CtrlTypeOK
  BY <1>1, <1>2, CtrlTypeCorrect, PTL DEF RdSpec, CtrlSpec
<1> QED BY <1>3, RdInitTyped, RdTyped, PTL DEF RdSpec

LEMMA TakenStep ==
  ASSUME RdTypeOK, NEW push \in BOOLEAN, NEW pop \in BOOLEAN, RdFifo(push, pop)
  PROVE  /\ taken \in Nat /\ taken' \in Nat
         /\ rdfifo_clrr \/ rdfifo_clrr' => taken' = 0
         /\ ~(rdfifo_clrr \/ rdfifo_clrr') =>
              /\ ~pop => taken' = taken
              /\ taken' <= taken + 1
              /\ pop /\ rdf_words > 0 /\ taken < RdWordCap => taken' = taken + 1
<1>0. taken \in 0..RdWordCap /\ taken' \in 0..RdWordCap /\ RdWordCap \in Nat
  BY FifoTyped, ReadTypes DEF RdTypeOK, RdFifoTypeOK
<1>1. rdfifo_clrr \/ rdfifo_clrr' => taken' = 0
  BY DEF RdFifo
<1>2. ~(rdfifo_clrr \/ rdfifo_clrr') => taken' = CountUp(taken, pop /\ rdf_words > 0)
  BY DEF RdFifo
<1>3. /\ ~pop => CountUp(taken, pop /\ rdf_words > 0) = taken
      /\ CountUp(taken, pop /\ rdf_words > 0) <= taken + 1
      /\ pop /\ rdf_words > 0 /\ taken < RdWordCap
           => CountUp(taken, pop /\ rdf_words > 0) = taken + 1
  BY <1>0 DEF CountUp
<1> QED BY <1>0, <1>1, <1>2, <1>3

LEMMA DisplayStep ==
  RdTypeOK /\ RdTypeOK' /\ DisplayInv /\ [RdNext]_rdVars =>
    DisplayInv' /\ (WordCapAssumption /\ LcdNeverStarves /\ Exact => Exact')
<1> SUFFICES ASSUME RdTypeOK, RdTypeOK', DisplayInv, [RdNext]_rdVars
             PROVE  DisplayInv' /\ (WordCapAssumption /\ LcdNeverStarves /\ Exact => Exact')
  OBVIOUS
<1>0. /\ LcdTypeOK /\ taken \in Nat /\ taken' \in Nat /\ FrameWords \in Nat /\ ph \in 0..3
      /\ RdWordCap \in Nat /\ RdPopLag \in Nat /\ rdf_words \in Nat
  BY RasterSizes, ReadTypes DEF RdTypeOK, RdFifoTypeOK
<1>a. DisplayInv' <=>
        /\ Window'
        /\ rdfifo_clrr' => taken' = 0 /\ (y_cnt' # 0 => ph' = 0)
        /\ y_cnt' # 0 => taken' <= Passed'
        /\ taken' <= FrameWords
  BY DEF DisplayInv, FrameWords, RowWords
<1>b. Exact' <=> (y_cnt' # 0 => taken' = Passed')
  BY DEF Exact
<1>c. Passed \in Nat
  BY <1>0, PassedNat
<1>1. CASE RdReset
  <2>1. RdFifo(FALSE, FALSE) /\ ~rdfifo_clrr' /\ LcdReset
    BY <1>1 DEF RdReset, RdFifoReset
  <2>2. taken' = 0 \/ taken' = taken
    BY <2>1, TakenStep
  <2>3. y_cnt' = 0 /\ taken' <= FrameWords
    BY <1>0, <2>1, <2>2 DEF LcdReset, DisplayInv
  <2>4. Window'
    BY <2>1, <2>3, RasterTypes DEF LcdReset, Window
  <2> QED BY <1>a, <1>b, <2>1, <2>3, <2>4
<1>2. ASSUME NEW wr \in BOOLEAN, RdTick(wr)
      PROVE  DisplayInv' /\ (WordCapAssumption /\ LcdNeverStarves /\ Exact => Exact')
  <2> DEFINE pop == rdfifo_rdreq /\ ph = 3
  <2>1. /\ RdFifo(rd_ack, pop) /\ rd_ack \in BOOLEAN /\ pop \in BOOLEAN
        /\ rdfifo_clrr' = (y_cnt = 0) /\ ph' = (ph + 1) % 4
        /\ IF ph = 3 THEN LcdTick ELSE UNCHANGED lcdVars
    BY <1>2 DEF RdTick, RdFifoTick, rd_ack, rdfifo_rdreq, rdfifo_clr
  <2>2. /\ rdfifo_clrr \/ y_cnt = 0 => taken' = 0
        /\ ~(rdfifo_clrr \/ y_cnt = 0) =>
              /\ ~pop => taken' = taken
              /\ taken' <= taken + 1
              /\ pop /\ rdf_words > 0 /\ taken < RdWordCap => taken' = taken + 1
    BY <2>1, TakenStep
  <2>3. CASE ph # 3
    <3>1. /\ y_cnt' = y_cnt /\ x_cnt' = x_cnt /\ sft_cnt' = sft_cnt
          /\ valid_yr' = valid_yr /\ validr' = validr
      BY <2>1, <2>3 DEF lcdVars
    <3>2. Passed' = Passed /\ (Window <=> Window')
      BY <3>1 DEF Passed, Col, Window, FrameWords, RowWords
    <3>3. taken' = 0 \/ taken' = taken
      BY <2>2, <2>3
    <3>4. y_cnt # 0 /\ rdfifo_clrr => taken = 0
      BY DEF DisplayInv
    <3>5. y_cnt # 0 => taken' = taken
      BY <2>2, <2>3, <3>4
    <3>6. taken' <= FrameWords /\ (y_cnt' # 0 => taken' <= Passed')
      BY <1>0, <1>c, <3>1, <3>2, <3>3, <3>5 DEF DisplayInv
    <3>7. rdfifo_clrr' => taken' = 0 /\ y_cnt' = 0
      BY <2>1, <2>2, <3>1
    <3>8. Exact => Exact'
      BY <1>b, <3>1, <3>2, <3>5 DEF Exact
    <3>9. Window'
      BY <3>2 DEF DisplayInv
    <3> QED BY <1>a, <3>6, <3>7, <3>8, <3>9
  <2>4. CASE ph = 3
    <3>1. LcdTick /\ Window /\ ph' = 0 /\ ~(rdfifo_clrr /\ y_cnt # 0)
      BY <1>0, <2>1, <2>4 DEF DisplayInv
    <3>2. Window'
      BY <1>0, <3>1, WindowStep
    <3>3. /\ y_cnt # 0 /\ y_cnt' # 0 => Passed' = Passed + Bit(rdfifo_rdreq)
          /\ y_cnt = 0 /\ y_cnt' # 0 => Passed' = 0
          /\ y_cnt = 0 \/ y_cnt' = 0 => ~rdfifo_rdreq
      BY <1>0, <3>1, PassedStep
    <3>4. rdfifo_rdreq => Passed < FrameWords /\ y_cnt # 0
      BY <1>0, <3>1, TakenHere
    <3>5. rdfifo_clrr' => taken' = 0
      BY <2>1, <2>2
    <3>6. CASE y_cnt = 0
      <4>1. taken' = 0
        BY <2>2, <3>6
      <4>2. taken' <= FrameWords /\ (y_cnt' # 0 => taken' <= Passed' /\ taken' = Passed')
        BY <1>0, <3>3, <3>6, <4>1
      <4> QED BY <1>a, <1>b, <3>1, <3>2, <3>5, <4>2
    <3>7. CASE y_cnt # 0
      <4>1. ~rdfifo_clrr /\ ~rdfifo_clrr'
        BY <2>1, <3>1, <3>7
      <4>2. taken <= Passed /\ taken <= FrameWords
        BY <3>7 DEF DisplayInv
      <4>3. CASE rdfifo_rdreq
        <5>1. taken' <= taken + 1 /\ y_cnt' # 0 /\ Passed < FrameWords
          BY <2>2, <3>3, <3>4, <3>7, <4>1, <4>3
        <5>2. Passed' = Passed + 1
          BY <1>c, <3>3, <3>7, <4>3, <5>1 DEF Bit
        <5>3. taken' <= FrameWords /\ taken' <= Passed'
          BY <1>0, <1>c, <4>2, <5>1, <5>2
        <5>4. ASSUME WordCapAssumption, LcdNeverStarves, Exact PROVE taken' = Passed'
          <6>1. rdf_words > 0 /\ taken = Passed /\ taken < RdWordCap
            BY <1>0, <1>c, <2>4, <3>7, <4>3, <5>1, <5>4
               DEF LcdNeverStarves, Exact, WordCapAssumption
          <6>2. taken' = taken + 1
            BY <2>2, <2>4, <3>7, <4>1, <4>3, <6>1
          <6> QED BY <5>2, <6>1, <6>2
        <5> QED BY <1>a, <1>b, <3>2, <4>1, <5>3, <5>4
      <4>4. CASE ~rdfifo_rdreq
        <5>1. taken' = taken
          BY <2>2, <3>7, <4>1, <4>4
        <5>2. y_cnt' # 0 => Passed' = Passed
          BY <1>c, <3>3, <3>7, <4>4 DEF Bit
        <5>3. taken' <= FrameWords /\ (y_cnt' # 0 => taken' <= Passed')
          BY <4>2, <5>1, <5>2
        <5>4. Exact => Exact'
          BY <1>b, <3>7, <5>1, <5>2 DEF Exact
        <5> QED BY <1>a, <3>2, <4>1, <5>3, <5>4
      <4> QED BY <4>3, <4>4
    <3> QED BY <3>6, <3>7
  <2> QED BY <2>3, <2>4
<1>3. CASE UNCHANGED rdVars
  BY <1>3 DEF rdVars, rdFifoVars, lcdVars, DisplayInv, Exact, Window, Passed, Col,
              FrameWords, RowWords
<1> QED BY <1>1, <1>2, <1>3, RdSteps

LEMMA DisplayInit == RdInit => DisplayInv /\ Exact
<1> SUFFICES ASSUME RdInit PROVE DisplayInv /\ Exact
  OBVIOUS
<1>1. /\ y_cnt = 0 /\ taken = 0 /\ ~rdfifo_clrr /\ valid_yr = FALSE /\ validr = FALSE
  BY DEF RdInit, RdFifoInit, LcdInit
<1>2. Window
  BY <1>1, RasterTypes DEF Window
<1> QED BY <1>1, <1>2, RasterSizes DEF DisplayInv, Exact

LEMMA DisplayInvariant == RdSpec => [](RdTypeOK /\ DisplayInv)
<1>1. RdInit => DisplayInv
  BY DisplayInit
<1>2. RdTypeOK /\ RdTypeOK' /\ DisplayInv /\ [RdNext]_rdVars => DisplayInv'
  BY DisplayStep
<1> QED BY RdTypeInvariant, <1>1, <1>2, PTL DEF RdSpec

(* As long as a word is there for every pixel, each pixel gets its own;    *)
(* DisplayIsFed below shows that one always is.                            *)
LEMMA PixelsFollow ==
  ASSUME WordCapAssumption
  PROVE  RdSpec /\ []LcdNeverStarves => []PixelInPlace
<1>1. RdInit => Exact
  BY DisplayInit
<1>2. RdTypeOK /\ RdTypeOK' /\ DisplayInv /\ LcdNeverStarves /\ Exact /\ [RdNext]_rdVars => Exact'
  BY DisplayStep, WordCapAssumption
<1>3. RdTypeOK /\ DisplayInv /\ Exact => PixelInPlace
  <2> SUFFICES ASSUME RdTypeOK, DisplayInv, Exact, rdfifo_rdreq
               PROVE  taken = (y_cnt - YOn) * (XOff - XOn) + (x_cnt - XOn - 1)
    BY DEF PixelInPlace
  <2> QED BY TakenHere DEF RdTypeOK, DisplayInv, Exact
<1> QED BY DisplayInvariant, <1>1, <1>2, <1>3, PTL DEF RdSpec

-----------------------------------------------------------------------------
(* Pages.  Every word pushed is counted, and the page of the next burst is *)
(* the number of bursts pushed since the clear.  The history counters and  *)
(* the page counter hold a frame; the first line, in which the FIFO is     *)
(* cleared, outlasts the operation it meets.                               *)

PageAssumption ==
  /\ RoomAssumption
  /\ FrameWords + RdDepth <= RdWordCap
  /\ FrameWords + RdDepth < RdPages * RdByte
  /\ MaxOp + 2 < 16 * (XLast + 1)

(* The delayed acknowledges, from the counter of the operation.            *)
AckPipe ==
  /\ work_state = "RD" => (sdrdackr1 <=> cnt_clk >= 3) /\ (sdrdackr2 <=> cnt_clk >= 4)
  /\ work_state # "RD" => ~sdrdackr1 /\ (sdrdackr2 => work_state = "IDLE")

(* Clocks of clk_100m since the first line began.                          *)
Age == 16 * x_cnt + 4 * (IF sft_cnt = 3 THEN 0 ELSE sft_cnt + 1) + ph

(* After a reset, before the clear is sampled.                             *)
Fresh == ~init_done /\ y_cnt = 0

(* Words of the burst that the page counter does not count yet.            *)
Part == IF RdRunning THEN acks ELSE IF sdrdackr2 THEN RdByte ELSE 0

InStep == fetched = sys_rdabr * RdByte + Part

PageInv ==
  /\ fetched = taken + rdf_words
  /\ AckPipe
  /\ y_cnt = 0 => rdfifo_clrr \/ Age = 0 \/ Fresh
  /\ y_cnt = 0 /\ rdfifo_clrr /\ RdRunning => Age + OpLeft <= MaxOp + 1
  /\ y_cnt # 0 /\ rdfifo_clrr => ~RdRunning /\ ~sdrdackr2
  /\ ~rdfifo_clrr => Fresh \/ InStep

LEMMA CountedStep ==
  ASSUME PageAssumption, RdTypeOK, DisplayInv, fetched = taken + rdf_words,
         NEW push \in BOOLEAN, NEW pop \in BOOLEAN, RdFifo(push, pop)
  PROVE  /\ fetched' = taken' + rdf_words'
         /\ ~(rdfifo_clrr \/ rdfifo_clrr') =>
              fetched' = fetched + Bit(push /\ rdf_words < RdDepth)
<1>0. /\ rdf_words \in 0..RdDepth /\ taken \in Nat /\ fetched \in Nat /\ RdWordCap \in Nat
      /\ RdDepth \in Nat /\ FrameWords \in Nat /\ taken <= FrameWords
      /\ FrameWords + RdDepth <= RdWordCap
  BY ReadTypes, RasterSizes DEF RdTypeOK, RdFifoTypeOK, DisplayInv, PageAssumption
<1>1. CASE rdfifo_clrr \/ rdfifo_clrr'
  <2>1. fetched' = 0 /\ taken' = 0 /\ rdf_words' = 0
    BY <1>1 DEF RdFifo
  <2> QED BY <1>1, <2>1
<1>2. CASE ~(rdfifo_clrr \/ rdfifo_clrr')
  <2> DEFINE in == push /\ rdf_words < RdDepth
             out == pop /\ rdf_words > 0
  <2>1. /\ rdf_words' = rdf_words + Bit(in) - Bit(out)
        /\ fetched' = CountUp(fetched, in) /\ taken' = CountUp(taken, out)
    BY <1>2 DEF RdFifo
  <2>2. in => fetched < RdWordCap
    BY <1>0
  <2>3. out => taken < RdWordCap
    BY <1>0
  <2>4. in \in BOOLEAN /\ out \in BOOLEAN
    OBVIOUS
  <2> HIDE DEF in, out
  <2>5. fetched' = fetched + Bit(in) /\ taken' = taken + Bit(out)
    BY <1>0, <2>1, <2>2, <2>3 DEF CountUp, Bit
  <2>6. Bit(in) \in Int /\ Bit(out) \in Int
    BY DEF Bit
  <2>7. fetched' = taken' + rdf_words'
    BY <1>0, <2>1, <2>5, <2>6
  <2> QED BY <2>5, <2>7 DEF in
<1> QED BY <1>1, <1>2

LEMMA AckPipeStep ==
  ASSUME CtrlInv, AckAssumption, AckPipe,
         NEW wr \in BOOLEAN, NEW rd \in BOOLEAN, CtrlTick(wr, rd),
         sdrdackr1' = rd_ack, sdrdackr2' = sdrdackr1
  PROVE  AckPipe'
<1>0. /\ cnt_clk \in 0..511 /\ RdByte \in 1..256 /\ work_state \in W_States
  BY TimingAssumption DEF TimingAssumption, CtrlInv, CtrlTypeOK
<1>a. AckPipe' <=>
        /\ work_state' = "RD" => (sdrdackr1' <=> cnt_clk' >= 3) /\ (sdrdackr2' <=> cnt_clk' >= 4)
        /\ work_state' # "RD" => ~sdrdackr1' /\ (sdrdackr2' => work_state' = "IDLE")
  BY DEF AckPipe
<1>1. CASE work_state = "RD"
  <2>1. init_done /\ RunOperation /\ DelayCounter
    BY <1>1, Shifts DEF CtrlTick
  <2>2. /\ work_state' = IF cnt_clk = RdByte + 2 THEN "IDLE" ELSE "RD"
        /\ cnt_clk' = IF cnt_clk = RdByte + 2 THEN 0 ELSE cnt_clk + 1
    BY <1>1, <2>1, DelayStep DEF RunOperation, Move, end_tread
  <2>3. /\ cnt_clk <= RdByte + 2 /\ (rd_ack <=> cnt_clk > 1 /\ cnt_clk < RdByte + 2)
        /\ (sdrdackr1 <=> cnt_clk >= 3)
    BY <1>1, AckWindow DEF CtrlInv, CounterInRange, AckPipe
  <2>4. CASE cnt_clk = RdByte + 2
    BY <1>0, <1>a, <2>2, <2>3, <2>4
  <2>5. CASE cnt_clk # RdByte + 2
    <3>1. cnt_clk + 1 >= 3 <=> cnt_clk > 1
      BY <1>0
    <3>2. cnt_clk + 1 >= 4 <=> cnt_clk >= 3
      BY <1>0
    <3>3. cnt_clk < RdByte + 2
      BY <1>0, <2>3, <2>5
    <3> QED BY <1>a, <2>2, <2>3, <2>5, <3>1, <3>2, <3>3
  <2> QED BY <2>4, <2>5
<1>2. CASE work_state # "RD"
  <2>1. ~rd_ack /\ ~sdrdackr1
    BY <1>2 DEF rd_ack, AckPipe
  <2>2. ASSUME work_state' = "RD" PROVE cnt_clk' = 0
    <3>1. work_state # "IDLE"
      BY <2>2, Shifts
    <3>2. init_done /\ RunOperation /\ DelayCounter
      BY <3>1, Shifts DEF CtrlTick
    <3>3. work_state = "CL" /\ end_tcl(cnt_clk)
      BY <1>2, <2>2, <3>2 DEF RunOperation, Move, Column
    <3> QED BY <3>2, <3>3, DelayStep
  <2>3. ~(0 >= 3) /\ ~(0 >= 4)
    OBVIOUS
  <2> QED BY <1>a, <2>1, <2>2, <2>3
<1> QED BY <1>1, <1>2

LEMMA AgeMoves ==
  ASSUME LcdTypeOK, ph \in 0..3, ph' = (ph + 1) % 4,
         IF ph = 3 THEN LcdTick ELSE UNCHANGED lcdVars
  PROVE  /\ Age \in Nat /\ Age' \in Int
         /\ y_cnt = 0 /\ y_cnt' = 0 => Age' = Age + 1
         /\ y_cnt # 0 /\ y_cnt' = 0 => Age' = 0
         /\ y_cnt = 0 /\ y_cnt' # 0 => Age = 16 * XLast + 15
<1>0. /\ sft_cnt \in 0..3 /\ x_cnt \in 0..XLast /\ y_cnt \in 0..YLast
      /\ XLast \in Nat /\ YLast \in Nat /\ YLast > 0
  BY RasterTypes DEF LcdTypeOK
<1>1. /\ Age = 16 * x_cnt + 4 * (IF sft_cnt = 3 THEN 0 ELSE sft_cnt + 1) + ph
      /\ Age' = 16 * x_cnt' + 4 * (IF sft_cnt' = 3 THEN 0 ELSE sft_cnt' + 1) + ph'
  BY DEF Age
<1>2. CASE ph # 3
  <2>1. x_cnt' = x_cnt /\ sft_cnt' = sft_cnt /\ y_cnt' = y_cnt /\ ph' = ph + 1
    BY <1>2 DEF lcdVars
  <2> QED BY <1>0, <1>1, <2>1
<1>3. CASE ph = 3
  <2>1. /\ sft_cnt' = IF sft_cnt = 3 THEN 0 ELSE sft_cnt + 1
        /\ x_cnt' = IF sft_cnt # 2 THEN x_cnt ELSE IF x_cnt = XLast THEN 0 ELSE x_cnt + 1
        /\ y_cnt' = IF sft_cnt # 2 \/ x_cnt # XLast THEN y_cnt
                    ELSE IF y_cnt = YLast THEN 0 ELSE y_cnt + 1
        /\ ph' = 0
    BY <1>0, <1>3 DEF LcdTick, dchange
  <2>2. CASE sft_cnt = 2 /\ x_cnt = XLast
    BY <1>0, <1>1, <1>3, <2>1, <2>2
  <2>3. CASE ~(sft_cnt = 2 /\ x_cnt = XLast)
    BY <1>0, <1>1, <1>3, <2>1, <2>3
  <2> QED BY <2>2, <2>3
<1> QED BY <1>2, <1>3

(* A clock outside the first line keeps page and words in step.            *)
LEMMA InStepTick ==
  ASSUME PageAssumption, RdTypeOK, CtrlInv, AckCount, RoomInv, RdFifoNeverFull, DisplayInv,
         PageInv, y_cnt # 0, NEW wr \in BOOLEAN, RdTick(wr)
  PROVE  InStep'
<1> DEFINE pop == rdfifo_rdreq /\ ph = 3
<1>0. /\ CtrlTick(wr, sdram_rd_req) /\ sdram_rd_req \in BOOLEAN
      /\ RdFifo(rd_ack, pop) /\ rd_ack \in BOOLEAN /\ pop \in BOOLEAN
      /\ rdfifo_clrr' = (y_cnt = 0) /\ sdrdackr1' = rd_ack /\ sdrdackr2' = sdrdackr1
      /\ sys_rdabr' = IF rdfifo_clrr THEN 0
                      ELSE IF neg_sdrdack THEN (sys_rdabr + 1) % RdPages ELSE sys_rdabr
  BY DEF RdTick, RdFifoTick, ReadPage, sdram_rd_req, rd_ack, rdfifo_rdreq, rdfifo_clr
<1>1. /\ rd_ack => RdRunning /\ RdRunning' /\ work_state = "RD" /\ acks' = acks + 1
      /\ RdRunning /\ RdRunning' /\ ~rd_ack => acks' = acks
      /\ ~RdRunning /\ RdRunning' =>
           sdram_rd_req /\ work_state = "IDLE" /\ acks' = 0
      /\ RdRunning /\ ~RdRunning' => work_state = "RD" /\ cnt_clk = RdByte + 2 /\ acks = RdByte /\ ~rd_ack
  BY <1>0, ReadMoves DEF PageAssumption, RoomAssumption
<1>2. /\ RdByte \in Nat /\ RdByte >= 1 /\ RdPages \in Nat /\ RdPages > 0
      /\ sys_rdabr \in 0..(RdPages - 1) /\ acks \in Nat /\ fetched \in Nat
      /\ taken \in Nat /\ rdf_words \in 0..RdDepth /\ RdDepth \in Nat /\ cnt_clk \in 0..511
      /\ FrameWords \in Nat /\ taken <= FrameWords /\ FrameWords + RdDepth < RdPages * RdByte
  BY ReadTypes, RasterSizes DEF PageAssumption, RdTypeOK, RdFifoTypeOK, CtrlTypeOK, DisplayInv
<1>3. /\ Part = IF RdRunning THEN acks ELSE IF sdrdackr2 THEN RdByte ELSE 0
      /\ Part' = IF RdRunning' THEN acks' ELSE IF sdrdackr2' THEN RdByte ELSE 0
      /\ InStep' <=> fetched' = sys_rdabr' * RdByte + Part'
  BY DEF Part, InStep
<1>4. /\ work_state = "RD" => (sdrdackr1 <=> cnt_clk >= 3) /\ (sdrdackr2 <=> cnt_clk >= 4)
      /\ work_state # "RD" => ~sdrdackr1 /\ (sdrdackr2 => work_state = "IDLE")
  BY DEF PageInv, AckPipe
<1>5. neg_sdrdack <=> ~sdrdackr1 /\ sdrdackr2
  BY DEF neg_sdrdack
<1>6. work_state = "IDLE" => ~RdRunning
  BY DEF RdRunning
<1>7. CASE rdfifo_clrr
  <2>1. ~RdRunning /\ ~sdrdackr2 /\ ~sdram_rd_req
    BY <1>7 DEF PageInv, sdram_rd_req
  <2>2. ~RdRunning' /\ ~sdrdackr2'
    <3>1. work_state # "RD"
      BY <2>1 DEF RdRunning, CtrlInv, DirectionMatches
    <3> QED BY <1>0, <1>1, <1>4, <2>1, <3>1
  <2>3. fetched' = 0 /\ sys_rdabr' = 0
    BY <1>0, <1>7 DEF RdFifo
  <2>4. 0 * RdByte + 0 = 0
    BY <1>2
  <2> QED BY <1>3, <2>2, <2>3, <2>4
<1>8. CASE ~rdfifo_clrr
  <2>1. ~rdfifo_clrr' /\ ~Fresh
    BY <1>0 DEF Fresh
  <2>2. fetched = sys_rdabr * RdByte + Part
    BY <1>8, <2>1 DEF PageInv, InStep
  <2>3. fetched' = fetched + (IF rd_ack THEN 1 ELSE 0)
    <3>1. fetched' = fetched + Bit(rd_ack /\ rdf_words < RdDepth)
      BY <1>0, <1>8, <2>1, CountedStep DEF PageInv
    <3>2. rd_ack => rdf_words < RdDepth
      BY <1>8 DEF RdFifoNeverFull
    <3> QED BY <3>1, <3>2 DEF Bit
  <2>4. sys_rdabr * RdByte \in Nat /\ (sys_rdabr + 1) * RdByte = sys_rdabr * RdByte + RdByte
    BY <1>2, ProductNat, NextRow
  <2>5. CASE ~neg_sdrdack
    <3>1. sys_rdabr' = sys_rdabr
      BY <1>0, <1>8, <2>5
    <3>a. PICK n \in Nat : n = sys_rdabr * RdByte
      BY <2>4
    <3>b. fetched = n + Part /\ (InStep' <=> fetched' = n + Part')
      BY <1>3, <2>2, <3>1, <3>a
    <3>2. CASE RdRunning /\ RdRunning'
      <4>1. Part = acks /\ Part' = acks + (IF rd_ack THEN 1 ELSE 0)
        BY <1>1, <1>2, <1>3, <3>2
      <4> QED BY <1>2, <2>3, <3>b, <4>1
    <3>3. CASE RdRunning /\ ~RdRunning'
      <4>1. work_state = "RD" /\ cnt_clk = RdByte + 2 /\ acks = RdByte /\ ~rd_ack
        BY <1>1, <3>3
      <4>2. sdrdackr1
        BY <1>2, <1>4, <4>1
      <4>3. Part = RdByte /\ Part' = RdByte
        BY <1>0, <1>3, <3>3, <4>1, <4>2
      <4> QED BY <1>2, <2>3, <3>b, <4>1, <4>3
    <3>4. CASE ~RdRunning /\ ~sdrdackr2
      <4>1. work_state # "RD"
        BY <3>4 DEF RdRunning, CtrlInv, DirectionMatches
      <4>2. Part = 0 /\ Part' = 0 /\ ~rd_ack
        BY <1>0, <1>1, <1>3, <1>4, <3>4, <4>1
      <4> QED BY <1>2, <2>3, <3>b, <4>2
    <3>5. CASE ~RdRunning /\ sdrdackr2
      <4>1. work_state # "RD"
        BY <3>5 DEF RdRunning, CtrlInv, DirectionMatches
      <4> QED BY <1>4, <1>5, <2>5, <3>5, <4>1
    <3> QED BY <3>2, <3>3, <3>4, <3>5
  <2>6. CASE neg_sdrdack
    <3>1. work_state = "IDLE" /\ ~sdrdackr1 /\ sdrdackr2
      BY <1>2, <1>4, <1>5, <2>6
    <3>2. ~RdRunning /\ ~rd_ack /\ Part = RdByte
      BY <1>1, <1>3, <1>6, <3>1
    <3>3. Part' = 0
      BY <1>0, <1>1, <1>3, <3>1, <3>2
    <3>4. fetched = (sys_rdabr + 1) * RdByte
      BY <2>2, <2>4, <3>2
    <3>5. fetched < RdPages * RdByte
      <4>1. fetched = taken + rdf_words
        BY DEF PageInv
      <4>2. RdPages * RdByte \in Nat
        BY <1>2, ProductNat
      <4> QED BY <1>2, <4>1, <4>2
    <3>6. sys_rdabr + 1 < RdPages
      <4>1. sys_rdabr + 1 # RdPages
        BY <1>2, <3>4, <3>5
      <4> QED BY <1>2, <4>1
    <3>7. sys_rdabr' = sys_rdabr + 1
      BY <1>0, <1>2, <1>8, <2>6, <3>6
    <3>8. fetched' = (sys_rdabr + 1) * RdByte + 0
      BY <1>2, <2>3, <3>2, <3>4
    <3> QED BY <1>3, <3>3, <3>7, <3>8
  <2> QED BY <2>5, <2>6
<1> QED BY <1>7, <1>8

LEMMA PageStep ==
  PageAssumption /\ RdTypeOK /\ CtrlInv /\ CtrlInv' /\ AckCount /\ RoomInv /\ RdFifoNeverFull
    /\ DisplayInv /\ PageInv /\ [RdNext]_rdVars => PageInv'
<1> SUFFICES ASSUME PageAssumption, RdTypeOK, CtrlInv, CtrlInv', AckCount, RoomInv,
                    RdFifoNeverFull, DisplayInv, PageInv, [RdNext]_rdVars
             PROVE  PageInv'
  OBVIOUS
<1>0. MaxOp \in Int /\ XLast \in Nat /\ MaxOp + 2 < 16 * (XLast + 1) /\ LcdTypeOK /\ ph \in 0..3
  BY OperationSizes, RasterTypes DEF PageAssumption, RdTypeOK
<1>a. PageInv' <=>
        /\ fetched' = taken' + rdf_words'
        /\ AckPipe'
        /\ y_cnt' = 0 => rdfifo_clrr' \/ Age' = 0 \/ Fresh'
        /\ y_cnt' = 0 /\ rdfifo_clrr' /\ RdRunning' => Age' + OpLeft' <= MaxOp + 1
        /\ y_cnt' # 0 /\ rdfifo_clrr' => ~RdRunning' /\ ~sdrdackr2'
        /\ ~rdfifo_clrr' => Fresh' \/ InStep'
  BY DEF PageInv, MaxOp, Larger, ReadTail, WriteTail
<1>1. CASE RdReset
  <2>1. /\ RdFifo(FALSE, FALSE) /\ ~rdfifo_clrr' /\ LcdReset /\ ~sdrdackr1' /\ ~sdrdackr2'
        /\ work_state' = "IDLE" /\ init_state' = I_NOP
    BY <1>1 DEF RdReset, RdFifoReset, CtrlReset
  <2>2. fetched' = taken' + rdf_words'
    BY <2>1, CountedStep DEF PageInv
  <2>3. AckPipe'
    BY <2>1 DEF AckPipe
  <2>4. Fresh'
    BY <2>1 DEF LcdReset, Fresh, init_done, I_NOP, I_DONE
  <2> QED BY <1>a, <2>1, <2>2, <2>3, <2>4
<1>2. ASSUME NEW wr \in BOOLEAN, RdTick(wr) PROVE PageInv'
  <2> DEFINE pop == rdfifo_rdreq /\ ph = 3
  <2>0. /\ CtrlTick(wr, sdram_rd_req) /\ sdram_rd_req \in BOOLEAN
        /\ RdFifo(rd_ack, pop) /\ rd_ack \in BOOLEAN /\ pop \in BOOLEAN
        /\ rdfifo_clrr' = (y_cnt = 0) /\ sdrdackr1' = rd_ack /\ sdrdackr2' = sdrdackr1
        /\ ph' = (ph + 1) % 4 /\ IF ph = 3 THEN LcdTick ELSE UNCHANGED lcdVars
    BY <1>2 DEF RdTick, RdFifoTick, sdram_rd_req, rd_ack, rdfifo_rdreq, rdfifo_clr
  <2>1. fetched' = taken' + rdf_words'
    BY <2>0, CountedStep DEF PageInv
  <2>2. AckPipe'
    BY <2>0, AckPipeStep DEF PageInv, PageAssumption, RoomAssumption
  <2>3. /\ Age \in Nat /\ Age' \in Int
        /\ y_cnt = 0 /\ y_cnt' = 0 => Age' = Age + 1
        /\ y_cnt # 0 /\ y_cnt' = 0 => Age' = 0
        /\ y_cnt = 0 /\ y_cnt' # 0 => Age = 16 * XLast + 15
    BY <1>0, <2>0, AgeMoves
  <2>4. ~RdRunning /\ RdRunning' => sdram_rd_req
    BY <2>0, ReadMoves DEF PageAssumption, RoomAssumption
  <2>5. y_cnt' = 0 => rdfifo_clrr' \/ Age' = 0
    BY <2>0, <2>3
  <2>6. RdRunning => OpLeft \in Int /\ OpLeft >= 1
    BY OpRuns DEF RdRunning
  <2>7. ASSUME y_cnt = 0, rdfifo_clrr, RdRunning' PROVE RdRunning
    BY <2>4, <2>7 DEF sdram_rd_req
  <2>8. ASSUME y_cnt' = 0, rdfifo_clrr', RdRunning' PROVE Age' + OpLeft' <= MaxOp + 1
    <3>1. y_cnt = 0 /\ Age' = Age + 1
      BY <2>0, <2>3, <2>8
    <3>2. CASE rdfifo_clrr
      <4>1. RdRunning /\ Age + OpLeft <= MaxOp + 1
        BY <2>7, <2>8, <3>1, <3>2 DEF PageInv
      <4>2. init_done /\ work_state \notin {"IDLE", "AR"}
        BY <4>1 DEF RdRunning, CtrlInv, DirectionMatches
      <4>3. OpLeft' = OpLeft - 1
        BY <2>0, <4>2, OpLeftStep
      <4> QED BY <1>0, <2>3, <2>6, <3>1, <4>1, <4>3
    <3>3. CASE ~rdfifo_clrr
      <4>1. ~Fresh
        <5> SUFFICES ASSUME ~init_done PROVE FALSE
          BY DEF Fresh
        <5>1. work_state' = "IDLE"
          BY <2>0, InitClock
        <5> QED BY <2>8, <5>1 DEF RdRunning
      <4>2. Age = 0
        BY <3>1, <3>3, <4>1 DEF PageInv
      <4>3. OpLeft' \in Int /\ OpLeft' <= MaxOp
        <5>1. (CtrlInv => OpLeftOK)'
          BY OpLeftBounded, PTL
        <5>2. MaxOp' = MaxOp
          BY DEF MaxOp, Larger, ReadTail, WriteTail
        <5> QED BY <5>1, <5>2 DEF OpLeftOK
      <4>4. Age' = 1
        BY <3>1, <4>2
      <4>5. \A n \in Int : n <= MaxOp => 1 + n <= MaxOp + 1
        BY <1>0
      <4> QED BY <4>3, <4>4, <4>5
    <3> QED BY <3>2, <3>3
  <2>9. ASSUME y_cnt' # 0, rdfifo_clrr' PROVE ~RdRunning' /\ ~sdrdackr2'
    <3>1. y_cnt = 0 /\ Age = 16 * XLast + 15
      BY <2>0, <2>3, <2>9
    <3>2. ~RdRunning /\ ~RdRunning'
      <4>1. CASE rdfifo_clrr
        <5>1. ASSUME RdRunning PROVE FALSE
          <6>1. Age + OpLeft <= MaxOp + 1
            BY <3>1, <4>1, <5>1 DEF PageInv
          <6> QED BY <1>0, <2>6, <3>1, <5>1, <6>1
        <5> QED BY <2>7, <3>1, <4>1, <5>1
      <4>2. CASE ~rdfifo_clrr
        <5>1. Age # 0
          BY <1>0, <3>1
        <5>2. Fresh
          BY <3>1, <4>2, <5>1 DEF PageInv
        <5>3. ~init_done /\ work_state = "IDLE" /\ work_state' = "IDLE"
          BY <2>0, <5>2, InitClock DEF Fresh, CtrlInv, DirectionMatches
        <5> QED BY <5>3 DEF RdRunning
      <4> QED BY <4>1, <4>2
    <3>3. work_state # "RD"
      BY <3>2 DEF RdRunning, CtrlInv, DirectionMatches
    <3> QED BY <2>0, <3>2, <3>3 DEF PageInv, AckPipe
  <2>10. ~rdfifo_clrr' => InStep'
    BY <1>2, <2>0, InStepTick
  <2> QED BY <1>a, <2>1, <2>2, <2>5, <2>8, <2>9, <2>10
<1>3. CASE UNCHANGED rdVars
  BY <1>3, <1>a DEF rdVars, rdFifoVars, lcdVars, ctrlVars, PageInv, AckPipe, Fresh, InStep, Part,
     RdRunning, Age, OpLeft, ColumnTail, init_done
<1> QED BY <1>1, <1>2, <1>3, RdSteps

LEMMA PageInit == RdInit => PageInv
<1> SUFFICES ASSUME RdInit PROVE PageInv
  OBVIOUS
<1>1. /\ y_cnt = 0 /\ fetched = 0 /\ taken = 0 /\ rdf_words = 0 /\ ~rdfifo_clrr
      /\ sdrdackr1 = FALSE /\ sdrdackr2 = FALSE /\ work_state = "IDLE" /\ ~init_done
  BY DEF RdInit, RdFifoInit, LcdInit, CtrlInit, init_done, I_NOP, I_DONE
<1>2. 0 = 0 + 0
  OBVIOUS
<1> QED BY <1>1, <1>2 DEF PageInv, AckPipe, Fresh, RdRunning

(* The page a read burst opens is the one its words belong to: a clear in  *)
(* the middle of a burst leaves neither a page counted too many nor words  *)
(* of the old frame (sdfifo_ctrl.v:99-118).                                *)
THEOREM ReadPagesMatch ==
  ASSUME PageAssumption
  PROVE  RdSpec => []ReadPagesInStep
<1>1. RdSpec => [](RdTypeOK /\ CtrlInv /\ AckCount /\ RoomInv /\ RdFifoNeverFull /\ DisplayInv)
  <2>1. RdSpec => [](RdTypeOK /\ CtrlInv /\ AckCount /\ RoomInv) /\ []RdFifoNeverFull
    BY RoomInvariant, ReadBurstFits DEF PageAssumption
  <2> QED BY <2>1, DisplayInvariant, PTL
<1>2. RdTypeOK /\ CtrlInv /\ CtrlInv' /\ AckCount /\ RoomInv /\ RdFifoNeverFull
        /\ DisplayInv /\ PageInv /\ [RdNext]_rdVars => PageInv'
  BY PageStep, PageAssumption
<1>3. CtrlInv /\ RdTypeOK /\ AckCount /\ PageInv => ReadPagesInStep
  <2> SUFFICES ASSUME CtrlInv, RdTypeOK, AckCount, PageInv,
                      work_state \in {"ACTIVE", "TRCD", "READ"}, sys_r_wn, ~rdfifo_clrr
               PROVE  fetched = sys_rdabr * RdByte
    BY DEF ReadPagesInStep
  <2>1. RdRunning /\ acks = 0
    BY DEF RdRunning, AckCount
  <2>2. ~Fresh
    BY DEF Fresh, CtrlInv, DirectionMatches
  <2>3. fetched = sys_rdabr * RdByte + 0
    BY <2>1, <2>2 DEF PageInv, InStep, Part
  <2>4. sys_rdabr * RdByte \in Nat
    <3>1. sys_rdabr \in Nat /\ RdByte \in Nat
      BY ReadTypes DEF RdTypeOK, RdFifoTypeOK
    <3> QED BY <3>1, ProductNat
  <2> QED BY <2>3, <2>4
<1> QED BY <1>1, <1>2, <1>3, PageInit, PTL DEF RdSpec

-----------------------------------------------------------------------------
(* The camera and the video FIFO: which bursts are started, and why none   *)
(* of them runs dry.                                                       *)

(* The sizes of the burst and of the camera's timing: what the level and   *)
(* the counter of video_ctrl.v rely on.                                    *)
CameraSizes ==
  /\ VfLevel = VBurst - 2 /\ 5 <= VBurst /\ VBurst < VfDepth
  /\ 2 <= CamMin /\ CamMax < VBurst /\ VBurst + 2 <= ClearMin
  /\ LineWords <= FieldWords
  /\ \E n \in Nat : LineWords = n * VBurst
  /\ \E n \in Nat : FieldWords = n * VBurst

VideoConstants ==
  /\ VfDepth \in Nat \ {0} /\ VfLevel \in Nat /\ VBurst \in Nat \ {0} /\ DcntSize \in Nat
  /\ VBurst < DcntSize
  /\ CamMin \in Nat \ {0} /\ CamMax \in Nat /\ CamMin <= CamMax
  /\ LineWords \in Nat \ {0} /\ FieldWords \in Nat /\ ClearMin \in Nat \ {0}

LEMMA VideoConstantsHold == VideoConstants
BY VideoAssumption, CameraAssumption DEF VideoConstants, VideoAssumption, CameraAssumption

VideoTyped ==
  /\ VideoTypeOK /\ vvsync \in BOOLEAN /\ held \in Nat /\ cgap \in 0..CamMax
  /\ fw \in 0..FieldWords /\ synced \in {"no", "pulse", "yes"}

(* Words of a running burst that have been counted out, and the word read  *)
(* in the last clock.                                                      *)
Done == IF dcnt = 0 THEN 0 ELSE dcnt - 1
Late == IF vf_popped THEN 1 ELSE 0

(* The words taken so far make whole bursts.                               *)
WholeBursts == \E n \in Int : fw - vf_words - Done = n * VBurst

(* Before a burst: at most VBurst - 1 words wait, and with as many the last *)
(* has just come.                                                          *)
Waiting ==
  dcnt = 0 => /\ vf_words + Late <= VfLevel + 1
              /\ vf_words + Late = VfLevel + 1 => ~vf_popped /\ cgap = 1

(* In a burst: Spare words more than it still reads.  The clocks gone by    *)
(* bound them from above, and none is spare only while the word awaited is *)
(* the first of the burst.                                                 *)
Spare == vf_words + dcnt - VBurst
Running ==
  dcnt # 0 => /\ dcnt <= VBurst /\ 0 <= Spare /\ 2 * Spare + cgap <= dcnt + 1
              /\ Spare = 0 => cgap >= dcnt + 1

FieldInv == WholeBursts /\ Waiting /\ Running

(* A field pulse: the FIFO is cleared from its second clock on, and a burst *)
(* it meets ends before the pulse does.                                    *)
PulseInv ==
  /\ 1 <= held /\ fw = 0 /\ cgap = 0
  /\ held >= 2 => vclr_r
  /\ held >= 3 => dcnt <= VBurst
  /\ dcnt # 0 => held <= dcnt + 1

(* The first clock after a pulse, when the clear may be seen one clock late. *)
LagOut == dcnt = 0 /\ ~wrf_wrreqr /\ fw = 0 /\ cgap = 1

VideoInv ==
  /\ ~vvsync => held = 0
  /\ synced # "no" =>
      /\ vvsync => PulseInv
      /\ ~vvsync => 1 <= cgap /\ synced = "yes"
      /\ vclr_r => vf_words = 0 /\ ~vf_popped
      /\ ~vvsync /\ vclr_r => LagOut
      /\ ~vvsync /\ ~vclr_r => FieldInv
      /\ synced = "yes" /\ vvsync /\ ~vclr_r => (dcnt # 0 => vf_words >= 1)

-----------------------------------------------------------------------------
LEMMA CameraTyped ==
  ASSUME VideoTyped, NEW pulse \in BOOLEAN, NEW arrive \in BOOLEAN, Camera(pulse, arrive)
  PROVE  /\ vvsync' \in BOOLEAN /\ held' \in Nat /\ cgap' \in 0..CamMax
         /\ fw' \in 0..FieldWords
<1> USE VideoConstantsHold DEF VideoConstants
<1>1. arrive => fw < FieldWords BY DEF Camera, MaySend
<1>2. fw \in Nat /\ cgap \in Nat /\ held \in Nat BY DEF VideoTyped
<1>3. vvsync' \in BOOLEAN BY DEF Camera
<1>4. held' \in Nat BY <1>2 DEF Camera
<1>5. cgap' \in 0..CamMax
  <2>1. 0 \in 0..CamMax /\ 1 \in 0..CamMax OBVIOUS
  <2>2. (cgap < CamMax => cgap + 1 \in 0..CamMax) /\ cgap \in 0..CamMax BY <1>2 DEF VideoTyped
  <2>. QED BY <2>1, <2>2 DEF Camera
<1>6. fw' \in 0..FieldWords
  <2>1. 0 \in 0..FieldWords /\ fw \in 0..FieldWords BY DEF VideoTyped
  <2>2. arrive => fw + 1 \in 0..FieldWords BY <1>1, <1>2
  <2>. QED BY <2>1, <2>2 DEF Camera
<1>. QED BY <1>3, <1>4, <1>5, <1>6

LEMMA VideoFifoTyped ==
  ASSUME VideoTyped, NEW read \in BOOLEAN, NEW arrive \in BOOLEAN, VideoFifo(arrive, read)
  PROVE  vf_words' \in 0..VfDepth /\ vf_popped' \in BOOLEAN
<1> USE VideoConstantsHold DEF VideoConstants
<1>1. vf_words \in 0..VfDepth BY DEF VideoTyped, VideoTypeOK
<1>2. CASE vclr_r \/ vclr_r'
  <2>1. 0 \in 0..VfDepth OBVIOUS
  <2>. QED BY <1>2, <2>1 DEF VideoFifo
<1>3. CASE ~(vclr_r \/ vclr_r')
  <2>1. vf_popped' \in BOOLEAN BY <1>3 DEF VideoFifo
  <2>2. vf_words' \in 0..VfDepth BY <1>1, <1>3 DEF VideoFifo
  <2>. QED BY <2>1, <2>2
<1>. QED BY <1>2, <1>3

LEMMA CounterTyped ==
  ASSUME VideoTyped, BurstCounter
  PROVE  dcnt' \in 0..(DcntSize - 1)
<1> USE VideoConstantsHold DEF VideoConstants
<1>1. dcnt \in 0..(DcntSize - 1) BY DEF VideoTyped, VideoTypeOK
<1>2. (dcnt + 1) % DcntSize \in 0..(DcntSize - 1) BY <1>1
<1>3. 0 \in 0..(DcntSize - 1) OBVIOUS
<1>4. dcnt < VBurst => dcnt + 1 \in 0..(DcntSize - 1) BY <1>1
<1>. QED BY <1>2, <1>3, <1>4 DEF BurstCounter

(* A step of the clock: what the camera side and the video FIFO do in it.  *)
VideoStep(pulse, arrive) ==
  /\ Camera(pulse, arrive)
  /\ \E seen \in {vvsync, pulse} : VideoTick(seen, arrive)
  /\ synced' = CASE synced = "no" /\ pulse /\ ~vvsync    -> "pulse"
                 [] synced = "pulse" /\ vvsync /\ ~pulse -> "yes"
                 [] OTHER -> synced

SyncedCases(pulse) ==
  /\ synced = "no" => synced' = IF pulse /\ ~vvsync THEN "pulse" ELSE "no"
  /\ synced = "pulse" => synced' = IF vvsync /\ ~pulse THEN "yes" ELSE "pulse"
  /\ synced = "yes" => synced' = "yes"

LEMMA SyncedMoves ==
  ASSUME VideoTyped, NEW pulse \in BOOLEAN, NEW arrive \in BOOLEAN, VideoStep(pulse, arrive)
  PROVE  SyncedCases(pulse)
<1>1. vvsync \in BOOLEAN /\ synced \in {"no", "pulse", "yes"} BY DEF VideoTyped
<1>2. CASE synced = "no"
  <2>1. CASE pulse /\ ~vvsync BY <1>2, <2>1 DEF VideoStep, SyncedCases
  <2>2. CASE ~(pulse /\ ~vvsync) BY <1>2, <2>2 DEF VideoStep, SyncedCases
  <2>. QED BY <2>1, <2>2
<1>3. CASE synced = "pulse"
  <2>1. CASE vvsync /\ ~pulse BY <1>3, <2>1 DEF VideoStep, SyncedCases
  <2>2. CASE ~(vvsync /\ ~pulse) BY <1>3, <2>2 DEF VideoStep, SyncedCases
  <2>. QED BY <2>1, <2>2
<1>4. CASE synced = "yes" BY <1>4 DEF VideoStep, SyncedCases
<1>. QED BY <1>1, <1>2, <1>3, <1>4

LEMMA VideoStepTyped ==
  ASSUME VideoTyped, NEW pulse \in BOOLEAN, NEW arrive \in BOOLEAN, VideoStep(pulse, arrive)
  PROVE  VideoTyped'
<1>1. vvsync \in BOOLEAN /\ synced \in {"no", "pulse", "yes"} BY DEF VideoTyped
<1>2. synced' \in {"no", "pulse", "yes"} BY <1>1, SyncedMoves DEF SyncedCases
<1>3. PICK seen \in {vvsync, pulse} : VideoTick(seen, arrive) BY DEF VideoStep
<1>4. vf_rdreq \in BOOLEAN BY DEF vf_rdreq
<1>5. vf_words' \in 0..VfDepth /\ vf_popped' \in BOOLEAN
  BY <1>3, <1>4, VideoFifoTyped DEF VideoTick
<1>6. dcnt' \in 0..(DcntSize - 1) BY <1>3, CounterTyped DEF VideoTick
<1>7. vclr_r' \in BOOLEAN /\ wrf_wrreqr' \in BOOLEAN BY <1>1, <1>3, <1>4 DEF VideoTick
<1>8. vvsync' \in BOOLEAN /\ held' \in Nat /\ cgap' \in 0..CamMax /\ fw' \in 0..FieldWords
  BY CameraTyped DEF VideoStep
<1>. QED BY <1>2, <1>5, <1>6, <1>7, <1>8 DEF VideoTyped, VideoTypeOK

-----------------------------------------------------------------------------
(* What the step does to the counter and the FIFO, case by case.           *)
LEMMA UseSeen ==
  ASSUME VideoTyped
  PROVE  /\ Late \in {0, 1} /\ vf_rduse = (vf_words + Late) % VfDepth
         /\ vf_words + Late < VfDepth => vf_rduse = vf_words + Late
<1> USE VideoConstantsHold DEF VideoConstants
<1>1. vf_words \in Nat BY DEF VideoTyped, VideoTypeOK
<1>2. Late \in {0, 1} BY DEF Late
<1>3. vf_rduse = (vf_words + Late) % VfDepth BY DEF vf_rduse, Late
<1>. QED BY <1>1, <1>2, <1>3

LEMMA ClearedCounter ==
  ASSUME VideoTyped, VideoInv, synced # "no", vclr_r, BurstCounter, CameraSizes
  PROVE  dcnt' = IF dcnt # 0 /\ dcnt < VBurst THEN dcnt + 1 ELSE 0
<1> USE VideoConstantsHold DEF VideoConstants
<1>1. vf_words = 0 /\ Late = 0 BY DEF VideoInv, Late
<1>2. vf_rduse = 0 BY <1>1, UseSeen
<1>3. ~(vf_rduse > VfLevel) BY <1>2
<1>. QED BY <1>3 DEF BurstCounter

LEMMA FieldCounter ==
  ASSUME VideoTyped, FieldInv, 1 <= cgap, BurstCounter, CameraSizes
  PROVE  /\ dcnt = 0 => dcnt' = IF vf_words + Late = VfLevel + 1 THEN 1 ELSE 0
         /\ dcnt # 0 => dcnt' = IF dcnt < VBurst THEN dcnt + 1 ELSE 0
<1> USE VideoConstantsHold DEF VideoConstants, CameraSizes
<1>1. vf_words \in Nat /\ dcnt \in Nat /\ cgap \in Nat BY DEF VideoTyped, VideoTypeOK
<1>2. Late \in {0, 1} /\ (vf_words + Late < VfDepth => vf_rduse = vf_words + Late)
  BY UseSeen
<1>3. CASE dcnt = 0
  <2>1. vf_words + Late <= VfLevel + 1 BY <1>3 DEF FieldInv, Waiting
  <2>2. vf_rduse = vf_words + Late BY <1>1, <1>2, <2>1
  <2>3. (dcnt + 1) % DcntSize = 1 BY <1>3
  <2>. QED BY <1>1, <1>2, <1>3, <2>1, <2>2, <2>3 DEF BurstCounter
<1>4. CASE dcnt # 0 /\ dcnt < VBurst
  <2>1. (dcnt + 1) % DcntSize = dcnt + 1 BY <1>1, <1>4
  <2>. QED BY <1>4, <2>1 DEF BurstCounter
<1>5. CASE dcnt # 0 /\ ~(dcnt < VBurst)
  <2>1. dcnt = VBurst /\ 2 * vf_words + cgap <= VBurst + 1
    BY <1>1, <1>5 DEF FieldInv, Running, Spare
  <2>2. vf_words + Late <= VfLevel BY <1>1, <1>2, <2>1
  <2>3. ~(vf_rduse > VfLevel) BY <1>1, <1>2, <2>2
  <2>. QED BY <1>5, <2>3 DEF BurstCounter
<1>. QED BY <1>3, <1>4, <1>5

(* No read of a dry FIFO: the word awaited would be late by a whole burst, *)
(* and the camera does not leave so long a gap within a line.              *)
LEMMA BurstFed ==
  ASSUME VideoTyped, FieldInv, dcnt # 0, CameraSizes
  PROVE  /\ 1 <= vf_words /\ vf_words <= VBurst
         /\ dcnt < VBurst => 2 <= vf_words
<1> USE VideoConstantsHold DEF VideoConstants, CameraSizes
<1>1. vf_words \in Nat /\ dcnt \in Nat /\ cgap \in Nat /\ cgap <= CamMax
  BY DEF VideoTyped, VideoTypeOK
<1>2. dcnt <= VBurst /\ 0 <= Spare /\ 2 * Spare + cgap <= dcnt + 1
  BY DEF FieldInv, Running
<1>3. Spare = 0 => dcnt + 1 <= CamMax BY <1>1 DEF FieldInv, Running
<1>4. vf_words = Spare + VBurst - dcnt /\ Spare \in Int BY <1>1 DEF Spare
<1>. QED BY <1>1, <1>2, <1>3, <1>4

LEMMA FieldFifo ==
  ASSUME VideoTyped, FieldInv, CameraSizes, NEW arrive \in BOOLEAN,
         VideoFifo(arrive, vf_rdreq), ~vclr_r, ~vclr_r'
  PROVE  /\ vf_words' = vf_words + (IF arrive THEN 1 ELSE 0) - (IF dcnt = 0 THEN 0 ELSE 1)
         /\ vf_popped' = (dcnt # 0)
<1> USE VideoConstantsHold DEF VideoConstants
<1>1. vf_words \in Nat /\ dcnt \in Nat BY DEF VideoTyped, VideoTypeOK
<1>2. dcnt # 0 => vf_words > 0 /\ vf_words < VfDepth BY <1>1, BurstFed DEF CameraSizes
<1>3. dcnt = 0 => vf_words < VfDepth
  <2>1. dcnt = 0 => vf_words + Late <= VfLevel + 1 BY DEF FieldInv, Waiting
  <2>2. Late \in {0, 1} BY UseSeen
  <2>. QED BY <1>1, <2>1, <2>2 DEF CameraSizes
<1>4. CASE dcnt = 0
  <2>1. ~vf_rdreq BY <1>4 DEF vf_rdreq
  <2>2. vf_popped' = FALSE BY <2>1 DEF VideoFifo
  <2>3. vf_words' = vf_words + (IF arrive THEN 1 ELSE 0) BY <1>1, <1>3, <1>4, <2>1 DEF VideoFifo
  <2>4. vf_popped' = (dcnt # 0) BY <1>4, <2>2
  <2>. QED BY <1>1, <1>4, <2>3, <2>4
<1>5. CASE dcnt # 0
  <2>1. vf_rdreq BY <1>5 DEF vf_rdreq
  <2>2. vf_popped' = TRUE BY <1>2, <1>5, <2>1 DEF VideoFifo
  <2>3. vf_words' = vf_words + (IF arrive THEN 1 ELSE 0) - 1
    BY <1>1, <1>2, <1>5, <2>1 DEF VideoFifo
  <2>. QED BY <1>5, <2>2, <2>3
<1>. QED BY <1>4, <1>5

-----------------------------------------------------------------------------
(* The camera in a field: it waits for CamMin clocks, and within a line it *)
(* sends by CamMax.                                                        *)
LEMMA CameraInField ==
  ASSUME VideoTyped, 1 <= cgap, ~vvsync, NEW arrive \in BOOLEAN, Camera(FALSE, arrive)
  PROVE  /\ ~vvsync' /\ 1 <= cgap'
         /\ arrive => CamMin <= cgap /\ cgap' = 1 /\ fw' = fw + 1
         /\ ~arrive => /\ fw' = fw
                       /\ cgap' = cgap + 1 \/ (cgap' = cgap /\ cgap = CamMax)
                       /\ cgap = CamMax => fw % LineWords = 0 \/ fw = FieldWords
<1> USE VideoConstantsHold DEF VideoConstants
<1>1. cgap \in Nat /\ cgap <= CamMax /\ fw \in Nat /\ fw <= FieldWords BY DEF VideoTyped
<1>2. CASE arrive BY <1>1, <1>2 DEF Camera, MaySend
<1>3. CASE ~arrive
  <2>1. ~vvsync' /\ fw' = fw BY <1>3 DEF Camera
  <2>2. cgap' = IF cgap < CamMax THEN cgap + 1 ELSE cgap BY <1>3 DEF Camera
  <2>3. ~MustSend BY <1>3 DEF Camera
  <2>4. cgap = CamMax => fw % LineWords = 0 \/ fw = FieldWords
    BY <1>1, <2>3 DEF MustSend, MaySend
  <2>. QED BY <1>1, <1>3, <2>1, <2>2, <2>4
<1>. QED BY <1>2, <1>3

LEMMA WholeTimes == \A a, b, c \in Int : (a * b) * c = a * (b * c)
OBVIOUS
LEMMA NextTimes == \A a, c \in Int : (a + 1) * c = a * c + c
OBVIOUS
LEMMA ApartTimes ==
  ASSUME NEW a \in Int, NEW b \in Int, NEW c \in Nat, 2 <= c
  PROVE  a * c # b * c + c - 1
<1>1. a * c - b * c = (a - b) * c OBVIOUS
<1>2. CASE a - b <= 0
  <2>1. (a - b) * c <= 0 BY <1>2
  <2>. QED BY <1>1, <2>1
<1>3. CASE a - b >= 1
  <2>1. (a - b) * c >= c BY <1>3
  <2>. QED BY <1>1, <2>1
<1>. QED BY <1>2, <1>3

(* Where the camera may pause, whole bursts have been sent.                *)
LEMMA PauseWhole ==
  ASSUME VideoTyped, CameraSizes, fw % LineWords = 0 \/ fw = FieldWords
  PROVE  \E n \in Int : fw = n * VBurst
<1> USE VideoConstantsHold DEF VideoConstants
<1>1. fw \in Nat BY DEF VideoTyped
<1>2. CASE fw = FieldWords BY <1>2 DEF CameraSizes
<1>3. CASE fw % LineWords = 0
  <2>1. PICK n \in Nat : LineWords = n * VBurst BY DEF CameraSizes
  <2>2. fw = LineWords * (fw \div LineWords) + (fw % LineWords) BY <1>1
  <2>3. fw \div LineWords \in Int BY <1>1
  <2>4. PICK m \in Int : m = fw \div LineWords BY <2>3
  <2>5. fw = LineWords * m BY <1>1, <1>3, <2>2, <2>4
  <2>6. fw = (m * n) * VBurst BY <2>1, <2>4, <2>5, WholeTimes
  <2>. QED BY <2>4, <2>1, <2>6
<1>. QED BY <1>2, <1>3

(* So no burst is left waiting for its first word there.                   *)
LEMMA NoSpareNoPause ==
  ASSUME VideoTyped, CameraSizes, FieldInv, dcnt # 0, Spare = 0
  PROVE  ~(fw % LineWords = 0 \/ fw = FieldWords)
<1> USE VideoConstantsHold DEF VideoConstants
<1>1. vf_words \in Nat /\ dcnt \in Nat /\ fw \in Nat BY DEF VideoTyped, VideoTypeOK
<1>2. PICK n \in Int : fw - vf_words - Done = n * VBurst BY DEF FieldInv, WholeBursts
<1>3. vf_words + Done = VBurst - 1 BY <1>1 DEF Spare, Done
<1>4. Done \in Int BY <1>1 DEF Done
<1>5. fw = n * VBurst + VBurst - 1 BY <1>1, <1>2, <1>3, <1>4
<1>6. 2 <= VBurst BY DEF CameraSizes
<1>7. \A m \in Int : fw # m * VBurst BY <1>2, <1>5, <1>6, ApartTimes
<1>. QED BY <1>7, PauseWhole

-----------------------------------------------------------------------------
(* A clock in the middle of a field.                                       *)
LEMMA FieldStep ==
  ASSUME VideoTyped, VideoTyped', CameraSizes, FieldInv, 1 <= cgap, ~vvsync,
         NEW arrive \in BOOLEAN, Camera(FALSE, arrive), BurstCounter,
         VideoFifo(arrive, vf_rdreq), ~vclr_r, ~vclr_r'
  PROVE  FieldInv'
<1> USE VideoConstantsHold DEF VideoConstants, CameraSizes
<1> DEFINE a == IF arrive THEN 1 ELSE 0
<1>1. vf_words \in Nat /\ dcnt \in Nat /\ fw \in Nat /\ cgap \in Nat /\ cgap <= CamMax
  BY DEF VideoTyped, VideoTypeOK
<1>2. vf_words' \in Nat /\ dcnt' \in Nat /\ fw' \in Nat /\ cgap' \in Nat
  BY DEF VideoTyped, VideoTypeOK
<1>3. vf_words' = vf_words + a - (IF dcnt = 0 THEN 0 ELSE 1) /\ vf_popped' = (dcnt # 0)
  BY FieldFifo
<1>4. fw' = fw + a
  <2>1. CASE arrive BY <2>1, CameraInField
  <2>2. CASE ~arrive
    <3>1. fw' = fw BY <2>2, CameraInField
    <3>2. a = 0 BY <2>2
    <3>. QED BY <1>1, <3>1, <3>2
  <2>. QED BY <2>1, <2>2
<1>5. Late' = IF dcnt = 0 THEN 0 ELSE 1 BY <1>3 DEF Late
<1>6. PICK n \in Int : fw - vf_words - Done = n * VBurst BY DEF FieldInv, WholeBursts
<1>7. a \in {0, 1} OBVIOUS
<1>10. a = 1 => arrive OBVIOUS
<1> HIDE DEF a
<1>8. CASE dcnt = 0
  <2>1. Done = 0 BY <1>8 DEF Done
  <2>2. dcnt' = 0 \/ dcnt' = 1 BY <1>8, FieldCounter
  <2>3. Done' = 0 BY <2>2 DEF Done
  <2>4. WholeBursts'
    <3>1. fw' - vf_words' - Done' = n * VBurst BY <1>1, <1>3, <1>4, <1>6, <1>7, <1>8, <2>1, <2>3
    <3>. QED BY <1>6, <3>1 DEF WholeBursts
  <2>5. Late \in {0, 1} /\ (Late = 0 <=> ~vf_popped) BY DEF Late
  <2>6. vf_words + Late <= VfLevel + 1
    BY <1>8 DEF FieldInv, Waiting
  <2>7. vf_words + Late = VfLevel + 1 => Late = 0 /\ cgap = 1 BY <1>8, <2>5 DEF FieldInv, Waiting
  <2>11. vf_words' = vf_words + a BY <1>1, <1>3, <1>7, <1>8
  <2>12. ~vf_popped' BY <1>3, <1>8
  <2>8. vf_words' = vf_words + a /\ Late' = 0 /\ ~vf_popped' BY <1>5, <1>8, <2>11, <2>12
  <2>9. CASE vf_words + Late = VfLevel + 1
    <3>1. dcnt' = 1 BY <1>8, <2>9, FieldCounter
    <3>2. ~arrive
      <4>1. arrive => CamMin <= cgap BY CameraInField
      <4>. QED BY <2>7, <2>9, <4>1
    <3>3. cgap' = 2
      <4>1. cgap' = cgap + 1 \/ cgap = CamMax BY <3>2, CameraInField
      <4>. QED BY <2>7, <2>9, <4>1
    <3>4. vf_words' = VBurst - 1 BY <1>1, <1>7, <1>10, <2>7, <2>8, <2>9, <3>2
    <3>5. Spare' = 0 BY <1>2, <3>1, <3>4 DEF Spare
    <3>6. Waiting' BY <3>1 DEF Waiting
    <3>7. Running' BY <3>1, <3>3, <3>5 DEF Running
    <3>. QED BY <2>4, <3>6, <3>7 DEF FieldInv
  <2>10. CASE vf_words + Late # VfLevel + 1
    <3>1. dcnt' = 0 BY <1>8, <2>10, FieldCounter
    <3>2. vf_words + Late <= VfLevel BY <1>1, <2>5, <2>6, <2>10
    <3>3. vf_words' + Late' <= VfLevel + 1 BY <1>1, <1>7, <2>5, <2>8, <3>2
    <3>4. vf_words' + Late' = VfLevel + 1 => arrive BY <1>1, <1>7, <1>10, <2>5, <2>8, <3>2
    <3>5. arrive => cgap' = 1 BY CameraInField
    <3>7. Waiting' BY <2>8, <3>3, <3>4, <3>5 DEF Waiting
    <3>6. Running' BY <3>1 DEF Running
    <3>. QED BY <2>4, <3>6, <3>7 DEF FieldInv
  <2>. QED BY <2>9, <2>10
<1>9. CASE dcnt # 0
  <2>1. Done = dcnt - 1 BY <1>9 DEF Done
  <2>2. dcnt <= VBurst /\ 0 <= Spare /\ 2 * Spare + cgap <= dcnt + 1
        /\ (Spare = 0 => cgap >= dcnt + 1) BY <1>9 DEF FieldInv, Running
  <2>3. Spare = vf_words + dcnt - VBurst BY DEF Spare
  <2>4. vf_words' = vf_words + a - 1 /\ Late' = 1 BY <1>3, <1>5, <1>9
  <2>5. CASE dcnt < VBurst
    <3>1. dcnt' = dcnt + 1 BY <1>9, <2>5, FieldCounter
    <3>2. Done' = dcnt BY <1>1, <3>1 DEF Done
    <3>3. WholeBursts'
      <4>1. fw' - vf_words' - Done' = n * VBurst
        BY <1>1, <1>4, <1>6, <1>7, <2>1, <2>4, <3>2
      <4>. QED BY <1>6, <4>1 DEF WholeBursts
    <3>4. Waiting' BY <1>1, <3>1 DEF Waiting
    <3>5. Spare' = Spare + a BY <1>1, <1>7, <2>3, <2>4, <3>1 DEF Spare
    <3>6. Running'
      <4>1. CASE arrive
        <5>0. a = 1 BY <4>1 DEF a
        <5>1. CamMin <= cgap /\ cgap' = 1 /\ Spare' = Spare + 1 BY <3>5, <4>1, <5>0, CameraInField
        <5>. QED BY <1>1, <2>2, <2>3, <3>1, <5>1, <2>5 DEF Running
      <4>2. CASE ~arrive
        <5>0. a = 0 BY <4>2 DEF a
        <5>1. Spare' = Spare BY <1>1, <2>3, <3>5, <5>0
        <5>2. cgap' = cgap + 1 \/ (cgap' = cgap /\ cgap = CamMax)
          BY <4>2, CameraInField
        <5>3. Spare = 0 => cgap' = cgap + 1
          <6>1. Spare = 0 /\ cgap = CamMax => FALSE BY <1>9, <4>2, CameraInField, NoSpareNoPause
          <6>. QED BY <5>2, <6>1
        <5>4. 2 * Spare' + cgap' <= dcnt' + 1 BY <1>1, <2>2, <2>3, <3>1, <5>1, <5>2
        <5>5. Spare' = 0 => cgap' >= dcnt' + 1 BY <1>1, <2>2, <2>3, <3>1, <5>1, <5>3
        <5>. QED BY <1>1, <2>2, <2>5, <3>1, <5>1, <5>4, <5>5 DEF Running
      <4>. QED BY <4>1, <4>2
    <3>. QED BY <3>3, <3>4, <3>6 DEF FieldInv
  <2>6. CASE ~(dcnt < VBurst)
    <3>1. dcnt = VBurst BY <1>1, <2>2, <2>6
    <3>2. dcnt' = 0 BY <1>9, <2>6, FieldCounter
    <3>3. Done' = 0 BY <3>2 DEF Done
    <3>4. WholeBursts'
      <4>1. fw' - vf_words' - Done' = n * VBurst + VBurst
        BY <1>1, <1>4, <1>6, <1>7, <2>1, <2>4, <3>1, <3>3
      <4>2. fw' - vf_words' - Done' = (n + 1) * VBurst BY <1>6, <4>1, NextTimes
      <4>3. n + 1 \in Int BY <1>6
      <4>. QED BY <4>2, <4>3 DEF WholeBursts
    <3>5. vf_words' + Late' < VfLevel + 1 BY <1>1, <1>7, <2>2, <2>3, <2>4, <3>1
    <3>6. Waiting' BY <1>2, <2>4, <3>5 DEF Waiting
    <3>7. Running' BY <3>2 DEF Running
    <3>. QED BY <3>4, <3>6, <3>7 DEF FieldInv
  <2>. QED BY <2>5, <2>6
<1>. QED BY <1>8, <1>9

-----------------------------------------------------------------------------
(* The other clocks: a pulse begins, goes on, or ends.                     *)
LEMMA Cleared ==
  ASSUME NEW arrive, NEW read, VideoFifo(arrive, read), vclr_r \/ vclr_r'
  PROVE  vf_words' = 0 /\ ~vf_popped'
BY DEF VideoFifo

LEMMA EmptyField ==
  ASSUME CameraSizes, VideoTyped', fw' = 0, dcnt' = 0, vf_words' = 0, ~vf_popped'
  PROVE  FieldInv'
<1> USE VideoConstantsHold DEF VideoConstants, CameraSizes
<1>1. WholeBursts'
  <2>1. fw' - vf_words' - Done' = 0 * VBurst BY DEF Done
  <2>. QED BY <2>1 DEF WholeBursts
<1>2. Late' = 0 BY DEF Late
<1>3. Waiting' BY <1>2 DEF Waiting
<1>4. Running' BY DEF Running
<1>. QED BY <1>1, <1>3, <1>4 DEF FieldInv

LEMMA PulseStep ==
  ASSUME VideoTyped, VideoTyped', CameraSizes, VideoInv, synced # "no", vvsync,
         NEW arrive \in BOOLEAN, Camera(TRUE, arrive), BurstCounter, vclr_r'
  PROVE  PulseInv'
<1>0. ClearMin \in Nat /\ 3 <= ClearMin /\ VBurst \in Nat
  BY VideoConstantsHold DEF VideoConstants, CameraSizes
<1>1. PulseInv BY DEF VideoInv
<1>2. held \in Nat /\ dcnt \in Nat /\ dcnt' \in Nat BY DEF VideoTyped, VideoTypeOK
<1>7. dcnt # 0 => held <= dcnt + 1 BY <1>1 DEF PulseInv
<1>3. held' = (IF held < ClearMin THEN held + 1 ELSE held) /\ fw' = 0 /\ cgap' = 0
  BY DEF Camera
<1>8. 1 <= held BY <1>1 DEF PulseInv
<1>4. 1 <= held' /\ held' <= held + 1 /\ held' \in Nat BY <1>0, <1>2, <1>3, <1>8
<1>5. CASE held >= 2
  <2>1. dcnt' = IF dcnt # 0 /\ dcnt < VBurst THEN dcnt + 1 ELSE 0
    BY <1>1, <1>5, ClearedCounter DEF PulseInv
  <2>2. dcnt' <= VBurst BY <1>0, <1>2, <2>1
  <2>3. dcnt' # 0 => held' <= dcnt' + 1 BY <1>2, <1>4, <1>7, <2>1
  <2>. QED BY <1>3, <1>4, <2>2, <2>3 DEF PulseInv
<1>6. CASE held = 1
  <2>1. held' = 2 BY <1>0, <1>3, <1>6
  <2>0. dcnt' \in Nat BY <1>2
  <2>4. \A x \in Nat : x # 0 => 2 <= x + 1 OBVIOUS
  <2>3. dcnt' # 0 => 2 <= dcnt' + 1 BY <2>0, <2>4
  <2>2. dcnt' # 0 => held' <= dcnt' + 1 BY <2>1, <2>3
  <2>. QED BY <1>3, <2>1, <2>2 DEF PulseInv
<1>. QED BY <1>2, <1>5, <1>6, <1>8

(* A pulse outlasts the burst it met.                                      *)
LEMMA PulseEnd ==
  ASSUME VideoTyped, CameraSizes, VideoInv, synced # "no", vvsync,
         NEW arrive \in BOOLEAN, Camera(FALSE, arrive), BurstCounter
  PROVE  vclr_r /\ dcnt = 0 /\ dcnt' = 0 /\ fw' = 0 /\ cgap' = 1
<1> USE VideoConstantsHold DEF VideoConstants, CameraSizes
<1>1. PulseInv BY DEF VideoInv
<1>2. held \in Nat /\ dcnt \in Nat BY DEF VideoTyped, VideoTypeOK
<1>3. held >= ClearMin BY <1>2 DEF Camera
<1>4. vclr_r BY <1>1, <1>2, <1>3 DEF PulseInv
<1>5. dcnt = 0 BY <1>1, <1>2, <1>3 DEF PulseInv
<1>6. dcnt' = 0 BY <1>4, <1>5, ClearedCounter
<1>7. ~arrive BY DEF Camera, MaySend
<1>8. fw' = 0 /\ cgap' = 1 BY <1>1, <1>7 DEF Camera, PulseInv
<1>. QED BY <1>4, <1>5, <1>6, <1>8

(* The clear that reaches video_ctrl with a pulse finds a word waiting for *)
(* a burst it cuts.                                                        *)
LEMMA FieldCut ==
  ASSUME VideoTyped, VideoTyped', CameraSizes, VideoInv, synced = "yes", ~vvsync,
         NEW arrive \in BOOLEAN, Camera(TRUE, arrive), BurstCounter,
         VideoFifo(arrive, vf_rdreq), ~vclr_r', dcnt' # 0
  PROVE  vf_words' >= 1
<1> USE VideoConstantsHold DEF VideoConstants, CameraSizes
<1>1. vf_words \in Nat /\ dcnt \in Nat BY DEF VideoTyped, VideoTypeOK
<1>2. CASE vclr_r
  <2>1. dcnt = 0 BY <1>2 DEF VideoInv, LagOut
  <2>2. dcnt' = 0 BY <1>2, <2>1, ClearedCounter
  <2>. QED BY <2>2
<1>3. CASE ~vclr_r
  <2>1. FieldInv /\ 1 <= cgap BY <1>3 DEF VideoInv
  <2>2. vf_words' = vf_words + (IF arrive THEN 1 ELSE 0) - (IF dcnt = 0 THEN 0 ELSE 1)
    BY <1>3, <2>1, FieldFifo
  <2>3. CASE dcnt = 0
    <3>1. vf_words + Late = VfLevel + 1 BY <2>1, <2>3, FieldCounter
    <3>2. Late \in {0, 1} BY UseSeen
    <3>3. vf_words >= 1 BY <1>1, <3>1, <3>2
    <3>. QED BY <1>1, <2>2, <2>3, <3>3
  <2>4. CASE dcnt # 0
    <3>1. dcnt < VBurst BY <2>1, <2>4, FieldCounter
    <3>2. 2 <= vf_words BY <2>1, <2>4, <3>1, BurstFed
    <3>. QED BY <1>1, <2>2, <2>4, <3>2
  <2>. QED BY <2>3, <2>4
<1>. QED BY <1>2, <1>3

LEMMA VideoInvStep ==
  ASSUME VideoTyped, CameraSizes, VideoInv,
         NEW pulse \in BOOLEAN, NEW arrive \in BOOLEAN, VideoStep(pulse, arrive)
  PROVE  VideoInv'
<1>1. PICK seen \in {vvsync, pulse} : VideoTick(seen, arrive) BY DEF VideoStep
<1>2. vclr_r' = seen /\ BurstCounter /\ wrf_wrreqr' = vf_rdreq /\ VideoFifo(arrive, vf_rdreq)
  BY <1>1 DEF VideoTick
<1>3. VideoTyped' BY VideoStepTyped
<1>4. Camera(pulse, arrive) /\ vvsync' = pulse BY DEF VideoStep, Camera
<1>5. SyncedCases(pulse) BY SyncedMoves
<1>6. synced \in {"no", "pulse", "yes"} /\ vvsync \in BOOLEAN BY DEF VideoTyped
<1>7. vclr_r' => vf_words' = 0 /\ ~vf_popped' BY <1>2, Cleared
<1>8. CASE pulse
  <2>1. vvsync' BY <1>4, <1>8
  <2>2. CASE vvsync /\ synced # "no"
    <3>1. vclr_r' BY <1>2, <1>8, <2>2
    <3>2. PulseInv' BY <1>2, <1>3, <1>4, <1>8, <2>2, <3>1, PulseStep
    <3>. QED BY <1>7, <2>1, <3>1, <3>2 DEF VideoInv
  <2>3. CASE vvsync /\ synced = "no"
    <3>1. synced' = "no" BY <1>5, <2>3 DEF SyncedCases
    <3>. QED BY <2>1, <3>1 DEF VideoInv
  <2>4. CASE ~vvsync
    <3>1. held = 0 BY <2>4 DEF VideoInv
    <3>2. held' = 1 /\ fw' = 0 /\ cgap' = 0
      BY <1>4, <1>8, <3>1, VideoConstantsHold DEF Camera, VideoConstants
    <3>3. dcnt' \in Nat BY <1>3 DEF VideoTyped, VideoTypeOK
    <3>4. PulseInv'
      <4>1. \A x \in Nat : x # 0 => 1 <= x + 1 OBVIOUS
      <4>2. dcnt' # 0 => held' <= dcnt' + 1 BY <3>2, <3>3, <4>1
      <4>. QED BY <3>2, <4>2 DEF PulseInv
    <3>5. synced # "no" => synced = "yes" BY <2>4 DEF VideoInv
    <3>6. CASE synced = "no"
      <4>1. synced' = "pulse" BY <1>5, <1>8, <2>4, <3>6 DEF SyncedCases
      <4>. QED BY <1>7, <2>1, <3>4, <4>1 DEF VideoInv
    <3>7. CASE synced = "yes"
      <4>1. ~vclr_r' => (dcnt' # 0 => vf_words' >= 1)
        BY <1>2, <1>3, <1>4, <1>8, <2>4, <3>7, FieldCut
      <4>. QED BY <1>7, <2>1, <3>4, <4>1 DEF VideoInv
    <3>. QED BY <3>5, <3>6, <3>7
  <2>. QED BY <1>6, <2>2, <2>3, <2>4
<1>9. CASE ~pulse
  <2>1. ~vvsync' /\ held' = 0 BY <1>4, <1>9 DEF Camera
  <2>2. Camera(FALSE, arrive) BY <1>4, <1>9
  <2>3. CASE synced = "no"
    <3>1. synced' = "no" BY <1>5, <1>9, <2>3 DEF SyncedCases
    <3>. QED BY <2>1, <3>1 DEF VideoInv
  <2>4. CASE synced # "no" /\ vvsync
    <3>1. synced' = "yes" BY <1>5, <1>6, <1>9, <2>4 DEF SyncedCases
    <3>2. vclr_r /\ dcnt = 0 /\ dcnt' = 0 /\ fw' = 0 /\ cgap' = 1
      BY <1>2, <2>2, <2>4, PulseEnd
    <3>3. vf_words' = 0 /\ ~vf_popped' BY <1>2, <3>2, Cleared
    <3>4. LagOut' BY <1>2, <3>2 DEF LagOut, vf_rdreq
    <3>5. FieldInv' BY <1>3, <3>2, <3>3, EmptyField
    <3>6. 1 <= cgap' BY <3>2
    <3>. QED BY <2>1, <3>1, <3>3, <3>4, <3>5, <3>6 DEF VideoInv
  <2>5. CASE synced # "no" /\ ~vvsync
    <3>1. synced' = "yes" BY <1>5, <1>6, <2>5 DEF SyncedCases, VideoInv
    <3>2. ~vclr_r' BY <1>2, <1>9, <2>5
    <3>3. 1 <= cgap BY <2>5 DEF VideoInv
    <3>4. 1 <= cgap' BY <2>2, <2>5, <3>3, CameraInField
    <3>5. FieldInv'
      <4>1. CASE vclr_r
        <5>1. LagOut BY <2>5, <4>1 DEF VideoInv
        <5>2. dcnt' = 0 BY <1>2, <2>5, <4>1, <5>1, ClearedCounter DEF LagOut
        <5>3. vf_words' = 0 /\ ~vf_popped' BY <1>2, <4>1, Cleared
        <5>4. ~arrive
          <6>1. arrive => 2 <= cgap
            BY <2>2, VideoConstantsHold DEF Camera, MaySend, CameraSizes, VideoConstants, VideoTyped
          <6>. QED BY <5>1, <6>1 DEF LagOut
        <5>5. fw' = 0 BY <2>2, <2>5, <3>3, <5>1, <5>4, CameraInField DEF LagOut
        <5>. QED BY <1>3, <5>2, <5>3, <5>5, EmptyField
      <4>2. CASE ~vclr_r
        <5>1. FieldInv BY <2>5, <4>2 DEF VideoInv
        <5>. QED BY <1>2, <1>3, <2>2, <2>5, <3>2, <3>3, <4>2, <5>1, FieldStep
      <4>. QED BY <4>1, <4>2
    <3>. QED BY <2>1, <3>1, <3>2, <3>4, <3>5 DEF VideoInv
  <2>. QED BY <2>3, <2>4, <2>5
<1>. QED BY <1>8, <1>9

LEMMA VideoInvReset ==
  ASSUME VideoTyped, VideoInv, NEW pulse \in BOOLEAN, NEW arrive \in BOOLEAN,
         WrReset(pulse, arrive)
  PROVE  VideoTyped' /\ VideoInv'
<1> USE VideoConstantsHold DEF VideoConstants
<1>1. Camera(pulse, arrive) /\ VideoReset(arrive) /\ synced' = "no" BY DEF WrReset
<1>2. vf_words' \in 0..VfDepth /\ vf_popped' \in BOOLEAN
  BY <1>1, VideoFifoTyped DEF VideoReset
<1>6. 0 \in 0..(DcntSize - 1) OBVIOUS
<1>3. dcnt' \in 0..(DcntSize - 1) /\ vclr_r' \in BOOLEAN /\ wrf_wrreqr' \in BOOLEAN
  BY <1>1, <1>6 DEF VideoReset
<1>4. VideoTyped' BY <1>1, <1>2, <1>3, CameraTyped DEF VideoTyped, VideoTypeOK
<1>5. ~vvsync' => held' = 0 BY <1>1 DEF Camera
<1>. QED BY <1>1, <1>4, <1>5 DEF VideoInv

LEMMA VideoInvInit ==
  ASSUME WrInit, CameraSizes
  PROVE  VideoTyped /\ VideoInv
<1> USE VideoConstantsHold DEF VideoConstants
<1>1. VideoInit /\ CameraInit /\ synced = "no" BY DEF WrInit
<1>6. 0 \in 0..(DcntSize - 1) /\ 0 \in 0..VfDepth /\ 0 \in 0..CamMax /\ 0 \in Nat OBVIOUS
<1>2. VideoTypeOK BY <1>1, <1>6 DEF VideoInit, VideoTypeOK
<1>7. LineWords <= FieldWords BY DEF CameraSizes
<1>3. fw \in 0..FieldWords BY <1>1, <1>7 DEF CameraInit
<1>8. vvsync \in BOOLEAN /\ held \in Nat /\ cgap \in 0..CamMax BY <1>1, <1>6 DEF CameraInit
<1>4. VideoTyped BY <1>1, <1>2, <1>3, <1>8 DEF VideoTyped
<1>5. VideoInv BY <1>1 DEF CameraInit, VideoInv
<1>. QED BY <1>4, <1>5

LEMMA VideoInvariant ==
  ASSUME CameraSizes
  PROVE  WrSpec => [](VideoTyped /\ VideoInv)
<1>1. WrInit => VideoTyped /\ VideoInv BY VideoInvInit
<1>2. VideoTyped /\ VideoInv /\ [WrNext]_wrVars => (VideoTyped /\ VideoInv)'
  <2> SUFFICES ASSUME VideoTyped, VideoInv, [WrNext]_wrVars
               PROVE  VideoTyped' /\ VideoInv'
    OBVIOUS
  <2>1. ASSUME NEW rd \in BOOLEAN, NEW pulse \in BOOLEAN, NEW arrive \in BOOLEAN,
               WrTick(rd, pulse, arrive)
        PROVE  VideoTyped' /\ VideoInv'
    <3>1. VideoStep(pulse, arrive) BY <2>1 DEF WrTick, VideoStep
    <3>. QED BY <3>1, VideoStepTyped, VideoInvStep
  <2>2. ASSUME NEW pulse \in BOOLEAN, NEW arrive \in BOOLEAN, WrReset(pulse, arrive)
        PROVE  VideoTyped' /\ VideoInv'
    BY <2>2, VideoInvReset
  <2>3. CASE UNCHANGED wrVars
    <3>1. UNCHANGED <<vclr_r, vf_words, vf_popped, dcnt, wrf_wrreqr>>
          /\ UNCHANGED <<vvsync, held, cgap, fw, synced>>
      BY <2>3 DEF wrVars, videoVars, camVars
    <3>2. VideoTyped' BY <3>1 DEF VideoTyped, VideoTypeOK
    <3>3. FieldInv => FieldInv'
      BY <3>1 DEF FieldInv, WholeBursts, Waiting, Running, Spare, Done, Late
    <3>4. VideoInv' BY <3>1, <3>3 DEF VideoInv, PulseInv, LagOut
    <3>. QED BY <3>2, <3>4
  <2>. QED BY <2>1, <2>2, <2>3 DEF WrNext, WrTicks, WrResets
<1>. QED BY <1>1, <1>2, PTL DEF WrSpec

(* No camera word is pushed twice, for every size of the FIFO and of the   *)
(* burst that satisfies CameraSizes.                                       *)
THEOREM CameraWordsTakenOnce ==
  ASSUME CameraSizes
  PROVE  WrSpec => []CameraWordsOnce
<1>1. ASSUME VideoTyped, VideoInv PROVE CameraWordsOnce
  <2> SUFFICES ASSUME synced = "yes", dcnt # 0, ~vclr_r PROVE vf_words > 0
    BY DEF CameraWordsOnce, InField, vf_rdreq
  <2>1. vf_words \in Nat BY <1>1 DEF VideoTyped, VideoTypeOK
  <2>2. CASE vvsync BY <1>1, <2>1, <2>2 DEF VideoInv
  <2>3. CASE ~vvsync
    <3>1. FieldInv BY <1>1, <2>3 DEF VideoInv
    <3>. QED BY <1>1, <2>1, <3>1, BurstFed
  <2>. QED BY <2>2, <2>3
<1>. QED BY <1>1, VideoInvariant, PTL

-----------------------------------------------------------------------------
(* The write burst.  Taking: the operation still takes words out of the     *)
(* FIFO, or has just taken the last; Left: as many it has yet to take.     *)
Taking == ~sys_r_wn /\ work_state \in {"ACTIVE", "TRCD", "WRITE", "WD"}
Left == IF Taking THEN WrByte - acks ELSE 0

LEMMA WriteMoves ==
  ASSUME CtrlInv, AckCount, AckAssumption,
         NEW wr \in BOOLEAN, NEW rd \in BOOLEAN, CtrlTick(wr, rd)
  PROVE  /\ wr_ack => Taking /\ work_state # "ACTIVE" /\ acks \in 0..(WrByte - 1)
                      /\ acks' = acks + 1 /\ Taking'
         /\ Taking /\ ~wr_ack => acks' = acks /\ (acks = WrByte \/ work_state = "ACTIVE")
         /\ ~Taking /\ Taking' => /\ wr /\ ~ref_req /\ work_state = "IDLE"
                                  /\ work_state' = "ACTIVE" /\ acks' = 0
         /\ Taking /\ ~Taking' => /\ work_state = "WD" /\ cnt_clk = WrByte - 1 /\ acks = WrByte
                                  /\ work_state' = "TDAL"
         /\ Taking => work_state' # "ACTIVE"
<1>0. /\ cnt_clk \in 0..511 /\ acks \in Nat /\ sys_r_wn \in BOOLEAN /\ WrByte \in 2..256
      /\ CountAcks
  BY TimingAssumption DEF TimingAssumption, CtrlInv, CtrlTypeOK, CtrlTick, AckAssumption
<1>1. ASSUME work_state = "TRCD", ~sys_r_wn
      PROVE  wr_ack /\ acks = 0 /\ acks' = 1 /\ work_state' = "WRITE" /\ ~sys_r_wn'
  <2>1. wr_ack /\ acks = 0 BY <1>1, AckWindow DEF AckCount
  <2>2. acks' = 1 BY <1>0, <1>1, <2>1 DEF CountAcks
  <2>3. RunOperation /\ sys_r_wn' = sys_r_wn BY <1>1, Shifts
  <2>4. cnt_clk = 1 BY <1>0, <1>1 DEF CtrlInv, CounterInRange, AckAssumption
  <2>5. work_state' = "WRITE"
    BY <1>1, <2>3, <2>4 DEF RunOperation, Move, Column, end_trcd, AckAssumption
  <2> QED BY <1>1, <2>1, <2>2, <2>3, <2>5
<1>2. ASSUME work_state = "WRITE"
      PROVE  wr_ack /\ acks = 1 /\ acks' = 2 /\ work_state' = "WD" /\ ~sys_r_wn /\ ~sys_r_wn'
  <2>1. wr_ack /\ acks = 1 /\ ~sys_r_wn BY <1>2, AckWindow DEF AckCount, CtrlInv, DirectionMatches
  <2>2. acks' = 2 BY <1>0, <1>2, <2>1 DEF CountAcks
  <2>3. RunOperation /\ sys_r_wn' = sys_r_wn BY <1>2, Shifts
  <2>4. work_state' = "WD" BY <1>2, <2>3 DEF RunOperation, Move
  <2> QED BY <2>1, <2>2, <2>3, <2>4
<1>3. ASSUME work_state = "WD"
      PROVE  /\ ~sys_r_wn /\ ~sys_r_wn' /\ cnt_clk \in 0..(WrByte - 1)
             /\ wr_ack <=> cnt_clk < WrByte - 2
             /\ acks = IF cnt_clk <= WrByte - 2 THEN 2 + cnt_clk ELSE WrByte
             /\ acks' = IF wr_ack THEN acks + 1 ELSE acks
             /\ work_state' = IF cnt_clk = WrByte - 1 THEN "TDAL" ELSE "WD"
  <2>1. /\ ~sys_r_wn /\ cnt_clk \in 0..(WrByte - 1) /\ (wr_ack <=> cnt_clk < WrByte - 2)
        /\ ~rd_ack
    BY <1>0, <1>3, AckWindow DEF CtrlInv, CounterInRange, DirectionMatches
  <2>2. acks' = IF wr_ack THEN acks + 1 ELSE acks BY <1>0, <1>3, <2>1 DEF CountAcks
  <2>3. RunOperation /\ sys_r_wn' = sys_r_wn BY <1>3, Shifts
  <2>4. work_state' = IF cnt_clk = WrByte - 1 THEN "TDAL" ELSE "WD"
    BY <1>3, <2>3 DEF RunOperation, Move, end_twrite
  <2> QED BY <1>3, <2>1, <2>2, <2>3, <2>4 DEF AckCount
<1>4. ASSUME work_state = "ACTIVE"
      PROVE  /\ ~wr_ack /\ acks = 0 /\ acks' = 0 /\ sys_r_wn' = sys_r_wn
             /\ work_state' = "TRCD"
  <2>1. ~wr_ack /\ ~rd_ack /\ acks = 0 BY <1>4, AckWindow DEF AckCount
  <2>2. acks' = 0 BY <1>0, <1>4, <2>1 DEF CountAcks
  <2>3. RunOperation /\ sys_r_wn' = sys_r_wn BY <1>4, Shifts
  <2>4. work_state' = "TRCD" BY <1>4, <2>3 DEF RunOperation, Move, AckAssumption
  <2> QED BY <2>1, <2>2, <2>3, <2>4
<1>5. ASSUME ~Taking PROVE ~wr_ack
  BY <1>5 DEF wr_ack, Taking, CtrlInv, DirectionMatches
<1>6. ASSUME ~Taking, Taking'
      PROVE  wr /\ ~ref_req /\ work_state = "IDLE" /\ work_state' = "ACTIVE" /\ acks' = 0
  <2>1. work_state = "IDLE"
    <3> SUFFICES ASSUME work_state # "IDLE" PROVE FALSE
      OBVIOUS
    <3>1. RunOperation /\ sys_r_wn' = sys_r_wn BY Shifts
    <3>2. ~sys_r_wn /\ work_state \notin {"ACTIVE", "TRCD", "WRITE", "WD"}
      BY <1>6, <3>1 DEF Taking
    <3>3. work_state = "TDAL"
      BY <3>2 DEF CtrlInv, CtrlTypeOK, W_States, DirectionMatches
    <3> QED BY <1>6, <3>1, <3>3 DEF RunOperation, Move, Taking
  <2>2. WorkFsm(wr, rd) /\ ~RunOperation BY <2>1 DEF CtrlTick, RunOperation, Move
  <2>3. wr /\ ~ref_req /\ work_state' = "ACTIVE"
    BY <1>6, <2>1, <2>2 DEF WorkFsm, GrantRefresh, GrantWrite, GrantRead, StayIdle, Taking
  <2> QED BY <1>0, <2>1, <2>3 DEF CountAcks
<1>7. ASSUME Taking
      PROVE  /\ wr_ack => work_state # "ACTIVE" /\ acks \in 0..(WrByte - 1) /\ acks' = acks + 1 /\ Taking'
             /\ ~wr_ack => acks' = acks /\ (acks = WrByte \/ work_state = "ACTIVE")
             /\ ~Taking' => /\ work_state = "WD" /\ cnt_clk = WrByte - 1 /\ acks = WrByte
                            /\ work_state' = "TDAL"
             /\ work_state' # "ACTIVE"
  <2>1. CASE work_state = "ACTIVE" BY <1>4, <1>7, <2>1 DEF Taking
  <2>2. CASE work_state = "TRCD" BY <1>0, <1>1, <1>7, <2>2 DEF Taking
  <2>3. CASE work_state = "WRITE" BY <1>0, <1>2, <1>7, <2>3 DEF Taking
  <2>4. CASE work_state = "WD"
    <3>1. wr_ack => acks \in 0..(WrByte - 1) /\ acks' = acks + 1 /\ work_state' = "WD"
      BY <1>0, <1>3, <2>4
    <3>2. ~wr_ack => acks' = acks /\ acks = WrByte BY <1>0, <1>3, <2>4
    <3>3. work_state' = "WD" => Taking' BY <1>3, <2>4 DEF Taking
    <3>4. work_state' # "WD" => /\ cnt_clk = WrByte - 1 /\ acks = WrByte
                                /\ work_state' = "TDAL"
      BY <1>0, <1>3, <2>4
    <3> QED BY <2>4, <3>1, <3>2, <3>3, <3>4
  <2> QED BY <1>7, <2>1, <2>2, <2>3, <2>4 DEF Taking
<1> QED BY <1>5, <1>6, <1>7

(* The same in terms of the words left to take.                            *)
LEMMA LeftTyped ==
  ASSUME CtrlInv, AckCount, AckAssumption
  PROVE  Left \in 0..WrByte /\ (Left > 0 => Taking)
<1>0. cnt_clk \in 0..511 /\ WrByte \in 2..256
  BY TimingAssumption DEF TimingAssumption, CtrlInv, CtrlTypeOK, AckAssumption
<1>1. CASE Taking /\ work_state = "WD"
  BY <1>0, <1>1 DEF AckCount, Left
<1>2. CASE Taking /\ work_state # "WD"
  <2>1. acks \in {0, 1} BY <1>2 DEF Taking, AckCount
  <2> QED BY <1>0, <1>2, <2>1 DEF Left
<1>3. CASE ~Taking BY <1>0, <1>3 DEF Left
<1> QED BY <1>1, <1>2, <1>3

LEMMA LeftStep ==
  ASSUME CtrlInv, AckCount, AckAssumption,
         NEW wr \in BOOLEAN, NEW rd \in BOOLEAN, CtrlTick(wr, rd)
  PROVE  /\ wr_ack <=> Left > 0 /\ work_state # "ACTIVE"
         /\ wr_ack => Left' = Left - 1
         /\ Left > 0 /\ ~wr_ack => Left' = Left /\ Left = WrByte
         /\ Left > 0 => work_state' # "ACTIVE"
         /\ Left = 0 => \/ Left' = 0
                        \/ /\ Left' = WrByte /\ wr /\ ~ref_req
                           /\ work_state = "IDLE" /\ work_state' = "ACTIVE"
<1>0. acks \in Nat /\ WrByte \in 2..256
  BY TimingAssumption DEF TimingAssumption, CtrlInv, CtrlTypeOK, AckAssumption
<1>1. Left = IF Taking THEN WrByte - acks ELSE 0 BY DEF Left
<1>2. Left' = IF Taking' THEN WrByte - acks' ELSE 0 BY DEF Left
<1>3. work_state = "ACTIVE" => acks = 0 BY DEF AckCount
<1>4. CASE wr_ack
  BY <1>0, <1>1, <1>2, <1>4, WriteMoves
<1>5. CASE ~wr_ack /\ Taking
  <2>1. acks' = acks /\ (acks = WrByte \/ work_state = "ACTIVE") /\ work_state' # "ACTIVE"
    BY <1>5, WriteMoves
  <2>2. ~Taking' => acks = WrByte BY <1>5, WriteMoves
  <2> QED BY <1>0, <1>1, <1>2, <1>3, <1>5, <2>1, <2>2
<1>6. CASE ~wr_ack /\ ~Taking
  <2>1. Left = 0 BY <1>1, <1>6
  <2>2. Taking' => /\ wr /\ ~ref_req /\ work_state = "IDLE"
                   /\ work_state' = "ACTIVE" /\ acks' = 0
    BY <1>6, WriteMoves
  <2> QED BY <1>0, <1>2, <1>6, <2>1, <2>2
<1> QED BY <1>4, <1>5, <1>6

-----------------------------------------------------------------------------
(* How long a request waits.  A refresh makes it wait once: by the time it *)
(* is done, the next one is not due.  That needs the refresh granted to    *)
(* have been young, which fails once, after the initialisation.            *)
RefreshTime == TRFC + 3

QuickRefresh == MaxOp + TRFC + 5 <= RefPeriod

Calm ==
  /\ work_state = "IDLE" /\ ref_req => RefAge <= MaxOp
  /\ work_state = "AR" => RefAge <= MaxOp + 1
  /\ work_state = "TRFC" => ~ref_req /\ RefAge + OpLeft <= MaxOp + TRFC + 3

LEMMA CtrlNumbers ==
  ASSUME CtrlInv
  PROVE  /\ MaxOp \in Int /\ TRFC \in 0..511 /\ RefPeriod \in Nat /\ RefreshTime \in Nat
         /\ OpLeft \in Int /\ OpLeft <= MaxOp /\ TRFC + 2 <= MaxOp
         /\ work_state \notin {"IDLE", "AR"} => OpLeft >= 1
         /\ work_state = "AR" => OpLeft = TRFC + 2
         /\ work_state = "IDLE" => OpLeft = 0
<1>1. TRFC \in 0..511 /\ RefPeriod \in Nat BY TimingAssumption DEF TimingAssumption
<1>2. OpLeft \in Int /\ OpLeft <= MaxOp BY OpLeftBounded DEF OpLeftOK
<1>3. work_state = "AR" => OpLeft = TRFC + 2 BY OpLeftCases DEF OpLeftTable
<1>4. work_state = "IDLE" => OpLeft = 0 BY OpLeftCases DEF OpLeftTable
<1> QED BY <1>1, <1>2, <1>3, <1>4, OpRuns, OperationSizes DEF RefreshTime

LEMMA OpLeftFromRefresh ==
  ASSUME CtrlInv, init_done, work_state = "AR",
         NEW wr \in BOOLEAN, NEW rd \in BOOLEAN, CtrlTick(wr, rd)
  PROVE  /\ work_state' = IF TRFC = 0 THEN "IDLE" ELSE "TRFC"
         /\ OpLeft' = IF TRFC = 0 THEN 0 ELSE TRFC + 1
<1>0. TRFC \in 0..511 BY TimingAssumption DEF TimingAssumption
<1>1. work_state' = IF TRFC = 0 THEN "IDLE" ELSE "TRFC" BY WorkStep
<1>2. cnt_clk' = 0 BY DelayStep DEF CtrlTick
<1>3. OpLeftTable' BY OpLeftCases
<1> QED BY <1>0, <1>1, <1>2, <1>3 DEF OpLeftTable

LEMMA CalmStep ==
  ASSUME CtrlInv, RefreshDeadline, QuickRefresh, init_done, Calm,
         NEW wr \in BOOLEAN, NEW rd \in BOOLEAN, CtrlTick(wr, rd)
  PROVE  Calm'
<1>0. MaxOp' = MaxOp BY DEF MaxOp, Larger, ReadTail, WriteTail
<1>1. /\ RefAge \in 0..(RefPeriod - 1) /\ RefAge' \in 0..(RefPeriod - 1)
      /\ cnt_15us = RefPeriod - 2 => RefAge = RefPeriod - 1 /\ RefAge' = 0 /\ ref_req'
      /\ cnt_15us # RefPeriod - 2 => RefAge' = RefAge + 1 /\ (ref_req' <=> ref_req /\ ~ref_ack)
  BY AgeStep DEF CtrlTick
<1>2. /\ MaxOp \in Int /\ TRFC \in 0..511 /\ RefPeriod \in Nat
      /\ OpLeft \in Int /\ OpLeft <= MaxOp /\ TRFC + 2 <= MaxOp
      /\ MaxOp + TRFC + 5 <= RefPeriod
  BY CtrlNumbers DEF QuickRefresh
<1>3. RefAge' <= RefAge + 1 BY <1>1
<1>4. CASE work_state = "IDLE"
  <2>1. work_state' \in {"IDLE", "ACTIVE", "AR"} BY <1>4, WorkStep
  <2>2. work_state' = "AR" <=> ref_req
    BY <1>4 DEF CtrlTick, WorkFsm, GrantRefresh, GrantWrite, GrantRead, StayIdle,
                RunOperation, Move
  <2>3. work_state' = "AR" => RefAge' <= MaxOp + 1 BY <1>1, <1>2, <1>3, <1>4, <2>2 DEF Calm
  <2>4. work_state' = "IDLE" /\ ref_req' => RefAge' <= MaxOp BY <1>1, <1>2, <2>2
  <2> QED BY <1>0, <2>1, <2>3, <2>4 DEF Calm
<1>5. CASE work_state = "AR"
  <2>1. /\ work_state' = IF TRFC = 0 THEN "IDLE" ELSE "TRFC"
        /\ OpLeft' = IF TRFC = 0 THEN 0 ELSE TRFC + 1
    BY <1>5, OpLeftFromRefresh
  <2>2. RefAge <= MaxOp + 1 BY <1>5 DEF Calm
  <2>3. cnt_15us # RefPeriod - 2 BY <1>1, <1>2, <2>2
  <2>4. ~ref_req' BY <1>1, <1>5, <2>3 DEF ref_ack
  <2>5. RefAge' <= MaxOp + 2 BY <1>1, <1>2, <2>2, <2>3
  <2>7. work_state' = "TRFC" => OpLeft' = TRFC + 1 BY <2>1
  <2>6. work_state' = "TRFC" => RefAge' + OpLeft' <= MaxOp + TRFC + 3
    <3>1. RefAge' \in Int BY <1>1
    <3>2. MaxOp \in Int /\ TRFC \in Int BY <1>2
    <3>4. \A a, b, c \in Int : a <= b + 2 => a + (c + 1) <= b + c + 3 OBVIOUS
    <3>3. RefAge' + (TRFC + 1) <= MaxOp + TRFC + 3 BY <2>5, <3>1, <3>2, <3>4
    <3> QED BY <2>7, <3>3
  <2> QED BY <1>0, <2>1, <2>4, <2>6 DEF Calm
<1>6. CASE work_state = "TRFC"
  <2>1. ~ref_req /\ RefAge + OpLeft <= MaxOp + TRFC + 3 /\ OpLeft >= 1
    BY <1>6, CtrlNumbers DEF Calm
  <2>2. cnt_15us # RefPeriod - 2 BY <1>1, <1>2, <2>1
  <2>3. ~ref_req' /\ RefAge' = RefAge + 1 BY <1>1, <2>1, <2>2
  <2>4. OpLeft' = OpLeft - 1 BY <1>6, OpLeftStep
  <2>5. RefAge' + OpLeft' <= MaxOp + TRFC + 3 BY <1>1, <1>2, <2>1, <2>3, <2>4
  <2>6. work_state' \in {"IDLE", "TRFC"} BY <1>6, WorkStep
  <2> QED BY <1>0, <2>3, <2>5, <2>6 DEF Calm
<1>7. CASE work_state \notin {"IDLE", "AR", "TRFC"}
  <2>1. work_state' \notin {"AR", "TRFC"}
    BY <1>7, WorkStep DEF CtrlInv, CtrlTypeOK, W_States, Column
  <2>2. ASSUME work_state' = "IDLE", ref_req' PROVE RefAge' <= MaxOp
    <3>1. CASE cnt_15us = RefPeriod - 2 BY <1>1, <1>2, <3>1
    <3>2. CASE cnt_15us # RefPeriod - 2
      <4>1. ref_req BY <1>1, <2>2, <3>2
      <4>2. RefAge + OpLeft <= MaxOp BY <1>7, <4>1 DEF RefreshDeadline
      <4>3. OpLeft >= 1 BY <1>7, CtrlNumbers
      <4> QED BY <1>1, <1>2, <1>3, <4>2, <4>3
    <3> QED BY <3>1, <3>2
  <2> QED BY <1>0, <2>1, <2>2 DEF Calm
<1> QED BY <1>4, <1>5, <1>6, <1>7

(* Clocks an idle controller, or one in an operation, makes a pending write*)
(* wait at most.                                                           *)
Wait == IF work_state = "IDLE" THEN (IF ref_req THEN RefreshTime ELSE 0)
        ELSE IF work_state \in {"AR", "TRFC"} THEN OpLeft
        ELSE OpLeft + RefreshTime

MaxWait == MaxOp + RefreshTime

LEMMA WaitBounded ==
  ASSUME CtrlInv
  PROVE  Wait \in Int /\ 0 <= Wait /\ Wait <= MaxWait
<1>1. /\ MaxOp \in Int /\ TRFC \in 0..511 /\ RefreshTime \in Nat
      /\ OpLeft \in Int /\ OpLeft <= MaxOp /\ TRFC + 2 <= MaxOp /\ OpLeft >= 0
  BY CtrlNumbers
<1> QED BY <1>1 DEF Wait, MaxWait

LEMMA WaitShorter ==
  ASSUME CtrlInv, RefreshDeadline, QuickRefresh, init_done, Calm,
         NEW wr \in BOOLEAN, NEW rd \in BOOLEAN, CtrlTick(wr, rd),
         work_state # "IDLE" \/ ref_req
  PROVE  Wait' <= Wait - 1
<1>0. /\ TRFC \in 0..511 /\ RefreshTime \in Nat /\ RefreshTime = TRFC + 3
      /\ RefreshTime' = RefreshTime /\ OpLeft \in Int /\ ref_req' \in BOOLEAN
  BY CtrlNumbers, TickTyped DEF RefreshTime, CtrlInv, CtrlTypeOK
<1>1. CASE work_state = "IDLE"
  <2>1. work_state' = "AR"
    BY <1>1 DEF CtrlTick, WorkFsm, GrantRefresh, GrantWrite, GrantRead, StayIdle,
                RunOperation, Move
  <2>2. OpLeft' = TRFC + 2 BY <2>1, OpLeftCases DEF OpLeftTable
  <2>3. Wait = RefreshTime /\ Wait' = OpLeft' BY <1>1, <2>1 DEF Wait
  <2> QED BY <1>0, <2>2, <2>3
<1>2. CASE work_state = "AR"
  <2>1. /\ work_state' = IF TRFC = 0 THEN "IDLE" ELSE "TRFC"
        /\ OpLeft' = IF TRFC = 0 THEN 0 ELSE TRFC + 1
    BY <1>2, OpLeftFromRefresh
  <2>2. Wait = TRFC + 2 BY <1>2, CtrlNumbers DEF Wait
  <2>3. ~ref_req'
    <3>1. RefAge <= MaxOp + 1 BY <1>2 DEF Calm
    <3>2. cnt_15us # RefPeriod - 2 BY <3>1, AgeStep, CtrlNumbers DEF QuickRefresh, CtrlTick
    <3> QED BY <1>2, <3>2 DEF ref_ack, CtrlTick, RefreshTimer
  <2>4. Wait' = OpLeft' BY <1>0, <2>1, <2>3 DEF Wait
  <2> QED BY <1>0, <2>1, <2>2, <2>4
<1>3. CASE work_state = "TRFC"
  <2>1. work_state' \in {"IDLE", "TRFC"} /\ OpLeft' = OpLeft - 1 BY <1>3, WorkStep, OpLeftStep
  <2>2. ~ref_req'
    <3>1. ~ref_req /\ RefAge + OpLeft <= MaxOp + TRFC + 3 /\ OpLeft >= 1
      BY <1>3, CtrlNumbers DEF Calm
    <3>2. cnt_15us # RefPeriod - 2 BY <3>1, AgeStep, CtrlNumbers DEF QuickRefresh, CtrlTick
    <3> QED BY <3>1, <3>2 DEF CtrlTick, RefreshTimer
  <2>3. OpLeft >= 1 BY <1>3, CtrlNumbers
  <2>4. Wait = OpLeft BY <1>3 DEF Wait
  <2>5. Wait' = IF work_state' = "IDLE" THEN 0 ELSE OpLeft' BY <2>1, <2>2 DEF Wait
  <2> QED BY <1>0, <2>1, <2>3, <2>4, <2>5
<1>4. CASE work_state \notin {"IDLE", "AR", "TRFC"}
  <2>1. work_state' \notin {"AR", "TRFC"} /\ OpLeft' = OpLeft - 1
    BY <1>4, WorkStep, OpLeftStep DEF CtrlInv, CtrlTypeOK, W_States, Column
  <2>2. Wait = OpLeft + RefreshTime /\ OpLeft >= 1 BY <1>4, CtrlNumbers DEF Wait
  <2>3. Wait' <= OpLeft' + RefreshTime BY <1>0, <2>1, <2>2 DEF Wait
  <2> QED BY <1>0, <2>1, <2>2, <2>3
<1> QED BY <1>1, <1>2, <1>3, <1>4

-----------------------------------------------------------------------------
(* After a reset: the clocks left, at most, until the initialisation is     *)
(* done and the first refresh, old from waiting for it, is out of the way. *)
LongestWait == Larger(TRP, Larger(TRFC, TMRD))

InitLeft ==
  IF init_state = I_NOP THEN PowerUp - cnt_200us + 1 + 20 * (LongestWait + 1)
  ELSE (I_DONE - init_state) * (LongestWait + 1) - cnt_clk

SettleLeft ==
  IF ~init_done THEN InitLeft + RefreshTime
  ELSE IF Calm THEN 0
  ELSE IF work_state = "IDLE" THEN RefreshTime ELSE OpLeft

SettleTime == PowerUp + 1 + 20 * (LongestWait + 1) + RefreshTime

LEMMA LongestWaits ==
  /\ LongestWait \in Nat /\ PowerUp \in Nat
  /\ InitDelay(init_state) \in Nat /\ InitDelay(init_state) <= LongestWait
<1>1. TRP \in Nat /\ TRFC \in Nat /\ TMRD \in Nat /\ PowerUp \in Nat
  BY TimingAssumption DEF TimingAssumption
<1>2. LongestWait \in Nat /\ TRP <= LongestWait /\ TRFC <= LongestWait /\ TMRD <= LongestWait
  BY <1>1 DEF LongestWait, Larger
<1> QED BY <1>1, <1>2 DEF InitDelay

LEMMA TimesLess == \A a, b, d \in Nat : d >= 1 /\ a + d <= b =>
                     \A c \in Nat : a * c + c <= b * c
<1> SUFFICES ASSUME NEW a \in Nat, NEW b \in Nat, NEW c \in Nat, a + 1 <= b
             PROVE  a * c + c <= b * c
  OBVIOUS
<1>1. PICK e \in Nat : b = a + 1 + e
  <2>1. b - (a + 1) \in Nat OBVIOUS
  <2>2. b = a + 1 + (b - (a + 1)) OBVIOUS
  <2> QED BY <2>1, <2>2
<1>2. b * c = a * c + c + e * c BY <1>1
<1>3. e * c \in Nat OBVIOUS
<1>4. a * c \in Nat OBVIOUS
<1> QED BY <1>2, <1>3, <1>4

LEMMA InitLeftBounds ==
  ASSUME CtrlInv, InitCount, ~init_done
  PROVE  InitLeft \in Int /\ 1 <= InitLeft /\ InitLeft + RefreshTime <= SettleTime
<1>0. /\ LongestWait \in Nat /\ PowerUp \in Nat /\ cnt_200us \in 0..PowerUp
      /\ init_state \in 0..20 /\ cnt_clk \in 0..511 /\ RefreshTime \in Nat
  BY LongestWaits, CtrlNumbers DEF CtrlInv, CtrlTypeOK, I_States, init_done, I_DONE
<1>1. PICK w \in Nat : w = LongestWait + 1 BY <1>0
<1>2. cnt_clk < w
  <2>1. CASE init_state \in {I_NOP} \cup I_Issue BY <1>0, <1>1, <2>1 DEF InitCount
  <2>2. CASE init_state \in I_Wait BY <1>0, <1>1, <2>2, LongestWaits DEF InitCount
  <2> QED BY <1>0, <2>1, <2>2 DEF I_NOP, I_PRE, I_Issue, I_MRS, I_AR, I_Wait
<1>3. CASE init_state = I_NOP
  <2>1. InitLeft = PowerUp - cnt_200us + 1 + 20 * w BY <1>1, <1>3 DEF InitLeft
  <2> QED BY <1>0, <1>1, <2>1 DEF SettleTime
<1>4. CASE init_state # I_NOP
  <2>1. PICK n \in 1..20 : n = I_DONE - init_state
    <3>1. I_DONE - init_state \in 1..20 BY <1>0, <1>4 DEF I_DONE, I_NOP
    <3> QED BY <3>1
  <2>2. InitLeft = n * w - cnt_clk BY <1>1, <1>4, <2>1 DEF InitLeft
  <2>3. w <= n * w
    <3>1. 0 * w + w <= n * w BY <2>1, TimesLess
    <3> QED BY <3>1
  <2>4. n * w <= 20 * w
    <3>1. CASE n = 20 BY <3>1
    <3>2. CASE n # 20
      <4>1. n * w + w <= 20 * w BY <2>1, <3>2, TimesLess
      <4>2. n * w \in Nat BY <2>1
      <4> QED BY <4>1, <4>2
    <3> QED BY <3>1, <3>2
  <2>5. n * w \in Nat BY <2>1
  <2>6. SettleTime = PowerUp + 1 + 20 * w + RefreshTime BY <1>1 DEF SettleTime
  <2> QED BY <1>0, <1>2, <2>2, <2>3, <2>4, <2>5, <2>6
<1> QED BY <1>3, <1>4

LEMMA InitLeftStep ==
  ASSUME CtrlInv, InitCount, ~init_done, ~init_done',
         NEW wr \in BOOLEAN, NEW rd \in BOOLEAN, CtrlTick(wr, rd)
  PROVE  InitLeft' <= InitLeft - 1
<1>0. /\ LongestWait \in Nat /\ PowerUp \in Nat /\ cnt_200us \in 0..PowerUp
      /\ init_state \in 0..20 /\ cnt_clk \in 0..511 /\ LongestWait' = LongestWait
      /\ cnt_clk' \in 0..511 /\ cnt_200us' \in 0..PowerUp
  BY LongestWaits, TickTyped
     DEF CtrlInv, CtrlTypeOK, I_States, init_done, I_DONE, LongestWait, Larger
<1>1. PICK w \in Nat : w = LongestWait + 1 BY <1>0
<1>2. InitFsm /\ DelayCounter /\ PowerUpTimer /\ InitCount'
  BY InitCountTick DEF CtrlTick
<1>3. CASE init_state = I_NOP
  <2>1. InitLeft = PowerUp - cnt_200us + 1 + 20 * w BY <1>1, <1>3 DEF InitLeft
  <2>2. init_state' = IF cnt_200us = PowerUp THEN I_PRE ELSE I_NOP BY <1>2, <1>3 DEF InitFsm, I_NOP, I_PRE, I_Issue, I_MRS, I_AR, I_Wait
  <2>3. CASE cnt_200us = PowerUp
    <3>1. init_state' = 1 /\ cnt_clk' = 0
      BY <1>2, <2>2, <2>3 DEF InitCount, I_PRE, I_Issue
    <3>2. InitLeft' = 20 * w BY <1>0, <1>1, <3>1 DEF InitLeft, I_NOP, I_DONE
    <3> QED BY <1>0, <1>1, <2>1, <2>3, <3>2
  <2>4. CASE cnt_200us # PowerUp
    <3>1. init_state' = I_NOP /\ cnt_200us' = cnt_200us + 1
      BY <1>0, <1>2, <2>2, <2>4 DEF PowerUpTimer
    <3>2. InitLeft' = PowerUp - cnt_200us' + 1 + 20 * w BY <1>0, <1>1, <3>1 DEF InitLeft
    <3> QED BY <1>0, <1>1, <2>1, <3>1, <3>2
  <2> QED BY <2>3, <2>4
<1>4. CASE init_state # I_NOP
  <2>1. PICK n \in 1..20 : n = I_DONE - init_state
    <3>1. I_DONE - init_state \in 1..20 BY <1>0, <1>4 DEF I_DONE, I_NOP
    <3> QED BY <3>1
  <2>2. InitLeft = n * w - cnt_clk BY <1>1, <1>4, <2>1 DEF InitLeft
  <2>3. \A m \in Nat : init_state' = init_state + m /\ init_state' # I_NOP
          => InitLeft' = (n - m) * w - cnt_clk'
    BY <1>0, <1>1, <2>1 DEF InitLeft, I_DONE
  <2>4. cnt_clk < w
    <3>1. CASE init_state \in I_Issue BY <1>0, <1>1, <3>1 DEF InitCount
    <3>2. CASE init_state \in I_Wait BY <1>0, <1>1, <3>2, LongestWaits DEF InitCount
    <3> QED BY <1>0, <1>4, <3>1, <3>2 DEF I_NOP, I_PRE, I_Issue, I_MRS, I_AR, I_Wait
  <2>5. ASSUME NEW m \in {1, 2}, init_state' = init_state + m PROVE InitLeft' <= InitLeft - 1
    <3>1. init_state' # I_NOP BY <1>0, <2>5 DEF I_NOP
    <3>2. n - m \in Nat
      <4>1. init_state' \in 0..20 BY <1>0, <1>2, TickTyped DEF CtrlInv, CtrlTypeOK, I_States, init_done, I_DONE
      <4> QED BY <1>0, <2>1, <2>5, <4>1 DEF I_DONE
    <3>3. PICK k \in Nat : k = n - m BY <3>2
    <3>4. k * w + w <= n * w BY <2>1, <3>3, TimesLess
    <3>5. InitLeft' = k * w - cnt_clk' BY <2>3, <2>5, <3>1, <3>3
    <3>6. k * w \in Nat /\ n * w \in Nat BY <2>1
    <3>7. \A x, y, p, q \in Int : x + w <= y /\ 0 <= p /\ q < w => x - p <= y - q - 1 OBVIOUS
    <3>8. cnt_clk \in Int /\ cnt_clk' \in Int /\ 0 <= cnt_clk' BY <1>0
    <3>9. k * w \in Int /\ n * w \in Int BY <3>6
    <3>10. k * w - cnt_clk' <= n * w - cnt_clk - 1 BY <2>4, <3>4, <3>7, <3>8, <3>9
    <3> QED BY <2>2, <3>5, <3>10
  <2>6. CASE init_state \in I_Issue
    <3>1. init_state' = init_state + 1 \/ init_state' = init_state + 2
      BY <1>2, <2>6, InitStep
    <3> QED BY <2>5, <3>1
  <2>7. CASE init_state \in I_Wait
    <3>1. \/ init_state' = init_state + 1
          \/ init_state' = init_state /\ cnt_clk' = cnt_clk + 1
      BY <1>2, <2>7, InitStep
    <3>2. CASE init_state' = init_state /\ cnt_clk' = cnt_clk + 1
      <4>1. InitLeft' = n * w - (cnt_clk + 1) BY <1>0, <1>1, <1>4, <2>1, <3>2 DEF InitLeft
      <4>2. n * w \in Nat BY <2>1
      <4> QED BY <1>0, <2>2, <4>1, <4>2
    <3> QED BY <2>5, <3>1, <3>2
  <2> QED BY <1>0, <1>4, <2>6, <2>7 DEF I_NOP, I_PRE, I_Issue, I_MRS, I_AR, I_Wait
<1> QED BY <1>3, <1>4

SettleRange ==
  /\ SettleLeft \in Int /\ 0 <= SettleLeft /\ SettleLeft <= SettleTime
  /\ (SettleLeft = 0 <=> init_done /\ Calm)
  /\ (init_done => SettleLeft <= RefreshTime)
  /\ (~init_done => InitLeft \in Int)

LEMMA SettleBounds ==
  ASSUME CtrlInv, InitCount
  PROVE  SettleRange
<1> USE DEF SettleRange
<1>0. /\ RefreshTime \in Nat /\ RefreshTime = TRFC + 3 /\ TRFC \in 0..511 /\ OpLeft \in Int
      /\ work_state \notin {"IDLE", "AR"} => OpLeft >= 1
      /\ work_state = "AR" => OpLeft = TRFC + 2
  BY CtrlNumbers DEF RefreshTime
<1>1. RefreshTime <= SettleTime /\ SettleTime \in Int
  <2>1. LongestWait \in Nat /\ PowerUp \in Nat BY LongestWaits
  <2> QED BY <1>0, <2>1 DEF SettleTime
<1>2. CASE ~init_done
  BY <1>0, <1>2, InitLeftBounds DEF SettleLeft
<1>3. CASE init_done /\ Calm
  BY <1>0, <1>1, <1>3 DEF SettleLeft
<1>4. CASE init_done /\ ~Calm
  <2>1. work_state \in {"IDLE", "AR", "TRFC"} BY <1>4 DEF Calm
  <2>2. work_state = "TRFC" => OpLeft <= TRFC + 1
    <3>1. cnt_clk \in 0..511 BY DEF CtrlInv, CtrlTypeOK
    <3>2. OpLeftTable BY OpLeftCases
    <3> QED BY <1>0, <3>1, <3>2 DEF OpLeftTable
  <2> QED BY <1>0, <1>1, <1>4, <2>1, <2>2 DEF SettleLeft
<1> QED BY <1>2, <1>3, <1>4

LEMMA SettleBoundsNext == (CtrlInv /\ InitCount => SettleRange)'
<1>1. CtrlInv /\ InitCount => SettleRange BY SettleBounds
<1> QED BY <1>1, PTL

LEMMA SettleStep ==
  ASSUME CtrlInv, CtrlInv', InitCount, InitCount', RefreshDeadline, QuickRefresh,
         NEW wr \in BOOLEAN, NEW rd \in BOOLEAN, CtrlTick(wr, rd)
  PROVE  /\ SettleLeft' \in Int
         /\ SettleLeft > 0 => SettleLeft' <= SettleLeft - 1
         /\ SettleLeft = 0 => SettleLeft' = 0
<1>0. /\ RefreshTime \in Nat /\ RefreshTime = TRFC + 3 /\ TRFC \in 0..511 /\ OpLeft \in Int
      /\ work_state \notin {"IDLE", "AR"} => OpLeft >= 1
      /\ work_state = "AR" => OpLeft = TRFC + 2
      /\ MaxOp \in Int /\ RefPeriod \in Nat /\ MaxOp + TRFC + 5 <= RefPeriod /\ TRFC + 2 <= MaxOp
  BY CtrlNumbers DEF RefreshTime, QuickRefresh
<1>1. /\ RefAge \in 0..(RefPeriod - 1) /\ RefAge' \in 0..(RefPeriod - 1)
      /\ cnt_15us = RefPeriod - 2 => RefAge = RefPeriod - 1 /\ RefAge' = 0 /\ ref_req'
      /\ cnt_15us # RefPeriod - 2 => RefAge' = RefAge + 1 /\ (ref_req' <=> ref_req /\ ~ref_ack)
  BY AgeStep DEF CtrlTick
<1>2. /\ RefreshTime' = RefreshTime /\ MaxOp' = MaxOp
  BY DEF RefreshTime, MaxOp, Larger, ReadTail, WriteTail
<1>3. /\ SettleLeft \in Int /\ 0 <= SettleLeft
      /\ SettleLeft = 0 <=> init_done /\ Calm
  BY SettleBounds DEF SettleRange
<1>4. /\ ~init_done' => InitLeft' \in Int
      /\ SettleLeft' \in Int /\ 0 <= SettleLeft'
      /\ SettleLeft' = 0 <=> init_done' /\ Calm'
      /\ init_done' => SettleLeft' <= RefreshTime
  <2>1. SettleRange' BY SettleBoundsNext
  <2> QED BY <1>2, <2>1 DEF SettleRange
<1>5. CASE ~init_done /\ ~init_done'
  <2>1. InitLeft \in Int /\ InitLeft >= 1 BY <1>5, InitLeftBounds
  <2>2. InitLeft' <= InitLeft - 1 BY <1>5, InitLeftStep
  <2>3. SettleLeft = InitLeft + RefreshTime BY <1>5 DEF SettleLeft
  <2>4. SettleLeft' = InitLeft' + RefreshTime BY <1>2, <1>5 DEF SettleLeft
  <2>5. InitLeft' \in Int BY <1>4, <1>5
  <2>6. \A a, b, r, x, y \in Int : b <= a - 1 /\ x = a + r /\ y = b + r => y <= x - 1 OBVIOUS
  <2>7. RefreshTime \in Int /\ SettleLeft \in Int /\ SettleLeft' \in Int BY <1>0, <1>3, <1>4
  <2>9. SettleLeft' <= SettleLeft - 1 BY <2>1, <2>2, <2>3, <2>4, <2>5, <2>6, <2>7
  <2>10. SettleLeft # 0 BY <1>0, <2>1, <2>3
  <2> QED BY <1>4, <2>9, <2>10
<1>6. CASE ~init_done /\ init_done'
  <2>1. InitLeft \in Int /\ InitLeft >= 1 BY <1>6, InitLeftBounds
  <2>3. SettleLeft = InitLeft + RefreshTime BY <1>6 DEF SettleLeft
  <2> QED BY <1>0, <1>4, <1>6, <2>1, <2>3
<1>7. CASE init_done /\ Calm
  BY <1>3, <1>4, <1>7, CalmStep, InitPhase DEF CtrlTick
<1>8. CASE init_done /\ ~Calm
  <2>0. init_done' BY <1>8, InitPhase DEF CtrlTick
  <2>1. CASE work_state = "IDLE"
    <3>1. ref_req BY <1>8, <2>1 DEF Calm
    <3>2. work_state' = "AR"
      BY <1>8, <2>1, <3>1 DEF CtrlTick, WorkFsm, GrantRefresh, GrantWrite, GrantRead,
                               StayIdle, RunOperation, Move
    <3>3. OpLeft' = TRFC + 2 BY <3>2, OpLeftCases DEF OpLeftTable
    <3>4. SettleLeft = RefreshTime BY <1>8, <2>1 DEF SettleLeft
    <3>5. SettleLeft' = 0 \/ SettleLeft' = OpLeft' BY <2>0, <3>2 DEF SettleLeft
    <3> QED BY <1>0, <1>4, <3>3, <3>4, <3>5
  <2>2. CASE work_state = "AR"
    <3>1. /\ work_state' = IF TRFC = 0 THEN "IDLE" ELSE "TRFC"
          /\ OpLeft' = IF TRFC = 0 THEN 0 ELSE TRFC + 1
      BY <1>8, <2>2, OpLeftFromRefresh
    <3>2. SettleLeft = TRFC + 2 BY <1>0, <1>8, <2>2 DEF SettleLeft
    <3>3. CASE TRFC = 0
      <4>1. ref_req' => RefAge' = 0 BY <1>1, <2>2 DEF ref_ack
      <4>2. Calm' BY <1>0, <1>2, <3>1, <3>3, <4>1 DEF Calm
      <4> QED BY <1>0, <1>4, <2>0, <3>2, <4>2
    <3>4. CASE TRFC # 0
      <4>1. SettleLeft' = 0 \/ SettleLeft' = TRFC + 1 BY <2>0, <3>1, <3>4 DEF SettleLeft
      <4> QED BY <1>0, <1>4, <3>2, <4>1
    <3> QED BY <3>3, <3>4
  <2>3. CASE work_state = "TRFC"
    <3>1. work_state' \in {"IDLE", "TRFC"} /\ OpLeft' = OpLeft - 1
      BY <1>8, <2>3, WorkStep, OpLeftStep
    <3>2. SettleLeft = OpLeft /\ OpLeft >= 1 BY <1>0, <1>8, <2>3 DEF SettleLeft
    <3>3. CASE work_state' = "TRFC"
      <4>1. SettleLeft' = 0 \/ SettleLeft' = OpLeft' BY <2>0, <3>3 DEF SettleLeft
      <4> QED BY <1>0, <1>4, <3>1, <3>2, <4>1
    <3>4. CASE work_state' = "IDLE"
      <4>1. ref_req' => RefAge' <= MaxOp
        <5>1. CASE cnt_15us = RefPeriod - 2 BY <1>0, <1>1, <5>1
        <5>2. CASE cnt_15us # RefPeriod - 2
          <6>1. ref_req => RefAge + OpLeft <= MaxOp BY <2>3 DEF RefreshDeadline
          <6> QED BY <1>0, <1>1, <3>2, <5>2, <6>1
        <5> QED BY <5>1, <5>2
      <4>2. Calm' BY <1>2, <3>4, <4>1 DEF Calm
      <4> QED BY <1>0, <1>3, <1>4, <2>0, <3>2, <4>2
    <3> QED BY <3>1, <3>3, <3>4
  <2>4. work_state \in {"IDLE", "AR", "TRFC"} BY <1>8 DEF Calm
  <2> QED BY <2>1, <2>2, <2>3, <2>4
<1> QED BY <1>5, <1>6, <1>7, <1>8

-----------------------------------------------------------------------------
(* The write FIFO: what it counts, and what the request tells.             *)
StoreSizes ==
  /\ TRCD = 2 /\ WrByte = VBurst /\ WrLevel = VBurst - 2
  /\ PopLag <= WrLevel /\ VBurst + PopLag < WrDepth
  /\ QuickRefresh /\ MaxOp + 3 <= ClearMin /\ SettleTime < ClearMin
  /\ VBurst + MaxWait + WrByte + 4 <= VBurst * CamMin
  /\ FieldWords < MaxPages * WrByte /\ FieldWords <= WrWordCap

StoreNumbers ==
  /\ TRCD = 2 /\ WrByte \in 5..256 /\ VBurst = WrByte /\ WrLevel = WrByte - 2
  /\ PopLag \in Nat \ {0} /\ PopLag <= WrLevel /\ WrDepth \in Nat /\ WrByte + PopLag < WrDepth
  /\ MaxOp \in Int /\ MaxWait \in Nat /\ SettleTime \in Int /\ ClearMin \in Nat
  /\ MaxOp + 3 <= ClearMin /\ SettleTime < ClearMin /\ 3 <= MaxOp
  /\ MaxPages \in Nat \ {0} /\ WrWordCap \in Nat /\ FieldWords \in Nat /\ FieldWords <= WrWordCap
  /\ VfDepth \in Nat /\ VBurst < VfDepth /\ VfLevel = VBurst - 2
  /\ CamMin \in Nat /\ 2 <= CamMin /\ CamMin <= CamMax /\ CamMax \in Nat
  /\ 1 <= FieldWords /\ DcntSize \in Nat /\ VBurst < DcntSize

LEMMA StoreNumbersHold ==
  ASSUME CameraSizes, StoreSizes
  PROVE  StoreNumbers /\ AckAssumption
<1>0. SettleTime \in Int
  BY LongestWaits, TimingAssumption DEF SettleTime, RefreshTime, TimingAssumption
<1>1. MaxOp \in Int /\ MaxWait \in Nat /\ 3 <= MaxOp
  <2>1. TRFC \in 0..511 /\ WrByte \in 1..256 BY TimingAssumption DEF TimingAssumption
  <2>2. MaxOp \in Int /\ TRFC + 2 <= MaxOp /\ Larger(1, TRCD) + WriteTail <= MaxOp
        /\ WriteTail \in Nat /\ Larger(1, TRCD) >= 1 /\ Larger(1, TRCD) \in Nat
    BY OperationSizes
  <2>3. WriteTail >= 3 BY <2>1, TimingAssumption DEF WriteTail, TimingAssumption
  <2>4. 3 <= MaxOp BY <2>2, <2>3
  <2> QED BY <2>1, <2>2, <2>4 DEF MaxWait, RefreshTime
<1>2. /\ VfLevel = VBurst - 2 /\ 5 <= VBurst /\ VBurst < VfDepth /\ 2 <= CamMin
      /\ LineWords <= FieldWords
  BY DEF CameraSizes
<1>3. /\ VfDepth \in Nat \ {0} /\ VBurst \in Nat \ {0} /\ DcntSize \in Nat
      /\ VBurst < DcntSize
      /\ CamMin \in Nat \ {0} /\ CamMax \in Nat /\ CamMin <= CamMax
      /\ LineWords \in Nat \ {0} /\ FieldWords \in Nat /\ ClearMin \in Nat \ {0}
  BY VideoConstantsHold DEF VideoConstants
<1>4. WrByte \in 1..256 /\ WrByte = VBurst BY TimingAssumption DEF TimingAssumption, StoreSizes
<1>5. /\ WrDepth \in Nat /\ PopLag \in Nat \ {0} /\ MaxPages \in Nat \ {0} /\ WrWordCap \in Nat
  BY WriteFifoAssumption DEF WriteFifoAssumption
<1>6. /\ TRCD = 2 /\ WrLevel = WrByte - 2 /\ PopLag <= WrLevel /\ WrByte + PopLag < WrDepth
      /\ MaxOp + 3 <= ClearMin /\ SettleTime < ClearMin /\ FieldWords <= WrWordCap
  BY <1>4 DEF StoreSizes
<1> QED BY <1>0, <1>1, <1>2, <1>3, <1>4, <1>5, <1>6 DEF StoreNumbers, AckAssumption

LEMMA UnseenPopsBounds ==
  /\ UnseenPops \in Nat /\ UnseenPops <= PopLag
  /\ (wrf_pops = NoPops => UnseenPops = 0)
<1>0. PopLag \in Nat /\ PopLag > 0 BY WriteFifoAssumption DEF WriteFifoAssumption
<1>1. IsFiniteSet(1..PopLag) /\ Cardinality(1..PopLag) = PopLag
  <2>1. 1 <= PopLag BY <1>0
  <2>2. PopLag - 1 + 1 = PopLag BY <1>0
  <2> QED BY <1>0, <2>1, <2>2, FS_Interval
<1>2. {k \in 1..PopLag : wrf_pops[k]} \subseteq 1..PopLag OBVIOUS
<1>3. /\ IsFiniteSet({k \in 1..PopLag : wrf_pops[k]})
      /\ Cardinality({k \in 1..PopLag : wrf_pops[k]}) <= Cardinality(1..PopLag)
  BY <1>1, <1>2, FS_Subset
<1>4. UnseenPops \in Nat BY <1>3, FS_CardinalityType DEF UnseenPops
<1>5. ASSUME wrf_pops = NoPops PROVE UnseenPops = 0
  <2>1. {k \in 1..PopLag : wrf_pops[k]} = {} BY <1>5 DEF NoPops
  <2> QED BY <2>1, FS_EmptySet DEF UnseenPops
<1> QED BY <1>1, <1>3, <1>4, <1>5 DEF UnseenPops

(* The usage is the words there and the pops not yet counted, less the last*)
(* push; so an empty FIFO raises no request, and a whole burst does.       *)
LEMMA RequestMeans ==
  ASSUME StoreNumbers, WrFifoTypeOK, (wrf_pushed => wrf_words >= 1)
  PROVE  /\ wrf_words = 0 => ~sdram_wr_req
         /\ wrf_words = WrByte => sdram_wr_req
<1>1. /\ UnseenPops \in Nat /\ UnseenPops <= PopLag /\ One(wrf_pushed) \in {0, 1}
      /\ WrDepth \in Nat /\ wrf_words \in 0..WrDepth /\ PopLag \in Nat
      /\ WrLevel = WrByte - 2 /\ PopLag <= WrLevel /\ WrByte + PopLag < WrDepth
      /\ WrByte \in Nat /\ WrByte >= 5
  BY UnseenPopsBounds DEF One, StoreNumbers, WrFifoTypeOK
<1>2. One(wrf_pushed) <= wrf_words BY <1>1 DEF One
<1>3. wrf_words <= WrByte => wrf_use = wrf_words + UnseenPops - One(wrf_pushed)
  <2> SUFFICES ASSUME wrf_words <= WrByte
               PROVE  wrf_use = wrf_words + UnseenPops - One(wrf_pushed)
    OBVIOUS
  <2>1. /\ wrf_words + UnseenPops - One(wrf_pushed) \in Nat
        /\ wrf_words + UnseenPops - One(wrf_pushed) < WrDepth
    BY <1>1, <1>2
  <2> QED BY <1>1, <2>1 DEF wrf_use
<1>4. wrf_words = 0 => wrf_use <= PopLag BY <1>1, <1>2, <1>3
<1>5. wrf_words = WrByte => wrf_use >= WrByte - 1 BY <1>1, <1>3
<1>6. wrf_words = 0 => ~sdram_wr_req
  <2>1. wrf_words = 0 => wrf_use \in Int BY <1>1, <1>3
  <2> QED BY <1>1, <1>4, <2>1 DEF sdram_wr_req
<1>7. wrf_words = WrByte => sdram_wr_req
  <2>1. wrf_words = WrByte => wrf_use \in Int BY <1>1, <1>3
  <2> QED BY <1>1, <1>5, <2>1 DEF sdram_wr_req
<1> QED BY <1>6, <1>7

LEMMA WrFifoTyped ==
  ASSUME WrFifoTypeOK, NEW ack \in BOOLEAN, NEW clr \in BOOLEAN, NEW push \in BOOLEAN,
         WrFifoTick(ack, clr, push)
  PROVE  WrFifoTypeOK'
<1>0. /\ WrDepth \in Nat \ {0} /\ PopLag \in Nat \ {0} /\ MaxPages \in Nat \ {0} /\ WrWordCap \in Nat
      /\ wrf_words \in 0..WrDepth /\ popped \in 0..WrWordCap /\ sys_wrabr \in 0..(MaxPages - 1)
      /\ wrf_pops \in [1..PopLag -> BOOLEAN]
  BY WriteFifoAssumption DEF WriteFifoAssumption, WrFifoTypeOK
<1>1. /\ sdwrackr1' \in BOOLEAN /\ sdwrackr2' \in BOOLEAN /\ wrf_clr_r' \in BOOLEAN
  BY DEF WrFifoTick, WrFifoTypeOK
<1>2. sys_wrabr' \in 0..(MaxPages - 1)
  <2>1. 0 \in 0..(MaxPages - 1) BY <1>0
  <2>2. (sys_wrabr + 1) % MaxPages \in 0..(MaxPages - 1) BY <1>0
  <2> QED BY <1>0, <2>1, <2>2 DEF WrFifoTick, WritePage
<1>3. CASE wrf_clr_r \/ wrf_clr_r'
  <2>1. wrf_words' = 0 /\ wrf_pops' = NoPops /\ wrf_pushed' = FALSE /\ popped' = 0
    BY <1>3 DEF WrFifoTick, WrFifo
  <2>2. 0 \in 0..WrDepth /\ 0 \in 0..WrWordCap BY <1>0
  <2>3. NoPops \in [1..PopLag -> BOOLEAN] BY DEF NoPops
  <2> QED BY <1>1, <1>2, <2>1, <2>2, <2>3 DEF WrFifoTypeOK
<1>4. CASE ~(wrf_clr_r \/ wrf_clr_r')
  <2> DEFINE in == push /\ wrf_words < WrDepth
             out == ack /\ wrf_words > 0
  <2>1. /\ wrf_words' = wrf_words + One(in) - One(out)
        /\ wrf_pops' = [k \in 1..PopLag |-> IF k = 1 THEN out ELSE wrf_pops[k - 1]]
        /\ wrf_pushed' = in
        /\ popped' = IF out /\ popped < WrWordCap THEN popped + 1 ELSE popped
    BY <1>4 DEF WrFifoTick, WrFifo
  <2>2. One(in) \in {0, 1} /\ One(out) \in {0, 1} /\ in \in BOOLEAN /\ out \in BOOLEAN
        /\ (One(in) = 1 => wrf_words < WrDepth) /\ (One(out) = 1 => wrf_words > 0)
    BY DEF One
  <2> HIDE DEF in, out
  <2>3. wrf_words' \in 0..WrDepth BY <1>0, <2>1, <2>2
  <2>4. popped' \in 0..WrWordCap BY <1>0, <2>1
  <2>5. wrf_pops' \in [1..PopLag -> BOOLEAN]
    <3>1. \A k \in 1..PopLag : k # 1 => k - 1 \in 1..PopLag BY <1>0
    <3>2. \A k \in 1..PopLag : (IF k = 1 THEN out ELSE wrf_pops[k - 1]) \in BOOLEAN
      BY <1>0, <2>2, <3>1
    <3> QED BY <2>1, <3>2
  <2> QED BY <1>1, <1>2, <2>1, <2>2, <2>3, <2>4, <2>5 DEF WrFifoTypeOK
<1> QED BY <1>3, <1>4

(* The acknowledge registers follow the burst.                             *)
WriteAckPipe ==
  /\ sdwrackr1 <=> work_state = "WRITE" \/ (work_state = "WD" /\ cnt_clk <= WrByte - 2)
  /\ sdwrackr2 <=> work_state = "WD"

LEMMA WriteAckPipeStep ==
  ASSUME CtrlInv, AckAssumption, WriteAckPipe,
         NEW wr \in BOOLEAN, NEW rd \in BOOLEAN, CtrlTick(wr, rd),
         sdwrackr1' = wr_ack, sdwrackr2' = sdwrackr1
  PROVE  WriteAckPipe'
<1>0. cnt_clk \in 0..511 /\ WrByte \in 2..256 /\ work_state \in W_States
  BY TimingAssumption DEF TimingAssumption, CtrlInv, CtrlTypeOK, AckAssumption
<1>1. CASE work_state = "WD"
  <2>1. init_done /\ DelayCounter BY <1>1, Shifts DEF CtrlTick
  <2>2. /\ work_state' = IF cnt_clk = WrByte - 1 THEN "TDAL" ELSE "WD"
        /\ cnt_clk' = IF cnt_clk = WrByte - 1 THEN 0 ELSE cnt_clk + 1
    BY <1>1, <2>1, DelayStep, WorkStep DEF end_twrite
  <2>3. cnt_clk <= WrByte - 1 /\ (wr_ack <=> cnt_clk < WrByte - 2)
    BY <1>1, AckWindow DEF CtrlInv, CounterInRange
  <2>4. sdwrackr1 <=> cnt_clk <= WrByte - 2 BY <1>1 DEF WriteAckPipe
  <2>5. CASE cnt_clk = WrByte - 1
    <3>1. work_state' = "TDAL" /\ ~wr_ack /\ ~sdwrackr1 BY <1>0, <2>2, <2>3, <2>4, <2>5
    <3> QED BY <3>1 DEF WriteAckPipe
  <2>6. CASE cnt_clk # WrByte - 1
    <3>1. work_state' = "WD" /\ cnt_clk' = cnt_clk + 1 /\ sdwrackr1
      BY <1>0, <2>2, <2>3, <2>4, <2>6
    <3>2. cnt_clk < WrByte - 2 <=> cnt_clk + 1 <= WrByte - 2 BY <1>0
    <3> QED BY <2>3, <3>1, <3>2 DEF WriteAckPipe
  <2> QED BY <2>5, <2>6
<1>2. CASE work_state = "WRITE"
  <2>1. init_done /\ DelayCounter BY <1>2, Shifts DEF CtrlTick
  <2>2. work_state' = "WD" /\ cnt_clk' = 0 BY <1>2, <2>1, DelayStep, WorkStep
  <2>3. wr_ack /\ sdwrackr1 /\ 0 <= WrByte - 2 BY <1>0, <1>2 DEF wr_ack, WriteAckPipe
  <2> QED BY <2>2, <2>3 DEF WriteAckPipe
<1>3. CASE work_state \notin {"WRITE", "WD"}
  <2>1. ~sdwrackr1 BY <1>3 DEF WriteAckPipe
  <2>2. work_state' # "WD"
    <3> SUFFICES ASSUME work_state' = "WD" PROVE FALSE
      OBVIOUS
    <3>1. RunOperation BY Shifts
    <3> QED BY <1>3, <3>1 DEF RunOperation, Move, Column
  <2>3. work_state' = "WRITE" <=> work_state = "TRCD" /\ ~sys_r_wn
    <3>1. CASE work_state = "IDLE" BY <3>1, Shifts
    <3>2. CASE work_state = "TRCD"
      <4>1. RunOperation BY <3>2, Shifts
      <4>2. cnt_clk = 1 BY <1>0, <3>2 DEF CtrlInv, CounterInRange, AckAssumption
      <4> QED BY <3>2, <4>1, <4>2 DEF RunOperation, Move, Column, end_trcd, AckAssumption
    <3>3. CASE work_state \notin {"IDLE", "TRCD"}
      <4>1. RunOperation BY <3>3, Shifts
      <4> QED BY <1>3, <3>3, <4>1 DEF RunOperation, Move, Column, AckAssumption
    <3> QED BY <3>1, <3>2, <3>3
  <2>4. wr_ack <=> work_state = "TRCD" /\ ~sys_r_wn BY <1>3 DEF wr_ack
  <2> QED BY <2>1, <2>2, <2>3, <2>4 DEF WriteAckPipe
<1> QED BY <1>1, <1>2, <1>3

(* The words of a burst reach the FIFO one a clock, one clock after the    *)
(* counter has counted them.                                               *)
PushPipe ==
  /\ dcnt >= 2 => wrf_wrreqr
  /\ dcnt = 1 => ~wrf_wrreqr
  /\ wrf_pushed => wrf_words >= 1

LEMMA PushPipeStep ==
  ASSUME VideoTyped, StoreNumbers, PushPipe, WrFifoTypeOK, BurstCounter, wrf_wrreqr' = vf_rdreq,
         NEW ack \in BOOLEAN, NEW push \in BOOLEAN, WrFifo(push, ack)
  PROVE  PushPipe'
<1>1. dcnt \in 0..(DcntSize - 1) /\ DcntSize \in Nat /\ 5 < DcntSize
  BY DEF VideoTyped, VideoTypeOK, StoreNumbers
<1>2. dcnt = 0 => dcnt' \in {0, 1}
  <2>1. 1 % DcntSize = 1 BY <1>1
  <2> QED BY <2>1 DEF BurstCounter
<1>3. dcnt # 0 => dcnt' # 1
  <2>1. dcnt # 0 => (dcnt + 1) % DcntSize # 1
    <3>1. CASE dcnt = DcntSize - 1
      <4>1. dcnt + 1 = DcntSize /\ DcntSize % DcntSize = 0 BY <1>1, <3>1
      <4> QED BY <4>1
    <3>2. CASE dcnt # DcntSize - 1
      <4>1. (dcnt + 1) % DcntSize = dcnt + 1 BY <1>1, <3>2
      <4> QED BY <1>1, <4>1
    <3> QED BY <3>1, <3>2
  <2>2. dcnt # 0 => dcnt + 1 # 1 BY <1>1
  <2> QED BY <2>1, <2>2 DEF BurstCounter
<1>4. wrf_wrreqr' <=> dcnt # 0 BY DEF vf_rdreq
<1>5. dcnt' >= 2 => wrf_wrreqr'
  <2>1. ~(0 >= 2) /\ ~(1 >= 2) OBVIOUS
  <2> QED BY <1>2, <1>4, <2>1
<1>6. dcnt' = 1 => ~wrf_wrreqr' BY <1>3, <1>4
<1>7. wrf_pushed' => wrf_words' >= 1
  <2>1. CASE wrf_clr_r \/ wrf_clr_r' BY <2>1 DEF WrFifo
  <2>2. CASE ~(wrf_clr_r \/ wrf_clr_r')
    <3> DEFINE in == push /\ wrf_words < WrDepth
               out == ack /\ wrf_words > 0
    <3>1. wrf_words' = wrf_words + One(in) - One(out) /\ wrf_pushed' = in
      BY <2>2 DEF WrFifo
    <3>2. One(in) \in {0, 1} /\ (in => One(in) = 1) /\ One(out) \in {0, 1}
          /\ (One(out) = 1 => wrf_words > 0) /\ wrf_words \in Nat
      BY DEF One, WrFifoTypeOK
    <3> HIDE DEF in, out
    <3>3. \A a, x, b \in Int : a = 1 /\ x >= 0 /\ b \in {0, 1} /\ (b = 1 => x > 0) => x + a - b >= 1
      OBVIOUS
    <3>4. wrf_words \in Int /\ wrf_words >= 0 /\ One(in) \in Int /\ One(out) \in Int BY <3>2
    <3>5. in => wrf_words + One(in) - One(out) >= 1 BY <3>2, <3>3, <3>4
    <3> QED BY <3>1, <3>5
  <2> QED BY <2>1, <2>2
<1> QED BY <1>5, <1>6, <1>7 DEF PushPipe

-----------------------------------------------------------------------------
(* The state the rest stands on.                                           *)
StoreBase ==
  /\ CtrlInv /\ AckCount /\ RefreshDeadline /\ InitCount
  /\ VideoTyped /\ VideoInv /\ WrFifoTypeOK /\ since \in 0..StoreTime

LEMMA RequestBoolean == sdram_wr_req \in BOOLEAN
BY DEF sdram_wr_req

LEMMA WrAckBoolean == wr_ack \in BOOLEAN
BY DEF wr_ack

LEMMA WrSteps ==
  ASSUME [WrNext]_wrVars
  PROVE  [CtrlNext]_ctrlVars
<1>1. ASSUME NEW rd \in BOOLEAN, NEW pulse \in BOOLEAN, NEW arrive \in BOOLEAN,
             WrTick(rd, pulse, arrive)
      PROVE  CtrlNext
  <2>1. CtrlTick(sdram_wr_req, rd) BY <1>1 DEF WrTick
  <2> QED BY <2>1, RequestBoolean DEF CtrlNext
<1>2. ASSUME NEW pulse \in BOOLEAN, NEW arrive \in BOOLEAN, WrReset(pulse, arrive)
      PROVE  CtrlNext
  BY <1>2 DEF WrReset, CtrlNext
<1>3. CASE UNCHANGED wrVars
  BY <1>3 DEF wrVars, ctrlVars
<1> QED BY <1>1, <1>2, <1>3 DEF WrNext, WrTicks, WrResets

LEMMA WrCtrl ==
  ASSUME AckAssumption
  PROVE  WrSpec => [](CtrlInv /\ AckCount /\ RefreshDeadline)
<1>1. WrInit => CtrlInit BY DEF WrInit
<1>2. WrSpec => CtrlSpec BY <1>1, WrSteps, PTL DEF WrSpec, CtrlSpec
<1> QED BY <1>2, AckInvariant, RefreshMeetsDeadline, PTL

WrOwn == InitCount /\ WrFifoTypeOK /\ since \in 0..StoreTime

LEMMA SinceTyped ==
  ASSUME since \in 0..StoreTime, Since
  PROVE  since' \in 0..StoreTime
<1>1. StoreTime \in Nat BY CameraAssumption DEF CameraAssumption
<1>2. 0 \in 0..StoreTime BY <1>1
<1>3. since < StoreTime => since + 1 \in 0..StoreTime BY <1>1
<1> QED BY <1>2, <1>3 DEF Since

LEMMA WrOwnInvariant ==
  ASSUME AckAssumption, CameraSizes
  PROVE  WrSpec => []WrOwn
<1>0. /\ WrDepth \in Nat \ {0} /\ PopLag \in Nat \ {0} /\ MaxPages \in Nat \ {0} /\ WrWordCap \in Nat
      /\ StoreTime \in Nat
  BY WriteFifoAssumption, CameraAssumption DEF WriteFifoAssumption, CameraAssumption
<1>1. /\ 0 \in 0..WrDepth /\ 0 \in 0..WrWordCap /\ 0 \in 0..(MaxPages - 1) /\ 0 \in 0..StoreTime
      /\ NoPops \in [1..PopLag -> BOOLEAN]
  BY <1>0 DEF NoPops
<1>2. WrInit => WrOwn
  <2> SUFFICES ASSUME WrInit PROVE WrOwn
    OBVIOUS
  <2>1. CtrlInit /\ WrFifoInit /\ since = 0 BY DEF WrInit
  <2>2. InitCount BY <2>1 DEF CtrlInit, InitCount, I_NOP, I_Wait
  <2>3. WrFifoTypeOK BY <1>1, <2>1 DEF WrFifoInit, WrFifoTypeOK
  <2> QED BY <1>1, <2>1, <2>2, <2>3 DEF WrOwn
<1>3. CtrlInv /\ VideoTyped /\ WrOwn /\ [WrNext]_wrVars => WrOwn'
  <2> SUFFICES ASSUME CtrlInv, VideoTyped, WrOwn, [WrNext]_wrVars PROVE WrOwn'
    OBVIOUS
  <2>1. ASSUME NEW rd \in BOOLEAN, NEW pulse \in BOOLEAN, NEW arrive \in BOOLEAN,
               WrTick(rd, pulse, arrive)
        PROVE  WrOwn'
    <3>1. CtrlTick(sdram_wr_req, rd) /\ Since BY <2>1 DEF WrTick
    <3>2. InitCount' BY <3>1, RequestBoolean, InitCountTick DEF WrOwn
    <3>3. PICK seen \in {vvsync, pulse} : WrFifoTick(wr_ack, seen, wrf_wrreqr)
      BY <2>1 DEF WrTick
    <3>4. seen \in BOOLEAN /\ wrf_wrreqr \in BOOLEAN BY <3>3 DEF VideoTyped, VideoTypeOK
    <3>5. WrFifoTypeOK' BY <3>3, <3>4, WrFifoTyped, WrAckBoolean DEF WrOwn
    <3>6. since' \in 0..StoreTime BY <3>1, SinceTyped DEF WrOwn
    <3> QED BY <3>2, <3>5, <3>6 DEF WrOwn
  <2>2. ASSUME NEW pulse \in BOOLEAN, NEW arrive \in BOOLEAN, WrReset(pulse, arrive)
        PROVE  WrOwn'
    <3>1. CtrlReset /\ WrFifoReset /\ Since BY <2>2 DEF WrReset
    <3>2. InitCount' BY <3>1 DEF CtrlReset, InitCount, I_NOP, I_Wait
    <3>3. WrFifoTypeOK' BY <1>1, <3>1 DEF WrFifoReset, WrFifoTypeOK
    <3>4. since' \in 0..StoreTime BY <3>1, SinceTyped DEF WrOwn
    <3> QED BY <3>2, <3>3, <3>4 DEF WrOwn
  <2>3. CASE UNCHANGED wrVars
    BY <2>3 DEF wrVars, ctrlVars, wrFifoVars, WrOwn, WrFifoTypeOK, InitCount
  <2> QED BY <2>1, <2>2, <2>3 DEF WrNext, WrTicks, WrResets
<1>4. WrSpec => [](VideoTyped /\ VideoInv) BY VideoInvariant
<1>5. WrSpec => [](CtrlInv /\ AckCount /\ RefreshDeadline) BY WrCtrl
<1> QED BY <1>2, <1>3, <1>4, <1>5, PTL DEF WrSpec

LEMMA StoreBaseInvariant ==
  ASSUME AckAssumption, CameraSizes
  PROVE  WrSpec => []StoreBase
<1>1. (CtrlInv /\ AckCount /\ RefreshDeadline) /\ (VideoTyped /\ VideoInv) /\ WrOwn => StoreBase
  BY DEF StoreBase, WrOwn
<1>4. WrSpec => [](VideoTyped /\ VideoInv) BY VideoInvariant
<1>5. WrSpec => [](CtrlInv /\ AckCount /\ RefreshDeadline) BY WrCtrl
<1>6. WrSpec => []WrOwn BY WrOwnInvariant
<1> QED BY <1>1, <1>4, <1>5, <1>6, PTL

LEMMA WrTickParts ==
  ASSUME StoreBase, NEW rd \in BOOLEAN, NEW pulse \in BOOLEAN, NEW arrive \in BOOLEAN,
         WrTick(rd, pulse, arrive)
  PROVE  /\ Camera(pulse, arrive) /\ CtrlTick(sdram_wr_req, rd) /\ Since
         /\ VideoStep(pulse, arrive) /\ SyncedCases(pulse)
         /\ vclr_r' \in {vvsync, pulse} /\ BurstCounter
         /\ wrf_wrreqr' = vf_rdreq /\ VideoFifo(arrive, vf_rdreq)
         /\ wrf_clr_r' \in {vvsync, pulse} /\ WritePage
         /\ sdwrackr1' = wr_ack /\ sdwrackr2' = sdwrackr1
         /\ WrFifo(wrf_wrreqr, wr_ack)
<1>1. VideoStep(pulse, arrive) BY DEF WrTick, VideoStep
<1>2. SyncedCases(pulse) BY <1>1, SyncedMoves DEF StoreBase
<1>3. PICK seen \in {vvsync, pulse} : WrFifoTick(wr_ack, seen, wrf_wrreqr)
  BY DEF WrTick
<1>4. PICK seen2 \in {vvsync, pulse} : VideoTick(seen2, arrive)
  BY DEF WrTick
<1>5. /\ wrf_clr_r' \in {vvsync, pulse} /\ WritePage
      /\ sdwrackr1' = wr_ack /\ sdwrackr2' = sdwrackr1
      /\ WrFifo(wrf_wrreqr, wr_ack)
  BY <1>3 DEF WrFifoTick
<1>6. /\ vclr_r' \in {vvsync, pulse} /\ BurstCounter
      /\ wrf_wrreqr' = vf_rdreq /\ VideoFifo(arrive, vf_rdreq)
  BY <1>4 DEF VideoTick
<1> QED BY <1>1, <1>2, <1>5, <1>6 DEF WrTick

(* Before the first whole pulse has passed, the controller has settled.    *)
SettleInv ==
  /\ (synced = "pulse" /\ SettleLeft > 0 => held + SettleLeft <= SettleTime + 1)
  /\ (synced = "yes" => SettleLeft = 0)

LEMMA SettleInvStep ==
  ASSUME StoreBase, StoreBase', StoreNumbers, QuickRefresh, SettleInv,
         NEW rd \in BOOLEAN, NEW pulse \in BOOLEAN, NEW arrive \in BOOLEAN,
         WrTick(rd, pulse, arrive)
  PROVE  SettleInv'
<1>1. Camera(pulse, arrive) /\ CtrlTick(sdram_wr_req, rd) /\ SyncedCases(pulse)
  BY WrTickParts
<1>2. /\ SettleLeft' \in Int
      /\ SettleLeft > 0 => SettleLeft' <= SettleLeft - 1
      /\ SettleLeft = 0 => SettleLeft' = 0
  BY <1>1, SettleStep, RequestBoolean DEF StoreBase
<1>3. SettleLeft \in Int /\ 0 <= SettleLeft /\ SettleLeft <= SettleTime
  BY SettleBounds DEF SettleRange, StoreBase
<1>4. SettleTime' = SettleTime
  BY DEF SettleTime, LongestWait, Larger, RefreshTime
<1>5. SettleLeft' <= SettleTime
  <2>1. \A a, b, t \in Int : (b > 0 => a <= b - 1) /\ (b = 0 => a = 0) /\ 0 <= b /\ b <= t => a <= t
    OBVIOUS
  <2>2. SettleTime \in Int BY DEF StoreNumbers
  <2> QED BY <1>2, <1>3, <2>1, <2>2
<1>6. /\ held \in Nat /\ ClearMin \in Nat /\ SettleTime \in Int /\ SettleTime < ClearMin
      /\ synced \in {"no", "pulse", "yes"} /\ vvsync \in BOOLEAN /\ (~vvsync => held = 0)
      /\ 3 <= ClearMin
  BY DEF StoreBase, VideoTyped, VideoInv, StoreNumbers
<1>7. /\ held' \in Nat /\ (pulse => held' <= held + 1)
      /\ vvsync /\ ~pulse => held >= ClearMin
  BY <1>1, <1>6 DEF Camera
<1>8. CASE synced = "no"
  <2>1. synced' = IF pulse /\ ~vvsync THEN "pulse" ELSE "no" BY <1>1, <1>8 DEF SyncedCases
  <2>2. pulse /\ ~vvsync => held' <= 1 BY <1>6, <1>7
  <2>3. pulse /\ ~vvsync => held' + SettleLeft' <= SettleTime + 1
    <3>1. \A a, b, t \in Int : a <= 1 /\ b <= t => a + b <= t + 1 OBVIOUS
    <3>2. held' \in Int /\ SettleTime \in Int BY <1>6, <1>7
    <3> QED BY <1>2, <1>5, <2>2, <3>1, <3>2
  <2> QED BY <1>4, <2>1, <2>3 DEF SettleInv
<1>9. CASE synced = "pulse"
  <2>1. vvsync BY <1>9 DEF StoreBase, VideoInv
  <2>2. synced' = IF ~pulse THEN "yes" ELSE "pulse" BY <1>1, <1>9, <2>1 DEF SyncedCases
  <2>3. SettleLeft > 0 => held + SettleLeft <= SettleTime + 1 BY <1>9 DEF SettleInv
  <2>4. CASE ~pulse
    <3>1. held >= ClearMin BY <1>7, <2>1, <2>4
    <3>2. SettleLeft = 0 BY <1>3, <1>6, <2>3, <3>1
    <3> QED BY <1>2, <2>2, <2>4, <3>2 DEF SettleInv
  <2>5. CASE pulse
    <3>1. SettleLeft' > 0 => held' + SettleLeft' <= SettleTime + 1
      <4>1. \A a, b, h, k, t \in Int :
               (b > 0 => a <= b - 1) /\ (b = 0 => a = 0) /\ 0 <= b /\ k <= h + 1
               /\ (b > 0 => h + b <= t + 1) => (a > 0 => k + a <= t + 1)
        OBVIOUS
      <4>2. held \in Int /\ held' \in Int BY <1>6, <1>7
      <4> QED BY <1>2, <1>3, <1>6, <1>7, <2>3, <2>5, <4>1, <4>2
    <3> QED BY <1>4, <2>2, <2>5, <3>1 DEF SettleInv
  <2> QED BY <2>4, <2>5
<1>10. CASE synced = "yes"
  <2>1. synced' = "yes" BY <1>1, <1>10 DEF SyncedCases
  <2> QED BY <1>2, <1>10, <2>1 DEF SettleInv
<1> QED BY <1>6, <1>8, <1>9, <1>10

-----------------------------------------------------------------------------
(* What is on its way into the FIFO, and the clear.                        *)
Coming == One(wrf_wrreqr) + (IF dcnt = 0 THEN 0 ELSE VBurst + 1 - dcnt)
Writing == Taking \/ work_state = "TDAL"

ClearInv ==
  /\ wrf_clr_r => wrf_words = 0 /\ popped = 0 /\ wrf_pops = NoPops /\ ~wrf_pushed
  /\ synced # "no" /\ vvsync /\ held >= 2 => wrf_clr_r
  /\ synced # "no" /\ ~vvsync /\ wrf_clr_r =>
       /\ fw = 0 /\ cgap = 1 /\ ~Writing /\ dcnt = 0 /\ ~wrf_wrreqr /\ vf_words = 0
  /\ synced # "no" /\ vvsync /\ Writing => held + OpLeft <= MaxOp + 2

LEMMA WritingBegins ==
  ASSUME CtrlInv, AckCount, AckAssumption,
         NEW wr \in BOOLEAN, NEW rd \in BOOLEAN, CtrlTick(wr, rd)
  PROVE  ~Writing /\ Writing' => wr
<1> SUFFICES ASSUME ~Writing, Writing', ~wr PROVE FALSE
  OBVIOUS
<1>1. ~Taking /\ work_state # "TDAL" BY DEF Writing
<1>2. ~Taking' BY <1>1, WriteMoves
<1>3. work_state' = "TDAL" BY <1>2 DEF Writing
<1>4. work_state # "IDLE" BY <1>3, Shifts
<1>5. RunOperation BY <1>4, Shifts
<1>6. work_state = "WD" BY <1>1, <1>3, <1>5 DEF RunOperation, Move, Column
<1>7. ~sys_r_wn BY <1>6 DEF CtrlInv, DirectionMatches
<1> QED BY <1>1, <1>6, <1>7 DEF Taking

(* An empty FIFO starts no write.                                          *)
LEMMA NoWriteWhenCleared ==
  ASSUME StoreBase, StoreNumbers, AckAssumption, PushPipe, ClearInv, wrf_clr_r, ~Writing,
         NEW rd \in BOOLEAN, CtrlTick(sdram_wr_req, rd)
  PROVE  ~Writing'
<1>1. ~sdram_wr_req BY RequestMeans DEF StoreBase, PushPipe, ClearInv
<1> QED BY <1>1, WritingBegins, RequestBoolean DEF StoreBase

(* A pulse is long enough for the burst it met to end; when it is over,    *)
(* nothing is under way.                                                   *)
LEMMA FieldStarts ==
  ASSUME StoreBase, StoreNumbers, AckAssumption, CameraSizes, PushPipe, ClearInv,
         synced # "no", vvsync, NEW arrive \in BOOLEAN, Camera(FALSE, arrive), BurstCounter,
         NEW rd \in BOOLEAN, CtrlTick(sdram_wr_req, rd)
  PROVE  /\ wrf_clr_r /\ ~Writing' /\ vclr_r /\ dcnt = 0 /\ dcnt' = 0
         /\ fw' = 0 /\ cgap' = 1
<1>1. vclr_r /\ dcnt = 0 /\ dcnt' = 0 /\ fw' = 0 /\ cgap' = 1
  BY PulseEnd DEF StoreBase
<1>2. /\ held \in Nat /\ ClearMin \in Nat /\ MaxOp \in Int /\ MaxOp + 3 <= ClearMin /\ 3 <= MaxOp
      /\ OpLeft \in Int
  BY OpLeftBounded DEF StoreBase, VideoTyped, StoreNumbers, OpLeftOK
<1>3. held >= ClearMin BY <1>2 DEF Camera
<1>4. wrf_clr_r BY <1>2, <1>3 DEF ClearInv
<1>5. ~Writing
  <2> SUFFICES ASSUME Writing PROVE FALSE
    OBVIOUS
  <2>1. held + OpLeft <= MaxOp + 2 BY DEF ClearInv
  <2>2. OpLeft >= 1
    <3>1. work_state \notin {"IDLE", "AR"} BY DEF Writing, Taking
    <3> QED BY <3>1, OpRuns DEF StoreBase
  <2> QED BY <1>2, <1>3, <2>1, <2>2
<1>6. ~Writing' BY <1>4, <1>5, NoWriteWhenCleared
<1> QED BY <1>1, <1>4, <1>6

LEMMA ClearInvStep ==
  ASSUME StoreBase, StoreBase', StoreNumbers, AckAssumption, CameraSizes, PushPipe, ClearInv,
         NEW rd \in BOOLEAN, NEW pulse \in BOOLEAN, NEW arrive \in BOOLEAN,
         WrTick(rd, pulse, arrive)
  PROVE  ClearInv'
<1>1. /\ Camera(pulse, arrive) /\ CtrlTick(sdram_wr_req, rd) /\ SyncedCases(pulse)
      /\ vclr_r' \in {vvsync, pulse} /\ BurstCounter
      /\ wrf_wrreqr' = vf_rdreq /\ VideoFifo(arrive, vf_rdreq)
      /\ wrf_clr_r' \in {vvsync, pulse} /\ WrFifo(wrf_wrreqr, wr_ack)
  BY WrTickParts
<1>2. /\ held \in Nat /\ ClearMin \in Nat /\ MaxOp \in Int /\ MaxOp + 3 <= ClearMin /\ 3 <= MaxOp
      /\ synced \in {"no", "pulse", "yes"} /\ vvsync \in BOOLEAN /\ (~vvsync => held = 0)
      /\ OpLeft \in Int /\ OpLeft <= MaxOp /\ OpLeft' \in Int /\ OpLeft' <= MaxOp
  <2>1. OpLeftOK' 
    <3>1. (CtrlInv => OpLeftOK)' BY OpLeftBounded, PTL
    <3> QED BY <3>1 DEF StoreBase
  <2>2. MaxOp' = MaxOp BY DEF MaxOp, Larger, ReadTail, WriteTail
  <2> QED BY <2>1, <2>2, OpLeftBounded DEF StoreBase, VideoTyped, VideoInv, StoreNumbers, OpLeftOK
<1>3. /\ held' \in Nat /\ (pulse => held' <= held + 1) /\ vvsync' = pulse
      /\ vvsync /\ ~pulse => held >= ClearMin
  BY <1>1, <1>2 DEF Camera
<1>4. wrf_clr_r' => wrf_words' = 0 /\ popped' = 0 /\ wrf_pops' = NoPops /\ ~wrf_pushed'
  BY <1>1 DEF WrFifo
<1>5. synced' # "no" /\ vvsync' /\ held' >= 2 => wrf_clr_r'
  <2> SUFFICES ASSUME pulse, held' >= 2 PROVE wrf_clr_r'
    BY <1>3
  <2>1. vvsync BY <1>2, <1>3
  <2> QED BY <1>1, <2>1
<1>6. synced' # "no" /\ ~vvsync' /\ wrf_clr_r' =>
       /\ fw' = 0 /\ cgap' = 1 /\ ~Writing' /\ dcnt' = 0 /\ ~wrf_wrreqr' /\ vf_words' = 0
  <2> SUFFICES ASSUME synced' # "no", ~pulse, wrf_clr_r'
               PROVE  /\ fw' = 0 /\ cgap' = 1 /\ ~Writing' /\ dcnt' = 0 /\ ~wrf_wrreqr'
                      /\ vf_words' = 0
    BY <1>3
  <2>1. vvsync BY <1>1
  <2>2. synced # "no" BY <1>1 DEF SyncedCases
  <2>3. Camera(FALSE, arrive) BY <1>1
  <2>4. /\ ~Writing' /\ vclr_r /\ dcnt = 0 /\ dcnt' = 0 /\ fw' = 0 /\ cgap' = 1
    BY <1>1, <2>1, <2>2, <2>3, FieldStarts
  <2>5. vf_words' = 0 BY <1>1, <2>4, Cleared
  <2>6. ~wrf_wrreqr' BY <1>1, <2>4 DEF vf_rdreq
  <2> QED BY <2>4, <2>5, <2>6
<1>7. synced' # "no" /\ vvsync' /\ Writing' => held' + OpLeft' <= MaxOp + 2
  <2> SUFFICES ASSUME synced' # "no", pulse, Writing'
               PROVE  held' + OpLeft' <= MaxOp + 2
    BY <1>3
  <2>0. \A h, o, m \in Int : h <= 2 /\ o <= m => h + o <= m + 2 OBVIOUS
  <2>1. CASE held' <= 2
    <3>1. held' \in Int BY <1>3
    <3> QED BY <1>2, <2>0, <2>1, <3>1
  <2>2. CASE ~(held' <= 2)
    <3>1. held >= 2 /\ vvsync BY <1>2, <1>3, <2>2
    <3>2. synced # "no" BY <1>1, <3>1 DEF SyncedCases
    <3>3. wrf_clr_r BY <3>1, <3>2 DEF ClearInv
    <3>4. Writing BY <1>1, <3>3, NoWriteWhenCleared
    <3>5. held + OpLeft <= MaxOp + 2 BY <3>1, <3>2, <3>4 DEF ClearInv
    <3>6. work_state \notin {"IDLE", "AR"} BY <3>4 DEF Writing, Taking
    <3>7. init_done BY <3>6 DEF StoreBase, CtrlInv, DirectionMatches
    <3>8. OpLeft' = OpLeft - 1 BY <1>1, <3>6, <3>7, OpLeftStep, RequestBoolean DEF StoreBase
    <3>9. \A h, k, o, p, m \in Int : k <= h + 1 /\ p = o - 1 /\ h + o <= m + 2 => k + p <= m + 2
      OBVIOUS
    <3>10. held \in Int /\ held' \in Int BY <1>2, <1>3
    <3> QED BY <1>2, <1>3, <3>5, <3>8, <3>9, <3>10
  <2> QED BY <2>1, <2>2
<1>8. MaxOp' = MaxOp /\ NoPops' = NoPops BY DEF MaxOp, Larger, ReadTail, WriteTail, NoPops
<1> QED BY <1>4, <1>5, <1>6, <1>7, <1>8 DEF ClearInv

-----------------------------------------------------------------------------
(* From the first whole pulse on, and outside of the clear, the stage is   *)
(* empty, holds or awaits a whole burst, or is being drained of one.       *)
InStage == synced = "yes" /\ ~wrf_clr_r

Empty == Left = 0 /\ wrf_words = 0 /\ Coming = 0
Filled == Left = 0 /\ wrf_words + Coming = VBurst
Drained == /\ Left > 0 /\ wrf_words + Coming = Left
           /\ Coming > 0 => wrf_words >= 1 /\ wrf_wrreqr

Shape == dcnt <= VBurst /\ (Empty \/ Filled \/ Drained)

LEMMA AckTakes ==
  ASSUME CtrlInv, AckCount, AckAssumption, wr_ack
  PROVE  Left > 0
<1>1. cnt_clk \in 0..511 /\ WrByte \in 2..256
  BY TimingAssumption DEF TimingAssumption, CtrlInv, CtrlTypeOK, AckAssumption
<1>2. \/ work_state = "TRCD" /\ ~sys_r_wn /\ acks = 0
      \/ work_state = "WRITE" /\ ~sys_r_wn /\ acks = 1
      \/ work_state = "WD" /\ ~sys_r_wn /\ cnt_clk < WrByte - 2
  BY AckWindow DEF wr_ack, CtrlInv, DirectionMatches, AckCount
<1>3. Left = WrByte - acks BY <1>2 DEF Left, Taking
<1>4. work_state = "WD" /\ cnt_clk < WrByte - 2 => acks = 2 + cnt_clk BY <1>1 DEF AckCount
<1> QED BY <1>1, <1>2, <1>3, <1>4

LEMMA ShapeNumbers ==
  ASSUME StoreBase, StoreNumbers, AckAssumption, Shape
  PROVE  /\ wrf_words \in Nat /\ Coming \in Nat /\ Left \in Nat /\ dcnt \in Nat
         /\ wrf_words + Coming <= VBurst /\ Left <= WrByte /\ One(wrf_wrreqr) <= Coming
         /\ wr_ack => wrf_words >= 1
         /\ wrf_wrreqr => wrf_words < WrDepth
<1>1. /\ wrf_words \in Nat /\ dcnt \in Nat /\ WrByte \in 5..256 /\ VBurst = WrByte
      /\ WrDepth \in Nat /\ PopLag \in Nat /\ WrByte + PopLag < WrDepth
  BY DEF StoreBase, WrFifoTypeOK, VideoTyped, VideoTypeOK, StoreNumbers
<1>2. Left \in 0..WrByte BY LeftTyped DEF StoreBase
<1>3. /\ One(wrf_wrreqr) \in {0, 1} /\ (wrf_wrreqr => One(wrf_wrreqr) = 1) /\ dcnt <= VBurst
  BY DEF One, Shape
<1>4. Coming \in Nat /\ One(wrf_wrreqr) <= Coming BY <1>1, <1>3 DEF Coming
<1>5. wrf_words + Coming <= VBurst BY <1>1, <1>2, <1>4 DEF Shape, Empty, Filled, Drained
<1>6. ASSUME wr_ack PROVE wrf_words >= 1
  <2>1. Left > 0 BY <1>6, AckTakes DEF StoreBase
  <2>2. Drained BY <1>2, <2>1 DEF Shape, Empty, Filled
  <2> QED BY <1>1, <1>4, <2>1, <2>2 DEF Drained
<1>7. wrf_wrreqr => wrf_words < WrDepth BY <1>1, <1>3, <1>4, <1>5
<1> QED BY <1>1, <1>2, <1>4, <1>5, <1>6, <1>7

LEMMA FifoInStage ==
  ASSUME StoreBase, StoreNumbers, AckAssumption, Shape, ~wrf_clr_r, ~wrf_clr_r',
         WrFifo(wrf_wrreqr, wr_ack)
  PROVE  /\ wrf_words' = wrf_words + One(wrf_wrreqr) - One(wr_ack)
         /\ popped' = IF wr_ack /\ popped < WrWordCap THEN popped + 1 ELSE popped
<1> DEFINE in == wrf_wrreqr /\ wrf_words < WrDepth
           out == wr_ack /\ wrf_words > 0
<1>1. /\ wrf_words' = wrf_words + One(in) - One(out)
      /\ popped' = IF out /\ popped < WrWordCap THEN popped + 1 ELSE popped
  BY DEF WrFifo
<1>2. in = wrf_wrreqr /\ out = wr_ack
  <2>1. wrf_wrreqr \in BOOLEAN BY DEF StoreBase, VideoTyped, VideoTypeOK
  <2>2. wrf_words \in Nat /\ (wr_ack => wrf_words >= 1) /\ (wrf_wrreqr => wrf_words < WrDepth)
    BY ShapeNumbers
  <2>3. wr_ack => wrf_words > 0 BY <2>2
  <2>4. in \in BOOLEAN /\ out \in BOOLEAN OBVIOUS
  <2>5. in <=> wrf_wrreqr BY <2>2
  <2>6. out <=> wr_ack BY <2>3
  <2> QED BY <2>1, <2>4, <2>5, <2>6, WrAckBoolean
<1> QED BY <1>1, <1>2

(* The burst counter in a field: a burst starts when all of it but its last*)
(* word has come, in the clock before, and the rest of the burst follows.  *)
Starts == dcnt = 0 /\ vf_words = VBurst - 1 /\ ~vf_popped /\ cgap = 1 /\ ~vclr_r

LEMMA CounterMoves ==
  ASSUME StoreBase, StoreNumbers, CameraSizes, synced = "yes", ~vvsync, BurstCounter
  PROVE  /\ dcnt \in Nat /\ dcnt <= VBurst
         /\ dcnt # 0 => dcnt' = IF dcnt < VBurst THEN dcnt + 1 ELSE 0
         /\ dcnt = 0 => dcnt' = 0 \/ (dcnt' = 1 /\ Starts)
<1>1. /\ dcnt \in Nat /\ vf_words \in Nat /\ VBurst \in Nat /\ VBurst >= 5 /\ VfLevel = VBurst - 2
  BY DEF StoreBase, VideoTyped, VideoTypeOK, StoreNumbers
<1>2. CASE vclr_r
  <2>1. dcnt = 0 BY <1>2 DEF StoreBase, VideoInv, LagOut
  <2>2. dcnt' = 0 BY <1>2, <2>1, ClearedCounter DEF StoreBase
  <2> QED BY <1>1, <2>1, <2>2
<1>3. CASE ~vclr_r
  <2>1. FieldInv /\ 1 <= cgap BY <1>3 DEF StoreBase, VideoInv
  <2>2. /\ dcnt = 0 => dcnt' = IF vf_words + Late = VfLevel + 1 THEN 1 ELSE 0
        /\ dcnt # 0 => dcnt' = IF dcnt < VBurst THEN dcnt + 1 ELSE 0
    BY <2>1, FieldCounter DEF StoreBase
  <2>3. dcnt <= VBurst BY <1>1, <2>1 DEF FieldInv, Running
  <2>4. dcnt = 0 /\ vf_words + Late = VfLevel + 1 => Starts
    <3>1. dcnt = 0 /\ vf_words + Late = VfLevel + 1 => ~vf_popped /\ cgap = 1
      BY <2>1 DEF FieldInv, Waiting
    <3> QED BY <1>1, <1>3, <3>1 DEF Starts, Late
  <2> QED BY <1>1, <2>2, <2>3, <2>4
<1> QED BY <1>2, <1>3

LEMMA ComingStep ==
  ASSUME StoreBase, StoreNumbers, CameraSizes, synced = "yes", ~vvsync, BurstCounter,
         wrf_wrreqr' = vf_rdreq
  PROVE  /\ dcnt' = 1 => dcnt = 0 /\ Starts /\ Coming = One(wrf_wrreqr) /\ Coming' = VBurst
         /\ dcnt' # 1 => Coming' = Coming - One(wrf_wrreqr)
         /\ dcnt' \in Nat /\ dcnt' <= VBurst
<1>1. /\ dcnt \in Nat /\ VBurst \in Nat /\ VBurst >= 5 /\ dcnt <= VBurst
      /\ dcnt # 0 => dcnt' = IF dcnt < VBurst THEN dcnt + 1 ELSE 0
      /\ dcnt = 0 => dcnt' = 0 \/ (dcnt' = 1 /\ Starts)
  BY CounterMoves DEF StoreNumbers
<1>2. One(wrf_wrreqr') = (IF dcnt = 0 THEN 0 ELSE 1) BY DEF One, vf_rdreq
<1>3. Coming' = (IF dcnt = 0 THEN 0 ELSE 1) + (IF dcnt' = 0 THEN 0 ELSE VBurst + 1 - dcnt')
  BY <1>2 DEF Coming
<1>4. One(wrf_wrreqr) \in {0, 1} BY DEF One
<1>5. CASE dcnt = 0 /\ dcnt' = 0
  <2>1. Coming' = 0 BY <1>3, <1>5
  <2>2. Coming = One(wrf_wrreqr) BY <1>4, <1>5 DEF Coming
  <2> QED BY <1>1, <1>4, <1>5, <2>1, <2>2
<1>6. CASE dcnt = 0 /\ dcnt' = 1 /\ Starts
  <2>1. Coming' = VBurst BY <1>1, <1>3, <1>6
  <2>2. Coming = One(wrf_wrreqr) BY <1>4, <1>6 DEF Coming
  <2> QED BY <1>1, <1>6, <2>1, <2>2
<1>7. CASE dcnt # 0 /\ dcnt < VBurst
  <2>1. dcnt' = dcnt + 1 BY <1>1, <1>7
  <2>2. Coming' = 1 + (VBurst + 1 - (dcnt + 1)) BY <1>1, <1>3, <1>7, <2>1
  <2>3. Coming = One(wrf_wrreqr) + (VBurst + 1 - dcnt) BY <1>7 DEF Coming
  <2>4. dcnt' # 1 /\ dcnt' \in Nat /\ dcnt' <= VBurst BY <1>1, <1>7, <2>1
  <2> QED BY <1>1, <1>4, <2>2, <2>3, <2>4
<1>8. CASE dcnt # 0 /\ ~(dcnt < VBurst)
  <2>1. dcnt' = 0 /\ dcnt = VBurst BY <1>1, <1>8
  <2>2. Coming' = 1 BY <1>3, <1>8, <2>1
  <2>3. Coming = One(wrf_wrreqr) + 1 BY <1>1, <1>4, <1>8, <2>1 DEF Coming
  <2> QED BY <1>1, <1>4, <2>1, <2>2, <2>3
<1> QED BY <1>1, <1>5, <1>6, <1>7, <1>8

(* A clock of the stage: a burst is started only when it is empty, and it  *)
(* is drained of a burst only when one is there or on its way.             *)
LEMMA ShapeStep ==
  ASSUME StoreBase, StoreBase', StoreNumbers, AckAssumption, CameraSizes, PushPipe, Shape,
         synced = "yes", ~vvsync, ~wrf_clr_r, ~wrf_clr_r', (dcnt' = 1 => Empty),
         NEW rd \in BOOLEAN, CtrlTick(sdram_wr_req, rd), BurstCounter,
         wrf_wrreqr' = vf_rdreq, WrFifo(wrf_wrreqr, wr_ack)
  PROVE  /\ Shape'
         /\ dcnt' = 1 => Filled' /\ Left' = 0
         /\ dcnt' # 1 /\ Empty => Empty'
         /\ dcnt' # 1 /\ Left > 0 => Empty' \/ Left' > 0
<1> DEFINE q == One(wrf_wrreqr)
           a == One(wr_ack)
<1>0. /\ wrf_words \in Nat /\ Coming \in Nat /\ Left \in Nat /\ dcnt \in Nat
      /\ wrf_words + Coming <= VBurst /\ Left <= WrByte /\ q <= Coming
      /\ wr_ack => wrf_words >= 1
      /\ VBurst \in Nat /\ WrByte = VBurst /\ 5 <= VBurst
  BY ShapeNumbers DEF StoreNumbers
<1>1. /\ q \in {0, 1} /\ (wrf_wrreqr => q = 1) /\ (q = 1 => wrf_wrreqr)
      /\ a \in {0, 1} /\ (wr_ack => a = 1) /\ (a = 1 => wr_ack)
  BY DEF One
<1>2. wrf_words' = wrf_words + q - a BY FifoInStage
<1>3. /\ dcnt' = 1 => dcnt = 0 /\ Coming = q /\ Coming' = VBurst
      /\ dcnt' # 1 => Coming' = Coming - q
      /\ dcnt' \in Nat /\ dcnt' <= VBurst
  BY ComingStep
<1>4. /\ wr_ack <=> Left > 0 /\ work_state # "ACTIVE"
      /\ wr_ack => Left' = Left - 1
      /\ Left > 0 /\ ~wr_ack => Left' = Left /\ Left = WrByte
      /\ Left = 0 => \/ Left' = 0
                     \/ Left' = WrByte /\ sdram_wr_req
  BY LeftStep, RequestBoolean DEF StoreBase
<1>5. /\ wrf_words = 0 => ~sdram_wr_req
  BY RequestMeans DEF StoreBase, PushPipe
<1>6. wrf_wrreqr' <=> dcnt # 0 BY DEF vf_rdreq
<1>7. VBurst' = VBurst /\ wrf_words' \in Nat BY DEF StoreBase, WrFifoTypeOK
<1>8. CASE dcnt' = 1
  <2>1. Left = 0 /\ wrf_words = 0 /\ Coming = 0 BY <1>8 DEF Empty
  <2>2. q = 0 /\ a = 0 BY <1>0, <1>1, <1>3, <1>4, <1>8, <2>1
  <2>3. wrf_words' = 0 /\ Coming' = VBurst BY <1>2, <1>3, <1>8, <2>1, <2>2
  <2>4. Left' = 0 BY <1>4, <1>5, <2>1
  <2>5. Filled' BY <1>0, <2>3, <2>4 DEF Filled
  <2> QED BY <1>3, <1>8, <2>4, <2>5 DEF Shape
<1>9. CASE dcnt' # 1
  <2>0. Coming' = Coming - q BY <1>3, <1>9
  <2>1. Coming' \in Nat
    <3>1. Coming - q \in Nat BY <1>0, <1>1
    <3> QED BY <2>0, <3>1
  <2>2. wrf_words' + Coming' = wrf_words + Coming - a
    <3>1. \A w, c, q2, a2, x, y \in Int : x = w + q2 - a2 /\ y = c - q2 => x + y = w + c - a2
      OBVIOUS
    <3>2. q \in Int /\ a \in Int BY <1>1
    <3> HIDE DEF q, a
    <3> QED BY <1>0, <1>2, <1>7, <2>0, <2>1, <3>1, <3>2
  <2>3. Coming' > 0 => wrf_wrreqr'
    <3>1. dcnt = 0 => Coming = q BY <1>1 DEF Coming
    <3>2. dcnt = 0 => Coming' = 0
      <4>1. Coming = q => Coming - q = 0 BY <1>0, <1>1
      <4> QED BY <2>0, <3>1, <4>1
    <3> QED BY <1>6, <3>2
  <2>4. CASE Empty
    <3>1. Left = 0 /\ wrf_words = 0 /\ Coming = 0 BY <2>4 DEF Empty
    <3>2. q = 0 /\ a = 0 BY <1>0, <1>1, <1>4, <3>1
    <3>3. wrf_words' = 0 /\ Coming' = 0 BY <1>2, <2>0, <3>1, <3>2
    <3>4. Left' = 0 BY <1>4, <1>5, <3>1
    <3> QED BY <1>0, <1>3, <1>9, <3>1, <3>3, <3>4 DEF Shape, Empty
  <2>5. CASE Filled
    <3>1. Left = 0 /\ wrf_words + Coming = VBurst /\ a = 0 BY <1>1, <1>4, <2>5 DEF Filled
    <3>2. wrf_words' + Coming' = VBurst BY <1>0, <2>2, <3>1
    <3>3. CASE Left' = 0
      BY <1>0, <1>3, <1>7, <1>9, <3>2, <3>1, <3>3 DEF Shape, Filled, Empty
    <3>4. CASE Left' = WrByte /\ sdram_wr_req
      <4>1. wrf_words >= 1 BY <1>0, <1>5, <3>4
      <4>2. wrf_words' >= 1
        <5>1. wrf_words + q - a >= 1 BY <1>0, <1>1, <3>1, <4>1
        <5> QED BY <1>2, <5>1
      <4>3. Left' > 0 /\ wrf_words' + Coming' = Left' BY <1>0, <3>2, <3>4
      <4>4. Drained' BY <2>3, <4>2, <4>3 DEF Drained
      <4>5. ~Empty
        <5>1. ~(wrf_words = 0) BY <1>0, <4>1
        <5> QED BY <5>1 DEF Empty
      <4> QED BY <1>0, <1>3, <1>9, <3>1, <4>4, <4>5 DEF Shape
    <3> QED BY <1>4, <3>1, <3>3, <3>4
  <2>6. CASE Drained
    <3>1. /\ Left > 0 /\ wrf_words + Coming = Left
          /\ Coming > 0 => wrf_words >= 1 /\ wrf_wrreqr
      BY <2>6 DEF Drained
    <3>2. wrf_words >= 1 BY <1>0, <3>1
    <3>3. Left' = Left - a
      <4>1. CASE wr_ack BY <1>1, <1>4, <4>1
      <4>2. CASE ~wr_ack
        <5>1. a = 0 BY <1>1, <4>2
        <5> QED BY <1>0, <1>4, <3>1, <4>2, <5>1
      <4> QED BY <4>1, <4>2
    <3>4. wrf_words' + Coming' = Left'
      <4>1. wrf_words + Coming - a = Left - a BY <1>0, <1>1, <3>1
      <4> QED BY <2>2, <3>3, <4>1
    <3>5. Coming' > 0 => wrf_words' >= 1
      <4>1. Coming - q > 0 => wrf_words + q - a >= 1 BY <1>0, <1>1, <3>1
      <4> QED BY <1>2, <2>0, <4>1
    <3>6. Left' \in Nat
      <4>1. Left - a \in Nat BY <1>0, <1>1, <3>1
      <4> QED BY <3>3, <4>1
    <3>7. CASE Left' > 0
      <4>1. Drained' BY <2>3, <3>4, <3>5, <3>7 DEF Drained
      <4>2. ~Empty BY <1>0, <3>1 DEF Empty
      <4> QED BY <1>3, <1>9, <3>7, <4>1, <4>2 DEF Shape
    <3>8. CASE Left' = 0
      <4>1. wrf_words' = 0 /\ Coming' = 0
        <5>1. \A x, y \in Nat : x + y = 0 => x = 0 /\ y = 0 OBVIOUS
        <5>2. wrf_words' + Coming' = 0 BY <3>4, <3>8
        <5> QED BY <1>7, <2>1, <5>1, <5>2
      <4> QED BY <1>3, <1>9, <3>8, <4>1 DEF Shape, Empty
    <3> QED BY <3>6, <3>7, <3>8
  <2> QED BY <2>4, <2>5, <2>6 DEF Shape
<1> QED BY <1>8, <1>9

-----------------------------------------------------------------------------
(* The race of a burst with the next one.  Until: the clocks before another*)
(* burst can start, at least, for the camera must send Missing words first.*)
Missing == IF dcnt = 0 THEN VBurst - 1 - vf_words ELSE VBurst - Spare
Lesser(a, b) == IF a < b THEN a ELSE b
Until == Missing * CamMin + 2 - Lesser(cgap, CamMin)

LEMMA VideoFifoMoves ==
  ASSUME StoreBase, StoreNumbers, CameraSizes, synced = "yes", ~vvsync,
         NEW pulse \in BOOLEAN, NEW arrive \in BOOLEAN, Camera(pulse, arrive),
         VideoFifo(arrive, vf_rdreq), ~vclr_r'
  PROVE  vf_words' = vf_words + One(arrive) - One(vf_rdreq)
<1>1. CASE ~vclr_r
  <2>1. FieldInv BY <1>1 DEF StoreBase, VideoInv
  <2>2. vf_words' = vf_words + (IF arrive THEN 1 ELSE 0) - (IF dcnt = 0 THEN 0 ELSE 1)
    BY <1>1, <2>1, FieldFifo DEF StoreBase
  <2> QED BY <2>2 DEF One, vf_rdreq
<1>2. CASE vclr_r
  <2>1. vf_words = 0 /\ dcnt = 0 /\ cgap = 1 BY <1>2 DEF StoreBase, VideoInv, LagOut
  <2>2. ~arrive
    <3>1. arrive => 2 <= cgap BY DEF Camera, MaySend, StoreNumbers, StoreBase, VideoTyped
    <3> QED BY <2>1, <3>1
  <2>3. vf_words' = 0 BY <1>2 DEF VideoFifo
  <2> QED BY <2>1, <2>2, <2>3 DEF One, vf_rdreq
<1> QED BY <1>1, <1>2

LEMMA UntilStep ==
  ASSUME StoreBase, StoreBase', StoreNumbers, CameraSizes, synced = "yes", ~vvsync,
         NEW arrive \in BOOLEAN, Camera(FALSE, arrive), BurstCounter,
         VideoFifo(arrive, vf_rdreq), ~vclr_r'
  PROVE  /\ Until \in Int /\ Until' \in Int
         /\ dcnt' # 1 => Until - 1 <= Until'
         /\ dcnt' = 1 => Until = 1 /\ Until' = VBurst * CamMin
<1>1. /\ dcnt \in Nat /\ vf_words \in Nat /\ VBurst \in Nat /\ VBurst >= 5 /\ dcnt <= VBurst
      /\ CamMin \in Nat /\ 2 <= CamMin /\ CamMin <= CamMax /\ CamMax \in Nat
      /\ cgap \in Nat /\ cgap <= CamMax /\ cgap' \in Nat /\ cgap' <= CamMax
      /\ vf_words' \in Nat /\ dcnt' \in Nat
      /\ dcnt # 0 => dcnt' = IF dcnt < VBurst THEN dcnt + 1 ELSE 0
      /\ dcnt = 0 => dcnt' = 0 \/ (dcnt' = 1 /\ Starts)
  BY CounterMoves DEF StoreNumbers, StoreBase, VideoTyped, VideoTypeOK
<1>2. /\ vf_words' = vf_words + One(arrive) - One(vf_rdreq)
      /\ One(vf_rdreq) = IF dcnt = 0 THEN 0 ELSE 1
      /\ One(arrive) = IF arrive THEN 1 ELSE 0
  BY VideoFifoMoves DEF One, vf_rdreq
<1>3. 1 <= cgap BY DEF StoreBase, VideoInv
<1>4. /\ arrive => CamMin <= cgap /\ cgap' = 1
      /\ ~arrive => cgap' = cgap + 1 \/ (cgap' = cgap /\ cgap = CamMax)
  BY <1>3, CameraInField DEF StoreBase
<1>5. PICK m \in Int : m = Missing
  <2>1. Missing \in Int BY <1>1 DEF Missing, Spare
  <2> QED BY <2>1
<1>6. Until = m * CamMin + 2 - Lesser(cgap, CamMin) BY <1>5 DEF Until
<1>7. m * CamMin \in Int BY <1>1
<1>8. Lesser(cgap, CamMin) \in Int /\ Lesser(cgap', CamMin) \in Int
      /\ Until' = Missing' * CamMin + 2 - Lesser(cgap', CamMin)
  BY <1>1 DEF Lesser, Until
<1>9. CASE dcnt' = 1
  <2>1. dcnt = 0 /\ vf_words = VBurst - 1 /\ cgap = 1 BY <1>1, <1>9 DEF Starts
  <2>2. m = 0 BY <1>1, <1>5, <2>1 DEF Missing
  <2>3. ~arrive BY <1>1, <1>4, <2>1
  <2>4. cgap' = 2 BY <1>1, <1>4, <2>1, <2>3
  <2>5. vf_words' = VBurst - 1 BY <1>1, <1>2, <2>1, <2>3
  <2>6. Missing' = VBurst - (vf_words' + dcnt' - VBurst) BY <1>9 DEF Missing, Spare
  <2>7. Missing' = VBurst BY <1>1, <1>9, <2>5, <2>6
  <2>8. Lesser(cgap, CamMin) = 1 /\ Lesser(cgap', CamMin) = 2
    BY <1>1, <2>1, <2>4 DEF Lesser
  <2>9. VBurst * CamMin \in Int BY <1>1
  <2>10. Until' = VBurst * CamMin + 2 - 2 BY <1>8, <2>7, <2>8
  <2>11. Until = 1 BY <1>1, <1>6, <2>2, <2>8
  <2> QED BY <1>9, <2>9, <2>10, <2>11
<1>10. CASE dcnt' # 1
  <2>1. Missing' = m - One(arrive)
    <3>0. vf_words' = vf_words + One(arrive) - (IF dcnt = 0 THEN 0 ELSE 1) /\ One(arrive) \in {0, 1}
      BY <1>2
    <3>1. CASE dcnt = 0
      <4>1. dcnt' = 0 BY <1>1, <1>10, <3>1
      <4>2. Missing' = VBurst - 1 - vf_words' BY <4>1 DEF Missing
      <4>3. m = VBurst - 1 - vf_words BY <1>5, <3>1 DEF Missing
      <4>4. vf_words' = vf_words + One(arrive) BY <1>1, <3>0, <3>1
      <4> QED BY <1>1, <3>0, <4>2, <4>3, <4>4
    <3>2. CASE dcnt # 0 /\ dcnt < VBurst
      <4>1. dcnt' = dcnt + 1 /\ dcnt' # 0 BY <1>1, <3>2
      <4>2. Missing' = VBurst - (vf_words' + dcnt' - VBurst) BY <4>1 DEF Missing, Spare
      <4>3. m = VBurst - (vf_words + dcnt - VBurst) BY <1>5, <3>2 DEF Missing, Spare
      <4>4. vf_words' = vf_words + One(arrive) - 1 BY <3>0, <3>2
      <4>5. Missing' = VBurst - ((vf_words + One(arrive) - 1) + (dcnt + 1) - VBurst)
        BY <4>1, <4>2, <4>4
      <4> QED BY <1>1, <3>0, <4>3, <4>5
    <3>3. CASE dcnt # 0 /\ ~(dcnt < VBurst)
      <4>1. dcnt' = 0 /\ dcnt = VBurst BY <1>1, <3>3
      <4>2. Missing' = VBurst - 1 - vf_words' BY <4>1 DEF Missing
      <4>3. m = VBurst - (vf_words + dcnt - VBurst) BY <1>5, <3>3 DEF Missing, Spare
      <4>4. vf_words' = vf_words + One(arrive) - 1 BY <3>0, <3>3
      <4>5. Missing' = VBurst - 1 - (vf_words + One(arrive) - 1) BY <4>2, <4>4
      <4> QED BY <1>1, <3>0, <4>1, <4>3, <4>5
    <3> QED BY <3>1, <3>2, <3>3
  <2>2. CASE ~arrive
    <3>1. Missing' = m BY <1>2, <2>1, <2>2
    <3>2. Until' = m * CamMin + 2 - Lesser(cgap', CamMin) BY <1>8, <3>1
    <3>3. Lesser(cgap', CamMin) <= Lesser(cgap, CamMin) + 1
      <4>1. \A x, y, c \in Int : y <= x + 1 => Lesser(y, c) <= Lesser(x, c) + 1 BY DEF Lesser
      <4>2. cgap' <= cgap + 1 BY <1>1, <1>4, <2>2
      <4> QED BY <1>1, <4>1, <4>2
    <3>4. \A p, l, k \in Int : k <= l + 1 => /\ p + 2 - k \in Int /\ p + 2 - l \in Int
                                             /\ (p + 2 - l) - 1 <= p + 2 - k
      OBVIOUS
    <3> QED BY <1>6, <1>7, <1>8, <1>10, <3>2, <3>3, <3>4
  <2>3. CASE arrive
    <3>1. Missing' = m - 1 BY <1>2, <2>1, <2>3
    <3>2. Until' = (m - 1) * CamMin + 2 - Lesser(cgap', CamMin) BY <1>8, <3>1
    <3>3. Lesser(cgap, CamMin) = CamMin /\ Lesser(cgap', CamMin) = 1
      <4>1. \A x, c \in Int : c <= x => Lesser(x, c) = c BY DEF Lesser
      <4>2. Lesser(1, CamMin) = 1 BY <1>1 DEF Lesser
      <4> QED BY <1>1, <1>4, <2>3, <4>1, <4>2
    <3>4. (m - 1) * CamMin = m * CamMin - CamMin
      <4>1. (m - 1) * CamMin + CamMin = ((m - 1) + 1) * CamMin BY <1>1, NextTimes
      <4>2. (m - 1) + 1 = m OBVIOUS
      <4>3. (m - 1) * CamMin \in Int BY <1>1
      <4> QED BY <1>1, <1>7, <4>1, <4>2, <4>3
    <3>5. Until' = m * CamMin - CamMin + 2 - 1 /\ Until = m * CamMin + 2 - CamMin
      BY <1>6, <3>2, <3>3, <3>4
    <3>6. \A p, c \in Int : /\ p - c + 2 - 1 \in Int /\ p + 2 - c \in Int
                            /\ (p + 2 - c) - 1 <= p - c + 2 - 1
      OBVIOUS
    <3> QED BY <1>1, <1>7, <1>10, <3>5, <3>6
  <2> QED BY <2>2, <2>3
<1> QED BY <1>9, <1>10

(* Need: the clocks until a burst that is there or on its way has been     *)
(* drained, at most.  While it is incomplete it is charged with the longest*)
(* wait; from then on the controller's own state says how long it is.      *)
Visible == IF dcnt # 0 THEN VBurst - dcnt + 2 ELSE One(wrf_wrreqr)
Need ==
  IF Left > 0 THEN (IF work_state = "ACTIVE" THEN WrByte + 1 ELSE Left)
  ELSE IF Visible = 0 THEN Wait + WrByte + 2
  ELSE Visible + MaxWait + WrByte + 2
MaxNeed == VBurst + 1 + MaxWait + WrByte + 2

NeedRange ==
  /\ Need \in Int /\ 1 <= Need /\ Need <= MaxNeed /\ MaxNeed \in Int
  /\ dcnt # 1 => Need + 1 <= MaxNeed

LEMMA NeedBounds ==
  ASSUME StoreBase, StoreNumbers, AckAssumption, Shape
  PROVE  NeedRange
<1> USE DEF NeedRange
<1>1. /\ Left \in Nat /\ Left <= WrByte /\ dcnt \in Nat /\ dcnt <= VBurst
      /\ WrByte \in Nat /\ 5 <= WrByte /\ VBurst = WrByte /\ MaxWait \in Nat
  BY ShapeNumbers DEF StoreNumbers, Shape
<1>2. Wait \in Int /\ 0 <= Wait /\ Wait <= MaxWait BY WaitBounded DEF StoreBase
<1>3. /\ Visible \in Int /\ 0 <= Visible /\ Visible <= VBurst + 1
      /\ dcnt # 1 => Visible <= VBurst
  <2>1. One(wrf_wrreqr) \in {0, 1} BY DEF One
  <2> QED BY <1>1, <2>1 DEF Visible
<1>4. CASE Left > 0 BY <1>1, <1>4 DEF Need, MaxNeed
<1>5. CASE ~(Left > 0) BY <1>1, <1>2, <1>3, <1>5 DEF Need, MaxNeed
<1> QED BY <1>4, <1>5

LEMMA NeedBoundsAfter ==
  (StoreNumbers /\ AckAssumption /\ StoreBase /\ Shape => NeedRange)'
<1>1. StoreNumbers /\ AckAssumption /\ StoreBase /\ Shape => NeedRange BY NeedBounds
<1> QED BY <1>1, PTL

LEMMA NeedBoundsNext ==
  ASSUME StoreNumbers, AckAssumption, StoreBase', Shape'
  PROVE  NeedRange'
<1>1. StoreNumbers' /\ AckAssumption'
  BY DEF StoreNumbers, AckAssumption, MaxOp, MaxWait, SettleTime, LongestWait, RefreshTime,
         Larger, ReadTail, WriteTail
<1> QED BY <1>1, NeedBoundsAfter

LEMMA GrantTaken ==
  ASSUME CtrlInv, init_done, work_state = "IDLE", ~ref_req,
         NEW rd \in BOOLEAN, CtrlTick(TRUE, rd)
  PROVE  Left' = WrByte
<1>1. work_state' = "ACTIVE" /\ ~sys_r_wn'
  BY DEF CtrlTick, WorkFsm, GrantRefresh, GrantWrite, GrantRead, StayIdle, RunOperation, Move
<1>2. acks' = 0 BY DEF CtrlTick, CountAcks
<1>3. WrByte \in Nat BY TimingAssumption DEF TimingAssumption
<1> QED BY <1>1, <1>2, <1>3 DEF Left, Taking

LEMMA WaitBoundedNext == (CtrlInv => Wait \in Int /\ 0 <= Wait /\ Wait <= MaxWait)'
<1>1. CtrlInv => Wait \in Int /\ 0 <= Wait /\ Wait <= MaxWait BY WaitBounded
<1> QED BY <1>1, PTL

LEMMA NeedStep ==
  ASSUME StoreBase, StoreBase', StoreNumbers, AckAssumption, CameraSizes, QuickRefresh, PushPipe,
         Shape, ~Empty, ~Empty', (Left > 0 => Left' > 0), synced = "yes", SettleLeft = 0, ~vvsync,
         dcnt' # 1,
         NEW rd \in BOOLEAN, CtrlTick(sdram_wr_req, rd), BurstCounter, wrf_wrreqr' = vf_rdreq
  PROVE  Need' <= Need - 1
<1>0. /\ Left \in Nat /\ Left <= WrByte /\ dcnt \in Nat /\ dcnt <= VBurst
      /\ WrByte \in Nat /\ 5 <= WrByte /\ VBurst = WrByte /\ MaxWait \in Nat
      /\ wrf_words \in Nat /\ Coming \in Nat
  BY ShapeNumbers DEF StoreNumbers, Shape
<1>1. init_done /\ Calm BY SettleBounds DEF SettleRange, StoreBase
<1>2. /\ wr_ack <=> Left > 0 /\ work_state # "ACTIVE"
      /\ wr_ack => Left' = Left - 1
      /\ Left > 0 /\ ~wr_ack => Left' = Left /\ Left = WrByte
      /\ Left > 0 => work_state' # "ACTIVE"
      /\ Left = 0 => \/ Left' = 0
                     \/ Left' = WrByte /\ work_state' = "ACTIVE"
  BY LeftStep, RequestBoolean DEF StoreBase
<1>3. Wait \in Int /\ 0 <= Wait /\ Wait <= MaxWait BY WaitBounded DEF StoreBase
<1>4. Wait' \in Int /\ Wait' <= MaxWait
  <2>1. (CtrlInv => Wait \in Int /\ 0 <= Wait /\ Wait <= MaxWait)' BY WaitBoundedNext
  <2>2. MaxWait' = MaxWait BY DEF MaxWait, MaxOp, RefreshTime, Larger, ReadTail, WriteTail
  <2> QED BY <2>1, <2>2 DEF StoreBase
<1>5. /\ dcnt # 0 => dcnt' = IF dcnt < VBurst THEN dcnt + 1 ELSE 0
      /\ dcnt = 0 => dcnt' = 0
      /\ wrf_wrreqr' <=> dcnt # 0
  BY CounterMoves DEF vf_rdreq
<1>6. CASE Left > 0
  <2>1. Left' > 0 /\ work_state' # "ACTIVE" BY <1>2, <1>6
  <2>2. Need' = Left' BY <2>1 DEF Need
  <2>3. CASE work_state = "ACTIVE"
    <3>1. Need = WrByte + 1 BY <1>6, <2>3 DEF Need
    <3>2. Left' = WrByte BY <1>2, <1>6, <2>3
    <3> QED BY <1>0, <2>2, <3>1, <3>2
  <2>4. CASE work_state # "ACTIVE"
    <3>1. Need = Left BY <1>6, <2>4 DEF Need
    <3>2. Left' = Left - 1 BY <1>2, <1>6, <2>4
    <3> QED BY <1>0, <2>2, <3>1, <3>2
  <2> QED BY <2>3, <2>4
<1>7. Visible \in Nat /\ Visible' \in Int
  <2>1. One(wrf_wrreqr) \in {0, 1} /\ One(wrf_wrreqr') \in {0, 1} BY DEF One
  <2>2. dcnt' \in Nat /\ dcnt' <= VBurst BY <1>0, <1>5
  <2> QED BY <1>0, <2>1, <2>2 DEF Visible
<1>8. CASE Left = 0 /\ Left' = WrByte /\ work_state' = "ACTIVE"
  <2>1. Need' = WrByte + 1 BY <1>0, <1>8 DEF Need
  <2>2. Need >= WrByte + 2 BY <1>0, <1>3, <1>7, <1>8 DEF Need
  <2>3. Need \in Int BY <1>0, <1>3, <1>7, <1>8 DEF Need
  <2> QED BY <1>0, <2>1, <2>2, <2>3
<1>9. CASE Left = 0 /\ Left' = 0
  <2>1. Need = IF Visible = 0 THEN Wait + WrByte + 2 ELSE Visible + MaxWait + WrByte + 2
    BY <1>9 DEF Need
  <2>2. Need' = IF Visible' = 0 THEN Wait' + WrByte + 2 ELSE Visible' + MaxWait + WrByte + 2
    <3>1. MaxWait' = MaxWait BY DEF MaxWait, MaxOp, RefreshTime, Larger, ReadTail, WriteTail
    <3> QED BY <1>9, <3>1 DEF Need
  <2>3. CASE dcnt = 0 /\ ~wrf_wrreqr
    <3>1. Visible = 0 /\ Coming = 0 BY <2>3 DEF Visible, Coming, One
    <3>2. Visible' = 0 BY <1>5, <2>3 DEF Visible, One
    <3>3. wrf_words = WrByte
      <4>1. Filled BY <1>9 DEF Shape, Drained
      <4> QED BY <1>0, <3>1, <4>1 DEF Filled
    <3>4. sdram_wr_req BY <3>3, RequestMeans DEF StoreBase, PushPipe
    <3>5. work_state # "IDLE" \/ ref_req
      <4> SUFFICES ASSUME work_state = "IDLE", ~ref_req PROVE FALSE
        OBVIOUS
      <4>1. CtrlTick(TRUE, rd)
        <5>1. sdram_wr_req = TRUE BY <3>4, RequestBoolean
        <5> QED BY <5>1
      <4>2. Left' = WrByte BY <1>1, <4>1, GrantTaken DEF StoreBase
      <4> QED BY <1>0, <1>9, <4>2
    <3>6. Wait' <= Wait - 1 BY <1>1, <3>5, WaitShorter, RequestBoolean DEF StoreBase
    <3>7. \A x, y, b \in Int : x <= y - 1 => x + b + 2 <= (y + b + 2) - 1 OBVIOUS
    <3>8. Need = Wait + WrByte + 2 /\ Need' = Wait' + WrByte + 2 BY <2>1, <2>2, <3>1, <3>2
    <3>9. WrByte \in Int BY <1>0
    <3>10. Wait' + WrByte + 2 <= (Wait + WrByte + 2) - 1 BY <1>3, <1>4, <3>6, <3>7, <3>9
    <3> QED BY <3>8, <3>10
  <2>4. CASE dcnt = 0 /\ wrf_wrreqr
    <3>1. Visible = 1 BY <2>4 DEF Visible, One
    <3>2. Visible' = 0 BY <1>5, <2>4 DEF Visible, One
    <3>3. \A x, y, b \in Int : x <= y => x + b + 2 <= (1 + y + b + 2) - 1 OBVIOUS
    <3>8. Need = 1 + MaxWait + WrByte + 2 /\ Need' = Wait' + WrByte + 2
      BY <2>1, <2>2, <3>1, <3>2
    <3>9. WrByte \in Int /\ MaxWait \in Int BY <1>0
    <3>10. Wait' + WrByte + 2 <= (1 + MaxWait + WrByte + 2) - 1 BY <1>4, <3>3, <3>9
    <3> QED BY <3>8, <3>10
  <2>5. CASE dcnt # 0
    <3>1. Visible = VBurst - dcnt + 2 BY <2>5 DEF Visible
    <3>2. Visible' = Visible - 1
      <4>1. CASE dcnt < VBurst
        <5>1. dcnt' = dcnt + 1 /\ dcnt' # 0 BY <1>0, <1>5, <2>5, <4>1
        <5>2. Visible' = VBurst - (dcnt + 1) + 2 BY <5>1 DEF Visible
        <5> QED BY <1>0, <3>1, <5>2
      <4>2. CASE ~(dcnt < VBurst)
        <5>1. dcnt' = 0 /\ dcnt = VBurst /\ wrf_wrreqr' BY <1>0, <1>5, <2>5, <4>2
        <5>2. Visible' = 1 BY <5>1 DEF Visible, One
        <5> QED BY <1>0, <3>1, <5>1, <5>2
      <4> QED BY <4>1, <4>2
    <3>3. Visible # 0 /\ Visible' # 0
      <4>1. VBurst - dcnt + 2 >= 2 BY <1>0
      <4>2. Visible - 1 # 0 BY <1>0, <3>1, <4>1
      <4> QED BY <1>0, <3>1, <3>2, <4>1, <4>2
    <3>4. \A x, v, w, b \in Int : v = x - 1 => v + w + b + 2 <= (x + w + b + 2) - 1 OBVIOUS
    <3> QED BY <1>0, <1>7, <2>1, <2>2, <3>2, <3>3, <3>4
  <2> QED BY <2>3, <2>4, <2>5
<1> QED BY <1>0, <1>2, <1>6, <1>8, <1>9

-----------------------------------------------------------------------------
(* The page counter and the words of the field.                            *)
PagesMatch == popped = sys_wrabr * WrByte + (IF Taking THEN acks ELSE 0)
Counted == ~vvsync => popped + wrf_words + One(wrf_wrreqr) + vf_words = fw

LEMMA PoppedStep ==
  ASSUME StoreBase, StoreNumbers, AckAssumption, Shape, Counted, ~vvsync, ~wrf_clr_r, ~wrf_clr_r',
         WrFifo(wrf_wrreqr, wr_ack)
  PROVE  /\ popped \in Nat /\ popped <= FieldWords
         /\ popped' = popped + One(wr_ack)
<1>0. /\ popped \in Nat /\ wrf_words \in Nat /\ vf_words \in Nat /\ fw \in Nat /\ fw <= FieldWords
      /\ FieldWords \in Nat /\ WrWordCap \in Nat /\ FieldWords <= WrWordCap
      /\ One(wrf_wrreqr) \in {0, 1}
  BY DEF StoreBase, WrFifoTypeOK, VideoTyped, VideoTypeOK, StoreNumbers, One
<1>1. popped + wrf_words + One(wrf_wrreqr) + vf_words = fw BY DEF Counted
<1>2. popped + wrf_words <= FieldWords BY <1>0, <1>1
<1>3. wr_ack => popped < WrWordCap
  <2>1. wr_ack => wrf_words >= 1 BY ShapeNumbers
  <2> QED BY <1>0, <1>2, <2>1
<1>4. popped' = IF wr_ack /\ popped < WrWordCap THEN popped + 1 ELSE popped BY FifoInStage
<1> QED BY <1>0, <1>2, <1>3, <1>4 DEF One

LEMMA PagesMatchStep ==
  ASSUME StoreBase, StoreNumbers, AckAssumption, FieldWords < MaxPages * WrByte,
         WriteAckPipe, Shape, Counted, PagesMatch, ~vvsync, ~wrf_clr_r, ~wrf_clr_r',
         NEW rd \in BOOLEAN, CtrlTick(sdram_wr_req, rd), WritePage, WrFifo(wrf_wrreqr, wr_ack)
  PROVE  PagesMatch'
<1>0. /\ popped \in Nat /\ popped <= FieldWords /\ popped' = popped + One(wr_ack)
      /\ FieldWords \in Nat /\ MaxPages \in Nat \ {0} /\ WrByte \in Nat /\ acks \in Nat
      /\ sys_wrabr \in 0..(MaxPages - 1) /\ cnt_clk \in 0..511 /\ 5 <= WrByte
      /\ sys_wrabr * WrByte \in Nat
  <2>1. /\ sys_wrabr \in Nat /\ WrByte \in Nat
    BY DEF StoreBase, WrFifoTypeOK, StoreNumbers
  <2> QED BY <2>1, PoppedStep, ProductNat DEF StoreNumbers, StoreBase, WrFifoTypeOK, CtrlInv, CtrlTypeOK
<1>1. /\ wr_ack => Taking /\ acks' = acks + 1 /\ Taking'
      /\ Taking /\ ~wr_ack => acks' = acks
      /\ ~Taking /\ Taking' => acks' = 0
      /\ Taking /\ ~Taking' => work_state = "WD" /\ cnt_clk = WrByte - 1 /\ acks = WrByte
  BY WriteMoves, RequestBoolean DEF StoreBase
<1>2. popped = sys_wrabr * WrByte + (IF Taking THEN acks ELSE 0) BY DEF PagesMatch
<1>3. neg_sdwrack <=> work_state = "WD" /\ cnt_clk = WrByte - 1
  <2>1. work_state = "WD" => cnt_clk <= WrByte - 1 BY DEF StoreBase, CtrlInv, CounterInRange
  <2>2. cnt_clk <= WrByte - 1 => (~(cnt_clk <= WrByte - 2) <=> cnt_clk = WrByte - 1) BY <1>0
  <2>3. neg_sdwrack <=> work_state = "WD" /\ ~(cnt_clk <= WrByte - 2)
    BY DEF neg_sdwrack, WriteAckPipe
  <2> QED BY <2>1, <2>2, <2>3
<1>4. CASE neg_sdwrack
  <2>1. work_state = "WD" /\ cnt_clk = WrByte - 1 BY <1>3, <1>4
  <2>2. Taking /\ acks = WrByte
    <3>1. ~(cnt_clk <= WrByte - 2) BY <1>0, <2>1
    <3> QED BY <2>1, <3>1 DEF Taking, StoreBase, CtrlInv, DirectionMatches, AckCount
  <2>3. init_done BY <2>1 DEF StoreBase, CtrlInv, DirectionMatches
  <2>4. work_state' = "TDAL" BY <2>1, <2>3, WorkStep, RequestBoolean DEF StoreBase, end_twrite
  <2>5. ~Taking' /\ ~wr_ack BY <1>1, <2>4 DEF Taking
  <2>6. popped' = sys_wrabr * WrByte + WrByte BY <1>0, <1>2, <2>2, <2>5 DEF One
  <2>7. popped' <= FieldWords BY <1>0, <2>5 DEF One
  <2>8. (sys_wrabr + 1) * WrByte = sys_wrabr * WrByte + WrByte BY <1>0, NextTimes
  <2>9. sys_wrabr + 1 # MaxPages
    <3> SUFFICES ASSUME sys_wrabr + 1 = MaxPages PROVE FALSE
      OBVIOUS
    <3>1. popped' = MaxPages * WrByte BY <2>6, <2>8
    <3>2. MaxPages * WrByte \in Nat BY <1>0, ProductNat
    <3> QED BY <1>0, <2>7, <3>1, <3>2
  <2>10. (sys_wrabr + 1) % MaxPages = sys_wrabr + 1 BY <1>0, <2>9
  <2>11. sys_wrabr' = sys_wrabr + 1 BY <1>4, <2>10 DEF WritePage
  <2>12. sys_wrabr' * WrByte + 0 = popped' BY <1>0, <2>6, <2>8, <2>11
  <2> QED BY <2>5, <2>12 DEF PagesMatch
<1>5. CASE ~neg_sdwrack
  <2>1. sys_wrabr' = sys_wrabr BY <1>5 DEF WritePage
  <2>2. Taking => Taking' BY <1>1, <1>3, <1>5
  <2>3. PagesMatch' <=> popped' = sys_wrabr * WrByte + (IF Taking' THEN acks' ELSE 0)
    BY <2>1 DEF PagesMatch
  <2>4. CASE wr_ack BY <1>0, <1>1, <1>2, <2>3, <2>4 DEF One
  <2>5. CASE ~wr_ack
    <3>1. popped' = popped BY <1>0, <2>5 DEF One
    <3>2. (IF Taking' THEN acks' ELSE 0) = (IF Taking THEN acks ELSE 0) BY <1>1, <2>2, <2>5
    <3> QED BY <1>2, <2>3, <3>1, <3>2
  <2> QED BY <2>4, <2>5
<1> QED BY <1>4, <1>5

LEMMA CountedNext ==
  ASSUME StoreBase, StoreNumbers, AckAssumption, CameraSizes, Shape, Counted, synced = "yes",
         ~vvsync, ~wrf_clr_r, ~wrf_clr_r', ~vclr_r', NEW arrive \in BOOLEAN,
         Camera(FALSE, arrive), VideoFifo(arrive, vf_rdreq), wrf_wrreqr' = vf_rdreq,
         WrFifo(wrf_wrreqr, wr_ack)
  PROVE  Counted'
<1>0. /\ popped \in Nat /\ wrf_words \in Nat /\ vf_words \in Nat /\ fw \in Nat
      /\ One(wrf_wrreqr) \in {0, 1} /\ One(wr_ack) \in {0, 1} /\ One(arrive) \in {0, 1}
      /\ One(vf_rdreq) \in {0, 1}
  BY DEF StoreBase, WrFifoTypeOK, VideoTyped, VideoTypeOK, One
<1>1. popped + wrf_words + One(wrf_wrreqr) + vf_words = fw BY DEF Counted
<1>2. popped' = popped + One(wr_ack) BY PoppedStep
<1>3. wrf_words' = wrf_words + One(wrf_wrreqr) - One(wr_ack) BY FifoInStage
<1>4. vf_words' = vf_words + One(arrive) - One(vf_rdreq) BY VideoFifoMoves
<1>5. fw' = fw + One(arrive) BY <1>0 DEF Camera, One
<1>6. One(wrf_wrreqr') = One(vf_rdreq) OBVIOUS
<1>7. \A p, w, q, v, f, k, r, a \in Int : p + w + q + v = f =>
        (p + k) + (w + q - k) + r + (v + a - r) = f + a
  OBVIOUS
<1>8. (popped + One(wr_ack)) + (wrf_words + One(wrf_wrreqr) - One(wr_ack)) + One(vf_rdreq)
        + (vf_words + One(arrive) - One(vf_rdreq)) = fw + One(arrive)
  <2>1. /\ popped \in Int /\ wrf_words \in Int /\ vf_words \in Int /\ fw \in Int
        /\ One(wrf_wrreqr) \in Int /\ One(wr_ack) \in Int /\ One(arrive) \in Int
        /\ One(vf_rdreq) \in Int
    BY <1>0
  <2> QED BY <1>1, <1>7, <2>1
<1> QED BY <1>2, <1>3, <1>4, <1>5, <1>6, <1>8 DEF Counted

-----------------------------------------------------------------------------
(* The stage, clock by clock.                                              *)
InTime == ~vvsync => Empty \/ Need + 1 <= Until

StageInv ==
  InStage => /\ Shape /\ PagesMatch /\ Counted /\ InTime
             /\ vvsync => held = 1

LEMMA StartsUntil ==
  ASSUME StoreNumbers, Starts
  PROVE  Until = 1
<1>1. CamMin \in Nat /\ 2 <= CamMin /\ VBurst \in Nat BY DEF StoreNumbers
<1>2. Missing = 0
  <2>1. dcnt = 0 /\ vf_words = VBurst - 1 BY DEF Starts
  <2> QED BY <1>1, <2>1 DEF Missing
<1>3. Lesser(cgap, CamMin) = 1 BY <1>1 DEF Starts, Lesser
<1>4. Missing * CamMin = 0 BY <1>1, <1>2
<1> QED BY <1>3, <1>4 DEF Until

LEMMA EnterStage ==
  ASSUME StoreBase, StoreBase', StoreNumbers, AckAssumption, CameraSizes, PushPipe, ClearInv,
         ~InStage, InStage',
         NEW rd \in BOOLEAN, NEW pulse \in BOOLEAN, NEW arrive \in BOOLEAN,
         WrTick(rd, pulse, arrive)
  PROVE  StageInv'
<1>1. /\ Camera(pulse, arrive) /\ CtrlTick(sdram_wr_req, rd) /\ SyncedCases(pulse)
      /\ vclr_r' \in {vvsync, pulse} /\ BurstCounter
      /\ wrf_wrreqr' = vf_rdreq /\ VideoFifo(arrive, vf_rdreq)
      /\ wrf_clr_r' \in {vvsync, pulse} /\ WrFifo(wrf_wrreqr, wr_ack) /\ WritePage
  BY WrTickParts
<1>2. synced' = "yes" /\ ~wrf_clr_r' BY DEF InStage
<1>3. /\ synced \in {"no", "pulse", "yes"} /\ vvsync \in BOOLEAN /\ (~vvsync => held = 0)
      /\ ClearMin \in Nat /\ 3 <= ClearMin
  BY DEF StoreBase, VideoTyped, VideoInv, StoreNumbers
<1>4. synced # "no" BY <1>1, <1>2 DEF SyncedCases
<1>5. /\ wrf_clr_r /\ ~Writing' /\ dcnt = 0 /\ dcnt' = 0
      /\ ~pulse => fw' = 0 /\ vf_words' = 0
  <2>1. CASE vvsync
    <3>1. ~pulse BY <1>1, <1>2, <2>1
    <3>2. Camera(FALSE, arrive) BY <1>1, <3>1
    <3>3. /\ wrf_clr_r /\ ~Writing' /\ vclr_r /\ dcnt = 0 /\ dcnt' = 0 /\ fw' = 0
      BY <1>1, <1>4, <2>1, <3>2, FieldStarts
    <3>4. vf_words' = 0 BY <1>1, <3>3, Cleared
    <3> QED BY <3>3, <3>4
  <2>2. CASE ~vvsync
    <3>1. synced = "yes" BY <1>3, <1>4, <2>2 DEF StoreBase, VideoInv
    <3>2. wrf_clr_r BY <3>1 DEF InStage
    <3>3. /\ fw = 0 /\ cgap = 1 /\ ~Writing /\ dcnt = 0 /\ ~wrf_wrreqr /\ vf_words = 0
      BY <2>2, <3>1, <3>2 DEF ClearInv
    <3>4. ~Writing' BY <1>1, <3>2, <3>3, NoWriteWhenCleared
    <3>5. dcnt' = 0
      <4>1. VBurst \in Nat /\ 5 <= VBurst BY DEF StoreNumbers
      <4>2. ~Starts BY <3>3, <4>1 DEF Starts
      <4> QED BY <1>1, <2>2, <3>1, <3>3, <4>2, CounterMoves
    <3>6. ~arrive
      <4>1. arrive => CamMin <= cgap BY <1>1 DEF Camera, MaySend
      <4> QED BY <3>3, <4>1 DEF StoreNumbers
    <3>7. ASSUME ~pulse PROVE fw' = 0 /\ vf_words' = 0
      <4>1. ~vclr_r' BY <1>1, <2>2, <3>7
      <4>2. vf_words' = vf_words + One(arrive) - One(vf_rdreq)
        BY <1>1, <2>2, <3>1, <4>1, VideoFifoMoves
      <4>3. One(arrive) = 0 /\ One(vf_rdreq) = 0 BY <3>3, <3>6 DEF One, vf_rdreq
      <4>4. fw' = 0 BY <1>1, <3>3, <3>6, <3>7 DEF Camera
      <4> QED BY <3>3, <4>2, <4>3, <4>4
    <3> QED BY <3>2, <3>3, <3>4, <3>5, <3>7
  <2> QED BY <2>1, <2>2
<1>6. wrf_words' = 0 /\ popped' = 0 /\ sys_wrabr' = 0 BY <1>1, <1>5 DEF WrFifo, WritePage
<1>7. wrf_wrreqr' = FALSE BY <1>1, <1>5 DEF vf_rdreq
<1>8. One(wrf_wrreqr') = 0 BY <1>7 DEF One
<1>9. Empty'
  <2>1. Coming' = 0 BY <1>5, <1>8 DEF Coming
  <2>2. Left' = 0 BY <1>5 DEF Writing, Left
  <2> QED BY <1>6, <2>1, <2>2 DEF Empty
<1>10. Shape'
  <2>1. dcnt' <= VBurst BY <1>5 DEF StoreNumbers
  <2> QED BY <1>9, <2>1 DEF Shape
<1>11. PagesMatch'
  <2>1. 0 = 0 * WrByte + 0 BY DEF StoreNumbers
  <2> QED BY <1>5, <1>6, <2>1 DEF PagesMatch, Writing
<1>12. vvsync' = pulse BY <1>1 DEF Camera
<1>13. Counted' BY <1>5, <1>6, <1>8, <1>12 DEF Counted
<1>14. vvsync' => held' = 1
  <2> SUFFICES ASSUME pulse PROVE held' = 1
    BY <1>12
  <2>1. held = 0 BY <1>1, <1>2, <1>3
  <2> QED BY <1>1, <1>3, <2>1 DEF Camera
<1> QED BY <1>9, <1>10, <1>11, <1>13, <1>14 DEF StageInv, InTime

LEMMA StageStep ==
  ASSUME StoreBase, StoreBase', StoreNumbers, AckAssumption, CameraSizes, StoreSizes,
         PushPipe, WriteAckPipe, SettleInv, StageInv, InStage, InStage',
         NEW rd \in BOOLEAN, NEW pulse \in BOOLEAN, NEW arrive \in BOOLEAN,
         WrTick(rd, pulse, arrive)
  PROVE  /\ ~vvsync /\ StageInv'
         /\ dcnt' = 1 => Starts
         /\ ~pulse /\ dcnt' # 1 /\ Empty => Empty'
         /\ ~pulse /\ dcnt' # 1 /\ ~Empty => Empty' \/ Need' <= Need - 1
<1>1. /\ Camera(pulse, arrive) /\ CtrlTick(sdram_wr_req, rd)
      /\ vclr_r' \in {vvsync, pulse} /\ BurstCounter
      /\ wrf_wrreqr' = vf_rdreq /\ VideoFifo(arrive, vf_rdreq)
      /\ wrf_clr_r' \in {vvsync, pulse} /\ WrFifo(wrf_wrreqr, wr_ack) /\ WritePage
  BY WrTickParts
<1>2. /\ synced = "yes" /\ ~wrf_clr_r /\ ~wrf_clr_r'
      /\ Shape /\ PagesMatch /\ Counted /\ InTime /\ (vvsync => held = 1)
  BY DEF InStage, StageInv
<1>3. /\ ClearMin \in Nat /\ 3 <= ClearMin /\ vvsync \in BOOLEAN /\ (~vvsync => held = 0)
  BY DEF StoreNumbers, StoreBase, VideoTyped, VideoInv
<1>4. ~vvsync
  <2> SUFFICES ASSUME vvsync PROVE FALSE
    OBVIOUS
  <2>1. held = 1 BY <1>2
  <2>2. pulse BY <1>1, <1>3, <2>1 DEF Camera
  <2> QED BY <1>1, <1>2, <2>2
<1>5. /\ dcnt' = 1 => Starts
      /\ dcnt' \in Nat
  BY <1>1, <1>2, <1>4, ComingStep
<1>6. dcnt' = 1 => Empty
  <2> SUFFICES ASSUME dcnt' = 1, ~Empty PROVE FALSE
    OBVIOUS
  <2>1. Until = 1 BY <1>5, StartsUntil
  <2>2. Need + 1 <= Until BY <1>2, <1>4 DEF InTime
  <2>3. Need \in Int /\ 1 <= Need BY <1>2, NeedBounds DEF NeedRange
  <2> QED BY <2>1, <2>2, <2>3
<1>7. /\ Shape'
      /\ dcnt' = 1 => Filled' /\ Left' = 0
      /\ dcnt' # 1 /\ Empty => Empty'
      /\ dcnt' # 1 /\ Left > 0 => Empty' \/ Left' > 0
  BY <1>1, <1>2, <1>4, <1>6, ShapeStep
<1>8. PagesMatch' BY <1>1, <1>2, <1>4, PagesMatchStep DEF StoreSizes
<1>9. vvsync' = pulse BY <1>1 DEF Camera
<1>10. vvsync' => held' = 1
  <2> SUFFICES ASSUME pulse PROVE held' = 1
    BY <1>9
  <2> QED BY <1>1, <1>3, <1>4 DEF Camera
<1>11. CASE pulse
  BY <1>2, <1>4, <1>5, <1>7, <1>8, <1>9, <1>10, <1>11 DEF StageInv, Counted, InTime
<1>12. CASE ~pulse
  <2>1. Camera(FALSE, arrive) /\ ~vclr_r'
    <3>1. pulse = FALSE BY <1>12
    <3>2. Camera(FALSE, arrive) BY <1>1, <3>1
    <3>3. ~vclr_r' BY <1>1, <1>4, <1>12
    <3> QED BY <3>2, <3>3
  <2>2. Counted' BY <1>1, <1>2, <1>4, <2>1, CountedNext
  <2>3. /\ Until \in Int /\ Until' \in Int
        /\ dcnt' # 1 => Until - 1 <= Until'
        /\ dcnt' = 1 => Until' = VBurst * CamMin
    BY <1>1, <1>2, <1>4, <2>1, UntilStep
  <2>4. QuickRefresh BY DEF StoreSizes
  <2>5. SettleLeft = 0 BY <1>2 DEF SettleInv
  <2>6. dcnt' # 1 /\ ~Empty /\ ~Empty' => Need' <= Need - 1
    BY <1>1, <1>2, <1>4, <1>7, <2>4, <2>5, NeedStep
  <2>7. InTime'
    <3>1. CASE dcnt' = 1
      <4>1. Visible' = VBurst + 1
        <5>1. Visible' = VBurst - dcnt' + 2 BY <3>1 DEF Visible
        <5>2. VBurst \in Int BY DEF StoreNumbers
        <5> QED BY <3>1, <5>1, <5>2
      <4>2. MaxWait' = MaxWait BY DEF MaxWait, MaxOp, RefreshTime, Larger, ReadTail, WriteTail
      <4>3. Left' = 0 /\ VBurst + 1 # 0 BY <1>7, <3>1 DEF StoreNumbers
      <4>4. Need' = VBurst + 1 + MaxWait + WrByte + 2 BY <4>1, <4>2, <4>3 DEF Need
      <4>5. VBurst + 1 + MaxWait + WrByte + 2 + 1 <= VBurst * CamMin
        <5>1. VBurst + MaxWait + WrByte + 4 <= VBurst * CamMin BY DEF StoreSizes
        <5>2. VBurst + 1 + MaxWait + WrByte + 2 + 1 = VBurst + MaxWait + WrByte + 4
          BY DEF StoreNumbers
        <5> QED BY <5>1, <5>2
      <4>6. Need' + 1 <= Until' BY <2>3, <3>1, <4>4, <4>5
      <4> QED BY <4>6 DEF InTime
    <3>2. CASE dcnt' # 1 /\ ~Empty /\ ~Empty'
      <4>1. Need + 1 <= Until BY <1>2, <1>4, <3>2 DEF InTime
      <4>2. Need' \in Int BY <1>7, NeedBoundsNext DEF NeedRange
      <4>3. Need \in Int BY <1>2, NeedBounds DEF NeedRange
      <4>4. \A n, u, m, v \in Int : n + 1 <= u /\ m <= n - 1 /\ u - 1 <= v => m + 1 <= v
        OBVIOUS
      <4>5. Need' + 1 <= Until' BY <2>3, <2>6, <3>2, <4>1, <4>2, <4>3, <4>4
      <4> QED BY <4>5 DEF InTime
    <3>3. CASE Empty' BY <3>3 DEF InTime
    <3> QED BY <1>7, <3>1, <3>2, <3>3
  <2> QED BY <1>4, <1>5, <1>7, <1>8, <1>9, <1>12, <2>2, <2>6, <2>7 DEF StageInv
<1> QED BY <1>11, <1>12

(* From the clock after the last word of a field on, the clocks gone by    *)
(* and those still needed stay within MaxNeed.                             *)
SinceInv ==
  since # 0 => InStage /\ ~vvsync /\ fw = FieldWords /\ (Empty \/ since + Need <= MaxNeed)

(* No burst starts with the field complete: its words make whole bursts.   *)
LEMMA NoStartAtEnd ==
  ASSUME StoreBase, StoreNumbers, CameraSizes, synced = "yes", ~vvsync, fw = FieldWords
  PROVE  ~Starts
<1> SUFFICES ASSUME Starts PROVE FALSE
  OBVIOUS
<1>1. dcnt = 0 /\ vf_words = VBurst - 1 /\ ~vclr_r BY DEF Starts
<1>2. PICK n \in Int : fw - vf_words - Done = n * VBurst
  BY <1>1 DEF StoreBase, VideoInv, FieldInv, WholeBursts
<1>3. PICK m \in Int : fw = m * VBurst BY PauseWhole DEF StoreBase
<1>4. VBurst \in Nat /\ 2 <= VBurst /\ fw \in Int
  BY DEF StoreNumbers, StoreBase, VideoTyped
<1>5. Done = 0 BY <1>1 DEF Done
<1>6. n * VBurst \in Int BY <1>4
<1>7. fw = n * VBurst + VBurst - 1 BY <1>1, <1>2, <1>4, <1>5, <1>6
<1>8. m * VBurst # n * VBurst + VBurst - 1 BY <1>2, <1>3, <1>4, ApartTimes
<1> QED BY <1>3, <1>7, <1>8

LEMMA SinceInvStep ==
  ASSUME StoreBase, StoreBase', StoreNumbers, AckAssumption, CameraSizes, StoreSizes,
         PushPipe, WriteAckPipe, SettleInv, ClearInv, StageInv, SinceInv,
         NEW rd \in BOOLEAN, NEW pulse \in BOOLEAN, NEW arrive \in BOOLEAN,
         WrTick(rd, pulse, arrive)
  PROVE  SinceInv'
<1> SUFFICES ASSUME since' # 0
             PROVE  /\ InStage' /\ ~vvsync' /\ fw' = FieldWords
                    /\ Empty' \/ since' + Need' <= MaxNeed
  <2>1. MaxNeed' = MaxNeed
    BY DEF MaxNeed, MaxWait, MaxOp, RefreshTime, Larger, ReadTail, WriteTail
  <2> QED BY <2>1 DEF SinceInv
<1>1. /\ Camera(pulse, arrive) /\ CtrlTick(sdram_wr_req, rd) /\ SyncedCases(pulse) /\ Since
      /\ BurstCounter /\ wrf_clr_r' \in {vvsync, pulse}
  BY WrTickParts
<1>2. /\ fw \in Nat /\ fw \in 0..FieldWords /\ fw' \in 0..FieldWords
      /\ FieldWords \in Nat /\ 1 <= FieldWords
      /\ cgap \in Nat /\ CamMin \in Nat /\ 2 <= CamMin /\ since \in Nat /\ since' \in Nat
      /\ VBurst \in Nat /\ 2 <= VBurst
  <2>1. StoreTime \in Nat BY CameraAssumption DEF CameraAssumption
  <2> QED BY <2>1 DEF StoreBase, VideoTyped, StoreNumbers
<1>3. synced' = "yes" /\ fw' = FieldWords
  <2>1. ~(fw' < FieldWords) /\ synced' = "yes" BY <1>1 DEF Since
  <2> QED BY <1>2, <2>1
<1>4. ~pulse
  <2>1. pulse => fw' = 0 BY <1>1 DEF Camera
  <2> QED BY <1>2, <1>3, <2>1
<1>5. Camera(FALSE, arrive)
  <2>1. pulse = FALSE BY <1>4
  <2> QED BY <1>1, <2>1
<1>6. synced # "no" BY <1>1, <1>3, <1>4 DEF SyncedCases
<1>7. ~vvsync
  <2> SUFFICES ASSUME vvsync PROVE FALSE
    OBVIOUS
  <2>1. fw' = 0 BY <1>1, <1>5, <1>6, FieldStarts
  <2> QED BY <1>2, <1>3, <2>1
<1>8. synced = "yes" BY <1>6, <1>7 DEF StoreBase, VideoInv
<1>9. cgap = 1 => ~arrive
  <2>1. arrive => CamMin <= cgap BY <1>1 DEF Camera, MaySend
  <2> QED BY <1>2, <2>1
<1>10. ~arrive => fw = FieldWords BY <1>3, <1>5 DEF Camera
<1>11. ~wrf_clr_r
  <2> SUFFICES ASSUME wrf_clr_r PROVE FALSE
    OBVIOUS
  <2>1. fw = 0 /\ cgap = 1 BY <1>7, <1>8 DEF ClearInv
  <2> QED BY <1>2, <1>9, <1>10, <2>1
<1>12. InStage BY <1>8, <1>11 DEF InStage
<1>13. ~wrf_clr_r' BY <1>1, <1>4, <1>7
<1>14. InStage' BY <1>3, <1>13 DEF InStage
<1>15. ~vvsync' BY <1>4, <1>5 DEF Camera
<1>16. /\ StageInv'
       /\ dcnt' = 1 => Starts
       /\ dcnt' # 1 /\ Empty => Empty'
       /\ dcnt' # 1 /\ ~Empty => Empty' \/ Need' <= Need - 1
  BY <1>4, <1>12, <1>14, StageStep
<1>17. dcnt' # 1
  <2> SUFFICES ASSUME dcnt' = 1 PROVE FALSE
    OBVIOUS
  <2>1. Starts /\ cgap = 1 BY <1>16 DEF Starts
  <2>2. fw = FieldWords BY <1>9, <1>10, <2>1
  <2> QED BY <1>7, <1>8, <2>1, <2>2, NoStartAtEnd
<1>18. Shape /\ Shape' BY <1>12, <1>14, <1>16 DEF StageInv
<1>19. Need \in Int /\ MaxNeed \in Int BY <1>18, NeedBounds DEF NeedRange
<1>20. Need' \in Int /\ Need' + 1 <= MaxNeed
  <2>1. NeedRange' BY <1>18, NeedBoundsNext
  <2>2. MaxNeed' = MaxNeed
    BY DEF MaxNeed, MaxWait, MaxOp, RefreshTime, Larger, ReadTail, WriteTail
  <2> QED BY <1>17, <2>1, <2>2 DEF NeedRange
<1>21. since' <= since + 1
  <2>1. since' = IF since < StoreTime THEN since + 1 ELSE since BY <1>1, <1>2, <1>3 DEF Since
  <2> QED BY <1>2, <2>1
<1>22. Empty' \/ since' + Need' <= MaxNeed
  <2>0. \A a, b, n, k, m \in Int : /\ (a = 0 /\ b <= a + 1 /\ k + 1 <= m => b + k <= m)
                                   /\ (a + n <= m /\ b <= a + 1 /\ k <= n - 1 => b + k <= m)
    OBVIOUS
  <2>4. since \in Int /\ since' \in Int BY <1>2
  <2>1. CASE since = 0 BY <1>19, <1>20, <1>21, <2>0, <2>1, <2>4
  <2>2. CASE since # 0 /\ Empty BY <1>16, <1>17, <2>2
  <2>3. CASE since # 0 /\ ~Empty
    <3>1. since + Need <= MaxNeed BY <2>3 DEF SinceInv
    <3>2. Empty' \/ Need' <= Need - 1 BY <1>16, <1>17, <2>3
    <3> QED BY <1>19, <1>20, <1>21, <2>0, <2>4, <3>1, <3>2
  <2> QED BY <2>1, <2>2, <2>3
<1> QED BY <1>3, <1>14, <1>15, <1>22

-----------------------------------------------------------------------------
(* All of it together.                                                     *)
StoreInv ==
  SettleInv /\ WriteAckPipe /\ PushPipe /\ ClearInv /\ StageInv /\ SinceInv

LEMMA StoreInvStarts ==
  ASSUME synced = "no", wrf_clr_r, work_state = "IDLE", ~sdwrackr1, ~sdwrackr2,
         dcnt = 0, since = 0, wrf_words = 0, popped = 0, wrf_pops = NoPops, ~wrf_pushed
  PROVE  StoreInv
<1>1. WriteAckPipe BY DEF WriteAckPipe
<1>2. PushPipe
  <2>1. ~(0 >= 2) OBVIOUS
  <2> QED BY <2>1 DEF PushPipe
<1> QED BY <1>1, <1>2 DEF StoreInv, SettleInv, ClearInv, StageInv, InStage, SinceInv

LEMMA StoreInvStartsNext ==
  (  synced = "no" /\ wrf_clr_r /\ work_state = "IDLE" /\ ~sdwrackr1 /\ ~sdwrackr2
     /\ dcnt = 0 /\ since = 0 /\ wrf_words = 0 /\ popped = 0 /\ wrf_pops = NoPops /\ ~wrf_pushed
   => StoreInv)'
<1>1. synced = "no" /\ wrf_clr_r /\ work_state = "IDLE" /\ ~sdwrackr1 /\ ~sdwrackr2
      /\ dcnt = 0 /\ since = 0 /\ wrf_words = 0 /\ popped = 0 /\ wrf_pops = NoPops /\ ~wrf_pushed
      => StoreInv
  BY StoreInvStarts
<1> QED BY <1>1, PTL

LEMMA StoreInvNext ==
  ASSUME AckAssumption, StoreNumbers, CameraSizes, StoreSizes, StoreBase, StoreBase', StoreInv,
         [WrNext]_wrVars
  PROVE  StoreInv'
<1>1. ASSUME NEW rd \in BOOLEAN, NEW pulse \in BOOLEAN, NEW arrive \in BOOLEAN,
             WrTick(rd, pulse, arrive)
      PROVE  StoreInv'
  <2>1. /\ CtrlTick(sdram_wr_req, rd) /\ BurstCounter /\ wrf_wrreqr' = vf_rdreq
        /\ sdwrackr1' = wr_ack /\ sdwrackr2' = sdwrackr1 /\ WrFifo(wrf_wrreqr, wr_ack)
    BY <1>1, WrTickParts
  <2>2. SettleInv /\ WriteAckPipe /\ PushPipe /\ ClearInv /\ StageInv /\ SinceInv
    BY DEF StoreInv
  <2>3. QuickRefresh BY DEF StoreSizes
  <2>4. SettleInv' BY <1>1, <2>2, <2>3, SettleInvStep
  <2>5. WriteAckPipe' BY <2>1, <2>2, RequestBoolean, WriteAckPipeStep DEF StoreBase
  <2>6. PushPipe'
    <3>1. wr_ack \in BOOLEAN /\ wrf_wrreqr \in BOOLEAN
      BY WrAckBoolean DEF StoreBase, VideoTyped, VideoTypeOK
    <3>2. VideoTyped /\ WrFifoTypeOK BY DEF StoreBase
    <3> QED BY <2>1, <2>2, <3>1, <3>2, PushPipeStep
  <2>7. ClearInv' BY <1>1, <2>2, ClearInvStep
  <2>8. StageInv'
    <3>1. CASE ~InStage' BY <3>1 DEF StageInv
    <3>2. CASE InStage' /\ InStage BY <1>1, <2>2, <3>2, StageStep
    <3>3. CASE InStage' /\ ~InStage BY <1>1, <2>2, <3>3, EnterStage
    <3> QED BY <3>1, <3>2, <3>3
  <2>9. SinceInv' BY <1>1, <2>2, SinceInvStep
  <2> QED BY <2>4, <2>5, <2>6, <2>7, <2>8, <2>9 DEF StoreInv
<1>2. ASSUME NEW pulse \in BOOLEAN, NEW arrive \in BOOLEAN, WrReset(pulse, arrive)
      PROVE  StoreInv'
  <2>1. CtrlReset /\ WrFifoReset /\ VideoReset(arrive) /\ synced' = "no" /\ Since
    BY <1>2 DEF WrReset
  <2>2. since' = 0 BY <2>1 DEF Since
  <2>3. NoPops' = NoPops BY DEF NoPops
  <2> QED BY <2>1, <2>2, <2>3, StoreInvStartsNext DEF CtrlReset, WrFifoReset, VideoReset
<1>3. CASE UNCHANGED wrVars
  <2>1. UNCHANGED <<ctrlVars, wrFifoVars, videoVars, camVars, since, synced>> BY <1>3 DEF wrVars
  <2>2. /\ UNCHANGED <<cnt_200us, cnt_15us, cnt_clk, init_state, work_state, ref_req, sys_r_wn, acks>>
        /\ UNCHANGED <<sdwrackr1, sdwrackr2, wrf_clr_r, sys_wrabr, wrf_words, wrf_pops, wrf_pushed, popped>>
        /\ UNCHANGED <<vclr_r, vf_words, vf_popped, dcnt, wrf_wrreqr>>
        /\ UNCHANGED <<vvsync, held, cgap, fw, since, synced>>
    BY <2>1 DEF ctrlVars, wrFifoVars, videoVars, camVars
  <2>3. /\ MaxOp' = MaxOp /\ RefreshTime' = RefreshTime /\ ReadTail' = ReadTail /\ WriteTail' = WriteTail
        /\ Larger(1, TRCD)' = Larger(1, TRCD) /\ NoPops' = NoPops
    BY DEF MaxOp, RefreshTime, ReadTail, WriteTail, Larger, NoPops
  <2>4. OpLeft' = OpLeft /\ RefAge' = RefAge
    BY <2>2, <2>3 DEF OpLeft, ColumnTail, RefAge, ReadTail, WriteTail
  <2>5. SettleLeft' = SettleLeft
    <3>1. Calm' <=> Calm BY <2>2, <2>3, <2>4 DEF Calm
    <3>2. LongestWait' = LongestWait BY DEF LongestWait, Larger
    <3>3. InitLeft' = InitLeft BY <2>2, <3>2 DEF InitLeft, I_NOP, I_DONE
    <3>4. init_done' <=> init_done BY <2>2 DEF init_done, I_DONE
    <3> QED BY <2>2, <2>3, <2>4, <3>1, <3>3, <3>4 DEF SettleLeft
  <2>6. SettleTime' = SettleTime BY DEF SettleTime, LongestWait, RefreshTime, Larger
  <2>7. SettleInv' BY <2>2, <2>5, <2>6 DEF StoreInv, SettleInv
  <2>8. WriteAckPipe' /\ PushPipe' BY <2>2 DEF StoreInv, WriteAckPipe, PushPipe
  <2>9. (Taking' <=> Taking) /\ (Writing' <=> Writing) BY <2>2 DEF Taking, Writing
  <2>10. ClearInv' BY <2>2, <2>3, <2>4, <2>9 DEF StoreInv, ClearInv
  <2>11. Left' = Left /\ Coming' = Coming BY <2>2, <2>9 DEF Left, Coming, One
  <2>12. (Shape' <=> Shape) /\ (Empty' <=> Empty) BY <2>2, <2>11 DEF Shape, Empty, Filled, Drained
  <2>13. Need' = Need
    <3>1. Wait' = Wait BY <2>2, <2>3, <2>4 DEF Wait
    <3>2. Visible' = Visible BY <2>2 DEF Visible, One
    <3>3. MaxWait' = MaxWait BY <2>3 DEF MaxWait
    <3> QED BY <2>2, <2>11, <3>1, <3>2, <3>3 DEF Need
  <2>14. Until' = Until BY <2>2 DEF Until, Missing, Spare, Lesser
  <2>15. (PagesMatch' <=> PagesMatch) /\ (Counted' <=> Counted)
    BY <2>2, <2>9 DEF PagesMatch, Counted, One
  <2>16. InStage' <=> InStage BY <2>2 DEF InStage
  <2>17. InTime' <=> InTime BY <2>2, <2>12, <2>13, <2>14 DEF InTime
  <2>18. StageInv' BY <2>2, <2>12, <2>15, <2>16, <2>17 DEF StoreInv, StageInv
  <2>19. MaxNeed' = MaxNeed BY <2>3 DEF MaxNeed, MaxWait
  <2>20. SinceInv' BY <2>2, <2>12, <2>13, <2>16, <2>19 DEF StoreInv, SinceInv
  <2> QED BY <2>7, <2>8, <2>10, <2>18, <2>20 DEF StoreInv
<1> QED BY <1>1, <1>2, <1>3 DEF WrNext, WrTicks, WrResets

LEMMA StoreInvariant ==
  ASSUME CameraSizes, StoreSizes
  PROVE  WrSpec => [](StoreBase /\ StoreInv)
<1>1. StoreNumbers /\ AckAssumption BY StoreNumbersHold
<1>2. WrInit => StoreInv
  BY StoreInvStarts DEF WrInit, CtrlInit, WrFifoInit, VideoInit
<1>3. StoreBase /\ StoreBase' /\ StoreInv /\ [WrNext]_wrVars => StoreInv'
  BY <1>1, StoreInvNext
<1>4. WrSpec => []StoreBase BY <1>1, StoreBaseInvariant
<1> QED BY <1>2, <1>3, <1>4, PTL DEF WrSpec

-----------------------------------------------------------------------------
(* The write FIFO keeps up with the SDRAM: with the sizes of the design no *)
(* burst reads it empty, although the request is raised one word early and *)
(* the usage counts pops late (sdfifo_ctrl.v:81).                          *)
THEOREM WriteBurstsFed ==
  ASSUME CameraSizes, StoreSizes
  PROVE  WrSpec => []WrFifoNeverDry
<1>1. StoreNumbers /\ AckAssumption BY StoreNumbersHold
<1>2. StoreBase /\ StoreInv => WrFifoNeverDry
  <2> SUFFICES ASSUME StoreBase, StoreInv, InField, wr_ack, ~wrf_clr_r PROVE wrf_words > 0
    BY DEF WrFifoNeverDry
  <2>1. Shape BY DEF StoreInv, StageInv, InStage, InField
  <2>2. wrf_words \in Nat /\ wrf_words >= 1 BY <1>1, <2>1, ShapeNumbers
  <2> QED BY <2>2
<1> QED BY <1>2, StoreInvariant, PTL

(* The write FIFO takes every word of the picture, while refreshes and     *)
(* reads keep the SDRAM busy (wrfifo.v drops a word pushed when full).     *)
THEOREM WriteFifoTakesAll ==
  ASSUME CameraSizes, StoreSizes
  PROVE  WrSpec => []WrFifoNeverFull
<1>1. StoreNumbers /\ AckAssumption BY StoreNumbersHold
<1>2. StoreBase /\ StoreInv => WrFifoNeverFull
  <2> SUFFICES ASSUME StoreBase, StoreInv, InField, wrf_wrreqr, ~wrf_clr_r PROVE wrf_words < WrDepth
    BY DEF WrFifoNeverFull
  <2>1. Shape BY DEF StoreInv, StageInv, InStage, InField
  <2> QED BY <1>1, <2>1, ShapeNumbers
<1> QED BY <1>2, StoreInvariant, PTL

(* Each write burst goes to the page its words belong to, for every field  *)
(* after the first whole pulse, cut short by the next pulse or not: the    *)
(* page counter is right from the opening of the row to the column command *)
(* (sdfifo_ctrl.v:47,92).                                                  *)
THEOREM WritePagesMatch ==
  ASSUME CameraSizes, StoreSizes
  PROVE  WrSpec => []PagesInStep
<1>1. StoreBase /\ StoreInv => PagesInStep
  <2> SUFFICES ASSUME StoreBase, StoreInv, InField, ~sys_r_wn, ~wrf_clr_r,
                      work_state \in {"ACTIVE", "TRCD", "WRITE"}
               PROVE  popped = sys_wrabr * WrByte + acks
    BY DEF PagesInStep
  <2>1. PagesMatch BY DEF StoreInv, StageInv, InStage, InField
  <2>2. Taking BY DEF Taking
  <2> QED BY <2>1, <2>2 DEF PagesMatch
<1> QED BY <1>1, StoreInvariant, PTL

(* A complete field is in the SDRAM MaxNeed clocks after its last word     *)
(* came, whatever reads compete for it, unless the next field or a reset   *)
(* comes first: nothing of it stays behind in the two FIFOs.               *)
THEOREM FieldIsStored ==
  ASSUME CameraSizes, StoreSizes, MaxNeed <= StoreTime
  PROVE  WrSpec => []FieldStored
<1>1. StoreNumbers /\ AckAssumption BY StoreNumbersHold
<1>2. StoreBase /\ StoreInv => FieldStored
  <2> SUFFICES ASSUME StoreBase, StoreInv, since = StoreTime PROVE popped = FieldWords
    BY DEF FieldStored
  <2>0. /\ VBurst \in Nat /\ 5 <= VBurst /\ VfLevel = VBurst - 2 /\ 1 <= FieldWords /\ FieldWords \in Nat
        /\ WrByte \in Nat /\ 5 <= WrByte /\ MaxWait \in Nat /\ StoreTime \in Nat
        /\ fw \in Nat /\ vf_words \in Nat /\ popped \in Nat /\ dcnt \in Nat
    BY <1>1, CameraAssumption
       DEF StoreNumbers, CameraAssumption, StoreBase, VideoTyped, VideoTypeOK, WrFifoTypeOK
  <2>1. since # 0
    <3>1. 1 <= MaxNeed /\ MaxNeed \in Int BY <2>0 DEF MaxNeed
    <3> QED BY <2>0, <3>1
  <2>2. InStage /\ ~vvsync /\ fw = FieldWords /\ (Empty \/ since + Need <= MaxNeed)
    BY <2>1 DEF StoreInv, SinceInv
  <2>3. Shape /\ Counted BY <2>2 DEF StoreInv, StageInv
  <2>4. Empty
    <3>1. Need \in Int /\ 1 <= Need /\ MaxNeed \in Int BY <1>1, <2>3, NeedBounds DEF NeedRange
    <3>2. ~(since + Need <= MaxNeed) BY <2>0, <3>1
    <3> QED BY <2>2, <3>2
  <2>5. wrf_words = 0 /\ Coming = 0 BY <2>4 DEF Empty
  <2>6. dcnt = 0 /\ One(wrf_wrreqr) = 0
    <3>1. dcnt <= VBurst /\ One(wrf_wrreqr) \in {0, 1} BY <2>3 DEF Shape, One
    <3>2. One(wrf_wrreqr) + (IF dcnt = 0 THEN 0 ELSE VBurst + 1 - dcnt) = 0 BY <2>5 DEF Coming
    <3> QED BY <2>0, <3>1, <3>2
  <2>7. popped + vf_words = FieldWords
    <3>1. popped + wrf_words + One(wrf_wrreqr) + vf_words = fw BY <2>2, <2>3 DEF Counted
    <3> QED BY <2>0, <2>2, <2>5, <2>6, <3>1
  <2>8. synced = "yes" BY <2>2 DEF InStage
  <2>9. ~vclr_r
    <3> SUFFICES ASSUME vclr_r PROVE FALSE
      OBVIOUS
    <3>1. fw = 0 BY <2>2, <2>8 DEF StoreBase, VideoInv, LagOut
    <3> QED BY <2>0, <2>2, <3>1
  <2>10. FieldInv BY <2>2, <2>8, <2>9 DEF StoreBase, VideoInv
  <2>11. PICK n \in Int : vf_words = n * VBurst
    <3>1. PICK n \in Int : fw - vf_words - Done = n * VBurst BY <2>10 DEF FieldInv, WholeBursts
    <3>2. PICK m \in Int : FieldWords = m * VBurst BY DEF CameraSizes
    <3>3. Done = 0 BY <2>6 DEF Done
    <3>4. vf_words = m * VBurst - n * VBurst
      <4>1. n * VBurst \in Int /\ m * VBurst \in Int BY <2>0
      <4> QED BY <2>0, <2>2, <3>1, <3>2, <3>3, <4>1
    <3>5. m * VBurst - n * VBurst = (m - n) * VBurst BY <2>0
    <3>6. m - n \in Int OBVIOUS
    <3> QED BY <3>4, <3>5, <3>6
  <2>12. vf_words <= VBurst - 1
    <3>1. vf_words + Late <= VfLevel + 1 BY <2>6, <2>10 DEF FieldInv, Waiting
    <3>2. Late \in {0, 1} BY DEF Late
    <3> QED BY <2>0, <3>1, <3>2
  <2>13. vf_words = 0
    <3>1. CASE n >= 1
      <4>1. n * VBurst >= VBurst BY <2>0, <3>1
      <4> QED BY <2>0, <2>11, <2>12, <4>1
    <3>2. CASE n <= 0
      <4>1. n * VBurst <= 0 BY <2>0, <3>2
      <4> QED BY <2>0, <2>11, <4>1
    <3> QED BY <3>1, <3>2
  <2> QED BY <2>0, <2>7, <2>13
<1> QED BY <1>2, StoreInvariant, PTL

-----------------------------------------------------------------------------
(* A word for every pixel.  What the FIFO holds, with the clocks until the *)
(* display takes the next word, is never less than what the next words of  *)
(* the SDRAM may take to arrive, a refresh and a write that go first       *)
(* included.  All of it is counted in clocks of clk_100m; the display takes*)
(* a word every 16 of them at most.                                        *)
Line == 16 * (XLast + 1)

(* A whole read operation, and the clocks to its first word at most: the   *)
(* words follow one another, and RdByte of them end it.                    *)
ReadOp == Larger(1, TRCD) + ReadTail
ReadWait == IF wgap + Wait < WrGap THEN Wait ELSE Wait + MaxWait + 1
ReadNeed == ReadWait + ReadOp - RdByte
MaxReadNeed == 2 * MaxWait + 1 + ReadOp - RdByte

(* RdPopLag words that the display's clock may not see yet, and one more.  *)
Enough == 16 * (RdPopLag + 1)

(* Clocks until a word can be taken.                                       *)
Ahead == IF y_cnt < YOn THEN (YOn - y_cnt) * Line - Age ELSE 15 - 4 * sft_cnt - ph
Stock == 16 * rdf_words + Ahead

FeedInv ==
  /\ SettleLeft > 0 => y_cnt < YOn /\ Enough + MaxReadNeed + 2 + SettleLeft <= Ahead
  /\ y_cnt # 0 =>
       IF rdfifo_clrr THEN Enough + MaxReadNeed + 1 <= Ahead
       ELSE IF RdRunning THEN /\ Enough + Larger(0, OpLeft - RdByte - 1) <= Stock
                              /\ Enough + MaxReadNeed + OpLeft <= Stock + 16 * (RdByte - acks)
       ELSE Enough + ReadNeed <= Stock

(* The sizes of the source keep it: a write has 160 clocks of the camera   *)
(* for each of its words, a request is made with more than half a FIFO     *)
(* left, a burst lasts longer on the display than two waits, and the lines *)
(* above the picture outlast a read, after a reset the power-up as well.   *)
FeedAssumption ==
  /\ PageAssumption /\ QuickRefresh /\ MaxWait < WrGap
  /\ Enough + MaxReadNeed + 1 <= 16 * (RdLevel - RdPopLag)
  /\ MaxReadNeed + ReadOp <= 16 * RdByte
  /\ Enough + MaxReadNeed + 2 <= (YOn - 1) * Line
  /\ Enough + MaxReadNeed + SettleTime + 9 <= YOn * Line

LEMMA FeedSizes ==
  /\ MaxWait \in Nat /\ WrGap \in Nat /\ SettleTime \in Int /\ RdByte \in 1..256
  /\ ReadOp \in Int /\ RdByte + 5 <= ReadOp
  /\ MaxReadNeed \in Int /\ MaxReadNeed = 2 * MaxWait + 1 + ReadOp - RdByte
  /\ 6 <= MaxReadNeed
<1>1. TCL \in Nat /\ 1 <= TCL /\ RdByte \in 1..256 /\ TRFC \in 0..511
  BY TimingAssumption DEF TimingAssumption
<1>2. ReadOp \in Int /\ RdByte + 5 <= ReadOp /\ MaxOp \in Int /\ TRFC + 2 <= MaxOp
  BY <1>1, OperationSizes DEF ReadOp, ReadTail
<1>3. MaxWait \in Nat BY <1>1, <1>2 DEF MaxWait, RefreshTime
<1>4. SettleTime \in Int BY LongestWaits, <1>1 DEF SettleTime, RefreshTime
<1>5. WrGap \in Nat BY WriteRateAssumption DEF WriteRateAssumption
<1>6. MaxReadNeed \in Int /\ 6 <= MaxReadNeed BY <1>1, <1>2, <1>3 DEF MaxReadNeed
<1> QED BY <1>1, <1>2, <1>3, <1>4, <1>5, <1>6 DEF MaxReadNeed

LEMMA FeedNumbers ==
  ASSUME FeedAssumption
  PROVE  /\ XLast \in Nat /\ YLast \in Nat /\ YOn \in Nat /\ 1 < YOn /\ YOn <= YLast
         /\ Line \in Nat /\ RdPopLag \in Nat /\ RdLevel \in Nat /\ RdDepth \in Nat
         /\ Enough \in Nat /\ Enough = 16 * (RdPopLag + 1)
<1>1. /\ XLast \in Nat /\ YLast \in Nat /\ YOn \in Nat /\ 0 < YOn /\ YOn <= YLast
      /\ RdPopLag \in Nat /\ RdLevel \in Nat /\ RdDepth \in Nat
  BY RasterTypes, ReadTypes
<1>2. Line \in Nat BY <1>1 DEF Line
<1>3. Enough \in Nat BY <1>1 DEF Enough
<1>4. YOn # 1
  <2> SUFFICES ASSUME YOn = 1 PROVE FALSE
    OBVIOUS
  <2>1. (YOn - 1) * Line = 0 * Line OBVIOUS
  <2>2. 0 * Line = 0 BY <1>2
  <2>3. Enough + MaxReadNeed + 2 <= 0 BY <2>1, <2>2 DEF FeedAssumption
  <2> QED BY <1>3, <2>3, FeedSizes
<1> QED BY <1>1, <1>2, <1>3, <1>4 DEF Enough

(* The clock of the raster that moves the line.                            *)
LEMMA LineMoves ==
  ASSUME LcdTypeOK, ph \in 0..3, ph' = (ph + 1) % 4,
         IF ph = 3 THEN LcdTick ELSE UNCHANGED lcdVars
  PROVE  /\ Age \in Nat /\ Age <= Line - 1 /\ Age' \in Nat /\ ph' \in 0..3 /\ sft_cnt' \in 0..3
         /\ \/ y_cnt' = y_cnt /\ Age' = Age + 1
            \/ /\ Age = Line - 1 /\ Age' = 0 /\ ph = 3 /\ sft_cnt = 2 /\ ph' = 0 /\ sft_cnt' = 3
               /\ y_cnt' = IF y_cnt = YLast THEN 0 ELSE y_cnt + 1
         /\ y_cnt' = y_cnt => 
              15 - 4 * sft_cnt' - ph' = 15 - 4 * sft_cnt - ph
                 - (IF ph = 3 /\ sft_cnt = 3 THEN (0 - 15) ELSE 1)
<1>0. /\ sft_cnt \in 0..3 /\ x_cnt \in 0..XLast /\ y_cnt \in 0..YLast
      /\ XLast \in Nat /\ YLast \in Nat /\ YLast > 0
  BY RasterTypes DEF LcdTypeOK
<1>1. /\ Age = 16 * x_cnt + 4 * (IF sft_cnt = 3 THEN 0 ELSE sft_cnt + 1) + ph
      /\ Age' = 16 * x_cnt' + 4 * (IF sft_cnt' = 3 THEN 0 ELSE sft_cnt' + 1) + ph'
      /\ Line = 16 * (XLast + 1)
  BY DEF Age, Line
<1>4. Age \in Nat /\ Age <= Line - 1 BY <1>0, <1>1
<1>2. CASE ph # 3
  <2>1. x_cnt' = x_cnt /\ sft_cnt' = sft_cnt /\ y_cnt' = y_cnt /\ ph' = ph + 1
    BY <1>2 DEF lcdVars
  <2> QED BY <1>0, <1>1, <1>2, <1>4, <2>1
<1>3. CASE ph = 3
  <2>1. /\ sft_cnt' = IF sft_cnt = 3 THEN 0 ELSE sft_cnt + 1
        /\ x_cnt' = IF sft_cnt # 2 THEN x_cnt ELSE IF x_cnt = XLast THEN 0 ELSE x_cnt + 1
        /\ y_cnt' = IF sft_cnt # 2 \/ x_cnt # XLast THEN y_cnt
                    ELSE IF y_cnt = YLast THEN 0 ELSE y_cnt + 1
        /\ ph' = 0
    BY <1>0, <1>3 DEF LcdTick, dchange
  <2>2. CASE sft_cnt = 2 /\ x_cnt = XLast
    <3>1. y_cnt' # y_cnt BY <1>0, <2>1, <2>2
    <3>2. Age = Line - 1 /\ Age' = 0 BY <1>0, <1>1, <1>3, <2>1, <2>2
    <3> QED BY <1>3, <1>4, <2>1, <2>2, <3>1, <3>2
  <2>3. CASE ~(sft_cnt = 2 /\ x_cnt = XLast)
    <3>1. Age' = Age + 1 /\ y_cnt' = y_cnt BY <1>0, <1>1, <1>3, <2>1, <2>3
    <3>2. 15 - 4 * sft_cnt' - ph' = 15 - 4 * sft_cnt - ph
                 - (IF ph = 3 /\ sft_cnt = 3 THEN (0 - 15) ELSE 1)
      BY <1>0, <1>3, <2>1
    <3>3. ph' \in 0..3 /\ sft_cnt' \in 0..3 BY <1>0, <2>1
    <3> QED BY <1>4, <3>1, <3>2, <3>3
  <2> QED BY <2>2, <2>3
<1> QED BY <1>2, <1>3

(* Nothing is taken in a line above the picture; in the others a word is   *)
(* taken once in 16 clocks at most.                                        *)
LEMMA AheadStep ==
  ASSUME FeedAssumption, LcdTypeOK, Window, ph \in 0..3, ph' = (ph + 1) % 4,
         IF ph = 3 THEN LcdTick ELSE UNCHANGED lcdVars
  PROVE  /\ Ahead \in Nat /\ Ahead' \in Int
         /\ y_cnt < YOn /\ Ahead > 1 => y_cnt' < YOn
         /\ y_cnt = 0 /\ y_cnt' # 0 => Ahead' = (YOn - 1) * Line
         /\ y_cnt' # 0 \/ y_cnt = 0 =>
              Ahead - 1 + 16 * Bit(rdfifo_rdreq /\ ph = 3) <= Ahead'
<1> DEFINE pop == rdfifo_rdreq /\ ph = 3
           Low == 15 - 4 * sft_cnt - ph
           Low2 == 15 - 4 * sft_cnt' - ph'
<1>0. /\ XLast \in Nat /\ YLast \in Nat /\ YOn \in Nat /\ 1 < YOn /\ YOn <= YLast /\ Line \in Nat
      /\ sft_cnt \in 0..3 /\ y_cnt \in 0..YLast
  BY FeedNumbers DEF LcdTypeOK
<1>1. /\ Age \in Nat /\ Age <= Line - 1 /\ Age' \in Nat /\ ph' \in 0..3 /\ sft_cnt' \in 0..3
      /\ \/ y_cnt' = y_cnt /\ Age' = Age + 1
         \/ /\ Age = Line - 1 /\ Age' = 0 /\ ph = 3 /\ sft_cnt = 2 /\ ph' = 0 /\ sft_cnt' = 3
               /\ y_cnt' = IF y_cnt = YLast THEN 0 ELSE y_cnt + 1
      /\ y_cnt' = y_cnt => Low2 = Low - (IF ph = 3 /\ sft_cnt = 3 THEN (0 - 15) ELSE 1)
  BY LineMoves
<1>2. /\ pop => sft_cnt = 3 /\ ph = 3 /\ YOn <= y_cnt
      /\ Bit(pop) \in {0, 1} /\ (~pop => Bit(pop) = 0) /\ (pop => Bit(pop) = 1)
  <2>1. pop => sft_cnt = 3 /\ ph = 3 /\ y_cnt \in YOn..(YOff - 1)
    BY DEF rdfifo_rdreq, Window
  <2> QED BY <1>0, <2>1, RasterTypes DEF Bit
<1>3. /\ Ahead = IF y_cnt < YOn THEN (YOn - y_cnt) * Line - Age ELSE Low
      /\ Ahead' = IF y_cnt' < YOn THEN (YOn - y_cnt') * Line - Age' ELSE Low2
  BY DEF Ahead, Line
<1>4. Low \in Nat /\ Low2 \in Nat /\ (ph = 3 /\ sft_cnt = 3 => Low = 0)
  <2>1. \A a, b \in 0..3 : 15 - 4 * a - b \in Nat /\ (b = 3 /\ a = 3 => 15 - 4 * a - b = 0)
    OBVIOUS
  <2>2. ph \in 0..3 /\ sft_cnt \in 0..3 BY <1>0
  <2>3. ph' \in 0..3 /\ sft_cnt' \in 0..3 BY <1>1
  <2>4. Low \in Nat /\ (ph = 3 /\ sft_cnt = 3 => Low = 0) BY <2>1, <2>2
  <2>5. Low2 \in Nat BY <2>1, <2>3
  <2> QED BY <2>4, <2>5
<1>5. y_cnt' \in 0..YLast BY <1>0, <1>1
<1>6. ASSUME NEW y \in 0..YLast, y < YOn
      PROVE  (YOn - y) * Line \in Nat /\ Line <= (YOn - y) * Line
                /\ (YOn - y) * Line = (YOn - y - 1) * Line + Line
                /\ (YOn - y - 1) * Line \in Nat
  <2>1. PICK n \in Nat : n = YOn - y - 1 BY <1>0, <1>6
  <2>2. YOn - y = n + 1 BY <1>0, <2>1
  <2>3. n * Line \in Nat /\ (n + 1) * Line = n * Line + Line BY <1>0, ProductNat, NextTimes
  <2> QED BY <1>0, <2>1, <2>2, <2>3
<1>7. Ahead \in Nat
  <2>1. CASE y_cnt < YOn BY <1>0, <1>1, <1>3, <1>6, <2>1
  <2>2. CASE ~(y_cnt < YOn) BY <1>3, <1>4, <2>2
  <2> QED BY <2>1, <2>2
<1>8. Ahead' \in Int
  <2>1. CASE y_cnt' < YOn BY <1>1, <1>3, <1>5, <1>6, <2>1
  <2>2. CASE ~(y_cnt' < YOn) BY <1>3, <1>4, <2>2
  <2> QED BY <2>1, <2>2
<1>9. CASE y_cnt' = y_cnt /\ Age' = Age + 1
  <2>1. CASE y_cnt < YOn
    <3>1. Ahead = (YOn - y_cnt) * Line - Age /\ Ahead' = (YOn - y_cnt) * Line - (Age + 1)
      BY <1>3, <1>9, <2>1
    <3>2. Ahead' = Ahead - 1 BY <1>0, <1>1, <1>6, <2>1, <3>1
    <3>3. Bit(pop) = 0 BY <1>0, <1>2, <2>1
    <3> QED BY <1>7, <1>8, <1>9, <2>1, <3>2, <3>3
  <2>2. CASE ~(y_cnt < YOn)
    <3>1. Ahead = Low /\ Ahead' = Low2 BY <1>3, <1>9, <2>2
    <3>2. Low2 = Low - (IF ph = 3 /\ sft_cnt = 3 THEN (0 - 15) ELSE 1) BY <1>1, <1>9
    <3>3. Low - 1 + 16 * Bit(pop) <= Low2 BY <1>2, <1>4, <3>2
    <3> QED BY <1>0, <1>7, <1>8, <1>9, <2>2, <3>1, <3>3
  <2> QED BY <2>1, <2>2
<1>10. CASE /\ Age = Line - 1 /\ Age' = 0 /\ ph = 3 /\ sft_cnt = 2 /\ ph' = 0 /\ sft_cnt' = 3
            /\ y_cnt' = IF y_cnt = YLast THEN 0 ELSE y_cnt + 1
  <2>0. Bit(pop) = 0 /\ Low = 4 /\ Low2 = 3 BY <1>2, <1>10
  <2>1. CASE y_cnt < YOn
    <3>1. y_cnt' = y_cnt + 1 BY <1>0, <1>10, <2>1
    <3>2. Ahead = (YOn - y_cnt - 1) * Line + 1 BY <1>0, <1>3, <1>6, <1>10, <2>1
    <3>3. CASE y_cnt + 1 < YOn
      <4>1. YOn - (y_cnt + 1) = YOn - y_cnt - 1 BY <1>0
      <4>2. Ahead' = (YOn - y_cnt - 1) * Line - 0 BY <1>3, <1>10, <3>1, <3>3, <4>1
      <4>3. (YOn - y_cnt - 1) * Line \in Nat BY <1>0, <1>6, <2>1
      <4>4. y_cnt = 0 => Ahead' = (YOn - 1) * Line
        <5>1. y_cnt = 0 => YOn - y_cnt - 1 = YOn - 1 BY <1>0
        <5>2. Ahead' = (YOn - y_cnt - 1) * Line BY <4>2, <4>3
        <5> QED BY <5>1, <5>2
      <4> QED BY <1>7, <1>8, <2>0, <3>1, <3>2, <3>3, <4>2, <4>3, <4>4
    <3>4. CASE ~(y_cnt + 1 < YOn)
      <4>1. YOn - y_cnt - 1 = 0 BY <1>0, <2>1, <3>4
      <4>2. 0 * Line = 0 BY <1>0
      <4>3. Ahead = 1 BY <3>2, <4>1, <4>2
      <4>4. Ahead' = 3 BY <1>3, <2>0, <3>1, <3>4
      <4> QED BY <1>0, <1>7, <1>8, <2>0, <2>1, <3>4, <4>3, <4>4
    <3> QED BY <3>3, <3>4
  <2>2. CASE ~(y_cnt < YOn) /\ y_cnt # YLast
    <3>1. y_cnt' = y_cnt + 1 /\ ~(y_cnt' < YOn) BY <1>0, <1>10, <2>2
    <3>2. Ahead = 4 /\ Ahead' = 3 BY <1>3, <2>0, <2>2, <3>1
    <3> QED BY <1>0, <1>7, <1>8, <2>0, <2>2, <3>2
  <2>3. CASE ~(y_cnt < YOn) /\ y_cnt = YLast
    BY <1>0, <1>7, <1>8, <1>10, <2>3
  <2> QED BY <2>1, <2>2, <2>3
<1> QED BY <1>1, <1>9, <1>10

LEMMA UnseenBounded == UnseenTaken <= RdPopLag
<1>0. RdPopLag \in Nat /\ RdPopLag > 0 BY ReadTypes
<1>1. IsFiniteSet(1..RdPopLag) /\ Cardinality(1..RdPopLag) = RdPopLag
  <2>1. 1 <= RdPopLag BY <1>0
  <2>2. RdPopLag - 1 + 1 = RdPopLag BY <1>0
  <2> QED BY <1>0, <2>1, <2>2, FS_Interval
<1>2. {k \in 1..RdPopLag : rdf_pops[k]} \subseteq 1..RdPopLag OBVIOUS
<1>3. Cardinality({k \in 1..RdPopLag : rdf_pops[k]}) <= Cardinality(1..RdPopLag)
  BY <1>1, <1>2, FS_Subset
<1> QED BY <1>1, <1>3 DEF UnseenTaken

(* No request means words in the FIFO: what the count still holds of the   *)
(* words taken is all it can be wrong by.                                  *)
LEMMA NoRequestMeans ==
  ASSUME FeedAssumption, RdTypeOK, CtrlInv, RoomInv, ~RdRunning, ~rdfifo_clrr, ~sdram_rd_req
  PROVE  RdLevel <= rdf_words + RdPopLag
<1>0. /\ RdDepth \in Nat /\ RdLevel \in Nat /\ RdByte \in Nat /\ RdLevel + RdByte <= RdDepth
      /\ rdf_words \in Nat /\ UnseenTaken \in Nat /\ UnseenTaken <= RdPopLag /\ RdPopLag \in Nat
  BY ReadTypes, UnseenNat, UnseenBounded
     DEF FeedAssumption, PageAssumption, RoomAssumption, RdTypeOK, RdFifoTypeOK
<1>1. Level <= RdLevel - 1 + RdByte /\ Level \in Nat /\ Level = rdf_words + UnseenTaken
  BY <1>0 DEF RoomInv, Allowed, Level
<1>2. Bit(rdf_pushed) = 0
  <2>1. work_state # "RD" BY DEF RdRunning, CtrlInv, DirectionMatches
  <2> QED BY <2>1 DEF RoomInv, Bit
<1>3. rdf_use = Level % RdDepth BY <1>0, <1>2 DEF rdf_use, Level
<1>4. Level % RdDepth = Level BY <1>0, <1>1
<1>5. RdLevel <= Level BY <1>0, <1>1, <1>3, <1>4 DEF sdram_rd_req
<1> QED BY <1>0, <1>1, <1>5

(* A clock of the display costs one; a word pushed gives 16.               *)
LEMMA StockStep ==
  ASSUME FeedAssumption, RdTypeOK, Window, RdFifoNeverFull, ~rdfifo_clrr,
         y_cnt # 0, y_cnt' # 0, NEW wr \in BOOLEAN, RdTick(wr)
  PROVE  /\ Stock \in Int /\ Stock' \in Int /\ Stock = 16 * rdf_words + Ahead
         /\ Stock - 1 + 16 * Bit(rd_ack) <= Stock'
         /\ ~rdfifo_clrr'
<1> DEFINE pop == rdfifo_rdreq /\ ph = 3
           in == rd_ack /\ rdf_words < RdDepth
           out == pop /\ rdf_words > 0
<1>0. /\ LcdTypeOK /\ ph \in 0..3 /\ ph' = (ph + 1) % 4
      /\ IF ph = 3 THEN LcdTick ELSE UNCHANGED lcdVars
      /\ RdFifo(rd_ack, pop) /\ ~rdfifo_clrr' /\ rdf_words \in Nat
  BY ReadTypes DEF RdTick, RdFifoTick, RdTypeOK, RdFifoTypeOK, rdfifo_clr
<1>1. /\ Ahead \in Nat /\ Ahead' \in Int
      /\ Ahead - 1 + 16 * Bit(pop) <= Ahead'
  BY <1>0, AheadStep
<1>2. rdf_words' = rdf_words + Bit(in) - Bit(out)
  BY <1>0 DEF RdFifo
<1>3. Bit(in) = Bit(rd_ack) BY DEF RdFifoNeverFull, Bit
<1>4. Bit(out) <= Bit(pop) /\ Bit(out) \in Int /\ Bit(pop) \in Int /\ Bit(rd_ack) \in Int
  BY DEF Bit
<1>5. Stock = 16 * rdf_words + Ahead /\ Stock' = 16 * rdf_words' + Ahead' BY DEF Stock
<1> HIDE DEF pop, in, out
<1>6. \A w, a, x, i, o, p \in Int : o <= p /\ a - 1 + 16 * p <= x
        => (16 * w + a) - 1 + 16 * i <= 16 * (w + i - o) + x
  OBVIOUS
<1>7. (16 * rdf_words + Ahead) - 1 + 16 * Bit(rd_ack)
        <= 16 * (rdf_words + Bit(rd_ack) - Bit(out)) + Ahead'
  BY <1>0, <1>1, <1>4, <1>6
<1>8. Stock' = 16 * (rdf_words + Bit(rd_ack) - Bit(out)) + Ahead' BY <1>2, <1>3, <1>5
<1>9. Stock \in Int /\ Stock' \in Int
  <2>1. \A w, a, i, o \in Int : 16 * w + a \in Int /\ 16 * (w + i - o) + a \in Int OBVIOUS
  <2>2. Stock \in Int BY <1>0, <1>1, <1>4, <1>5, <2>1
  <2>3. Stock' \in Int BY <1>0, <1>1, <1>4, <1>8, <2>1
  <2> QED BY <2>2, <2>3
<1>10. Stock - 1 + 16 * Bit(rd_ack) <= Stock'
  <2>1. (16 * rdf_words + Ahead) - 1 + 16 * Bit(rd_ack) <= Stock' BY <1>7, <1>8
  <2> QED BY <1>5, <2>1
<1> QED BY <1>0, <1>5, <1>9, <1>10

(* What the next word may still take.                                      *)
ReadNeedRange == ReadNeed \in Int /\ ReadOp - RdByte <= ReadNeed /\ ReadNeed <= MaxReadNeed

LEMMA ReadNeedBounds == CtrlInv /\ wgap \in 0..WrGap => ReadNeedRange
<1> SUFFICES ASSUME CtrlInv, wgap \in 0..WrGap PROVE ReadNeedRange
  OBVIOUS
<1>1. Wait \in Int /\ 0 <= Wait /\ Wait <= MaxWait BY WaitBounded
<1>2. ReadWait \in Int /\ 0 <= ReadWait /\ ReadWait <= 2 * MaxWait + 1
  BY <1>1, FeedSizes DEF ReadWait
<1> QED BY <1>2, FeedSizes DEF ReadNeed, ReadNeedRange

LEMMA ReadNeedBoundsAfter == (CtrlInv /\ wgap \in 0..WrGap => ReadNeedRange)'
BY ReadNeedBounds, PTL

LEMMA ReadNeedBoundsNext ==
  ASSUME CtrlInv', wgap' \in 0..WrGap
  PROVE  ReadNeed' \in Int /\ ReadNeed' <= MaxReadNeed
<1>1. ReadNeedRange' BY ReadNeedBoundsAfter
<1>2. MaxReadNeed' = MaxReadNeed
  BY DEF MaxReadNeed, ReadOp, MaxWait, MaxOp, RefreshTime, Larger, ReadTail, WriteTail
<1> QED BY <1>1, <1>2 DEF ReadNeedRange

(* A read that waits is a clock nearer: a refresh is due once, a write may *)
(* go first once.                                                          *)
LEMMA ReadWaits ==
  ASSUME FeedAssumption, CtrlInv, CtrlInv', RefreshDeadline, init_done, Calm,
         wgap \in 0..WrGap, wgap' \in 0..WrGap, ~RdRunning', sdram_rd_req,
         NEW wr \in BOOLEAN, RdTick(wr)
  PROVE  ReadNeed' <= ReadNeed - 1
<1>0. /\ CtrlTick(wr, sdram_rd_req) /\ sdram_rd_req \in BOOLEAN /\ (wr => wgap = WrGap)
      /\ wgap' = IF work_state' = "ACTIVE" /\ ~sys_r_wn' THEN 0
                 ELSE IF wgap < WrGap THEN wgap + 1 ELSE wgap
  BY DEF RdTick, sdram_rd_req
<1>1. /\ Wait \in Int /\ 0 <= Wait /\ Wait <= MaxWait
      /\ MaxWait \in Nat /\ WrGap \in Nat /\ MaxWait < WrGap
  BY WaitBounded, FeedSizes DEF FeedAssumption
<1>2. Wait' \in Int /\ Wait' <= MaxWait
  <2>1. (CtrlInv => Wait \in Int /\ 0 <= Wait /\ Wait <= MaxWait)' BY WaitBoundedNext
  <2>2. MaxWait' = MaxWait BY DEF MaxWait, MaxOp, RefreshTime, Larger, ReadTail, WriteTail
  <2> QED BY <2>1, <2>2
<1>3. /\ ReadWait = IF wgap + Wait < WrGap THEN Wait ELSE Wait + MaxWait + 1
      /\ ReadWait' = IF wgap' + Wait' < WrGap THEN Wait' ELSE Wait' + MaxWait + 1
  BY DEF ReadWait, MaxWait, MaxOp, RefreshTime, Larger, ReadTail, WriteTail
<1>9. MaxWait \in Int /\ 0 <= MaxWait /\ WrGap \in Int /\ wgap \in Int /\ wgap' \in Int
  BY <1>1
<1>10. ReadWait \in Int /\ ReadWait' \in Int
  <2>1. \A g, w, m, n \in Int : (IF g + w < n THEN w ELSE w + m + 1) \in Int OBVIOUS
  <2>2. ReadWait \in Int BY <1>1, <1>3, <1>9, <2>1
  <2>3. ReadWait' \in Int BY <1>2, <1>3, <1>9, <2>1
  <2> QED BY <2>2, <2>3
<1>4. ReadWait' <= ReadWait - 1
  <2>1. CASE work_state # "IDLE" \/ ref_req
    <3>1. Wait' <= Wait - 1 BY <1>0, <2>1, WaitShorter DEF FeedAssumption
    <3>2. work_state' # "ACTIVE"
      <4>1. CASE work_state # "IDLE"
        <5>1. work_state \in W_States BY DEF CtrlInv, CtrlTypeOK
        <5> QED BY <1>0, <4>1, <5>1, WorkStep DEF W_States, Column
      <4>2. CASE work_state = "IDLE" /\ ref_req
        BY <1>0, <4>2 DEF CtrlTick, WorkFsm, GrantRefresh, GrantWrite, GrantRead, StayIdle,
                          RunOperation, Move
      <4> QED BY <2>1, <4>1, <4>2
    <3>3. wgap' <= wgap + 1 BY <1>0, <1>1, <3>2
    <3>5. \A g, g2, w, w2, m, n \in Int : g2 <= g + 1 /\ w2 <= w - 1 /\ 0 <= m =>
            (IF g2 + w2 < n THEN w2 ELSE w2 + m + 1)
              <= (IF g + w < n THEN w ELSE w + m + 1) - 1
      OBVIOUS
    <3>6. (IF wgap' + Wait' < WrGap THEN Wait' ELSE Wait' + MaxWait + 1)
            <= (IF wgap + Wait < WrGap THEN Wait ELSE Wait + MaxWait + 1) - 1
      BY <1>1, <1>2, <1>9, <3>1, <3>3, <3>5
    <3> QED BY <1>3, <3>6
  <2>2. CASE work_state = "IDLE" /\ ~ref_req /\ wr
    <3>1. work_state' = "ACTIVE" /\ ~sys_r_wn'
      BY <1>0, <2>2 DEF CtrlTick, WorkFsm, GrantRefresh, GrantWrite, GrantRead, StayIdle,
                        RunOperation, Move
    <3>2. wgap' = 0 /\ wgap = WrGap BY <1>0, <2>2, <3>1
    <3>3. Wait = 0 BY <2>2 DEF Wait
    <3>4. ReadWait = MaxWait + 1 BY <1>1, <1>3, <3>2, <3>3
    <3>8. \A a, m, n \in Int : a <= m /\ m < n => 0 + a < n OBVIOUS
    <3>5. 0 + Wait' < WrGap BY <1>1, <1>2, <1>9, <3>8
    <3>6. ReadWait' = Wait' BY <1>3, <3>2, <3>5
    <3> QED BY <1>1, <1>2, <3>4, <3>6
  <2>3. CASE work_state = "IDLE" /\ ~ref_req /\ ~wr
    <3>1. work_state' = "ACTIVE" /\ sys_r_wn'
      BY <1>0, <2>3 DEF CtrlTick, WorkFsm, GrantRefresh, GrantWrite, GrantRead, StayIdle,
                        RunOperation, Move
    <3> QED BY <3>1 DEF RdRunning
  <2> QED BY <2>1, <2>2, <2>3
<1>5. /\ ReadNeed = ReadWait + ReadOp - RdByte
      /\ ReadNeed' = ReadWait' + ReadOp - RdByte
  BY DEF ReadNeed, ReadOp, Larger, ReadTail
<1>6. ReadOp \in Int /\ RdByte \in Int BY FeedSizes
<1>7. \A x, y, p, q \in Int : x <= y - 1 => x + p - q <= (y + p - q) - 1 OBVIOUS
<1>8. ReadWait' + ReadOp - RdByte <= (ReadWait + ReadOp - RdByte) - 1
  BY <1>4, <1>6, <1>7, <1>10
<1> QED BY <1>5, <1>8

(* The clocks of a read operation and its words.                           *)
LEMMA ReadRuns ==
  ASSUME CtrlInv, AckCount, AckAssumption, RdRunning
  PROVE  /\ OpLeft \in Int /\ 1 <= OpLeft /\ acks \in 0..RdByte
         /\ ~rd_ack /\ OpLeft <= RdByte + 1 => acks = RdByte
         /\ work_state = "RD" /\ cnt_clk = RdByte + 2 => OpLeft = 1
<1>0. /\ cnt_clk \in 0..511 /\ RdByte \in 1..256 /\ TRCD = 2 /\ TCL \in 1..511
      /\ OpLeft \in Int /\ 1 <= OpLeft /\ acks \in 0..RdByte
  BY TimingAssumption, OpRuns, AcksBounded
     DEF TimingAssumption, CtrlInv, CtrlTypeOK, AckAssumption, RdRunning
<1>1. OpLeftTable BY OpLeftCases
<1>2. CASE work_state = "RD"
  <2>1. OpLeft = RdByte + 3 - cnt_clk /\ cnt_clk <= RdByte + 2
    BY <1>1, <1>2 DEF OpLeftTable, CtrlInv, CounterInRange
  <2>2. rd_ack <=> cnt_clk > 1 /\ cnt_clk < RdByte + 2 BY <1>2, AckWindow
  <2>3. acks = IF cnt_clk <= 2 THEN 0 ELSE cnt_clk - 2 BY <1>2 DEF AckCount
  <2> QED BY <1>0, <2>1, <2>2, <2>3
<1>3. CASE work_state # "RD"
  <2>1. ReadTail >= RdByte + 5 /\ ReadTail \in Int /\ Larger(1, TRCD) = 2
    BY <1>0 DEF ReadTail, Larger
  <2>2. ColumnTail = ReadTail BY DEF RdRunning, ColumnTail
  <2>3. OpLeft >= RdByte + 4
    BY <1>0, <1>1, <1>3, <2>1, <2>2 DEF RdRunning, OpLeftTable, CtrlInv, CounterInRange
  <2> QED BY <1>0, <1>3, <2>3
<1> QED BY <1>2, <1>3

LEMMA ReadBegins ==
  ASSUME work_state' = "ACTIVE", sys_r_wn'
  PROVE  OpLeft' = ReadOp
<1>1. OpLeft' = Larger(1, TRCD) + ColumnTail' BY OpLeftCases DEF OpLeftTable, Larger
<1>2. ColumnTail' = ReadTail BY DEF ColumnTail, ReadTail
<1> QED BY <1>1, <1>2 DEF ReadOp

FeedBase ==
  /\ RdTypeOK /\ CtrlInv /\ AckCount /\ RoomInv /\ RdFifoNeverFull
  /\ DisplayInv /\ PageInv /\ RefreshDeadline /\ InitCount

LEMMA FeedNext ==
  FeedInv' <=>
    /\ SettleLeft' > 0 => y_cnt' < YOn /\ Enough + MaxReadNeed + 2 + SettleLeft' <= Ahead'
    /\ y_cnt' # 0 =>
         IF rdfifo_clrr' THEN Enough + MaxReadNeed + 1 <= Ahead'
         ELSE IF RdRunning' THEN /\ Enough + Larger(0, OpLeft' - RdByte - 1) <= Stock'
                                 /\ Enough + MaxReadNeed + OpLeft' <= Stock' + 16 * (RdByte - acks')
         ELSE Enough + ReadNeed' <= Stock'
<1>1. Enough' = Enough BY DEF Enough
<1>2. MaxReadNeed' = MaxReadNeed
  BY DEF MaxReadNeed, ReadOp, MaxWait, MaxOp, RefreshTime, Larger, ReadTail, WriteTail
<1>3. Larger(0, OpLeft - RdByte - 1)' = Larger(0, OpLeft' - RdByte - 1) BY DEF Larger
<1> QED BY <1>1, <1>2, <1>3 DEF FeedInv

(* While the controller settles it starts no read.                         *)
LEMMA NoReadYet ==
  ASSUME FeedBase, SettleLeft > 0, NEW wr \in BOOLEAN, NEW rd \in BOOLEAN, CtrlTick(wr, rd)
  PROVE  ~RdRunning /\ ~RdRunning'
<1>1. ~(init_done /\ Calm) BY SettleBounds DEF SettleRange, FeedBase
<1>2. CASE ~init_done
  <2>1. work_state = "IDLE" /\ work_state' = "IDLE"
    BY <1>2, InitClock DEF FeedBase, CtrlInv, DirectionMatches
  <2> QED BY <2>1 DEF RdRunning
<1>3. CASE init_done
  <2>1. work_state \in {"IDLE", "AR", "TRFC"} /\ (work_state = "IDLE" => ref_req)
    BY <1>1, <1>3 DEF Calm
  <2>2. CASE work_state = "IDLE"
    <3>1. work_state' = "AR"
      BY <1>3, <2>1, <2>2 DEF CtrlTick, WorkFsm, GrantRefresh, GrantWrite, GrantRead,
                               StayIdle, RunOperation, Move
    <3> QED BY <2>2, <3>1 DEF RdRunning
  <2>3. CASE work_state \in {"AR", "TRFC"}
    <3>1. work_state' \in {"IDLE", "TRFC"} BY <1>3, <2>3, WorkStep DEF FeedBase
    <3> QED BY <2>3, <3>1 DEF RdRunning
  <2> QED BY <2>1, <2>2, <2>3
<1> QED BY <1>2, <1>3

LEMMA FeedTick ==
  ASSUME FeedAssumption, FeedBase, FeedBase', FeedInv, NEW wr \in BOOLEAN, RdTick(wr)
  PROVE  FeedInv'
<1>0. /\ CtrlTick(wr, sdram_rd_req) /\ sdram_rd_req \in BOOLEAN /\ rd_ack \in BOOLEAN
      /\ rdfifo_clrr' = (y_cnt = 0) /\ ph' = (ph + 1) % 4
      /\ IF ph = 3 THEN LcdTick ELSE UNCHANGED lcdVars
      /\ RdFifo(rd_ack, rdfifo_rdreq /\ ph = 3)
  BY DEF RdTick, RdFifoTick, sdram_rd_req, rd_ack, rdfifo_clr
<1>1. /\ RdTypeOK /\ LcdTypeOK /\ Window /\ ph \in 0..3 /\ CtrlInv /\ CtrlInv' /\ AckCount
      /\ RoomInv /\ RdFifoNeverFull /\ RefreshDeadline /\ InitCount /\ InitCount'
      /\ wgap \in 0..WrGap /\ wgap' \in 0..WrGap /\ AckAssumption /\ QuickRefresh
  BY DEF FeedBase, RdTypeOK, DisplayInv, FeedAssumption, PageAssumption, RoomAssumption
<1>2. /\ YOn \in Nat /\ 1 < YOn /\ Line \in Nat /\ RdPopLag \in Nat /\ RdLevel \in Nat
      /\ Enough \in Int /\ 16 <= Enough /\ RdByte \in Int /\ 1 <= RdByte
      /\ ReadOp \in Int /\ RdByte + 5 <= ReadOp /\ MaxReadNeed \in Int /\ 6 <= MaxReadNeed
      /\ Enough + MaxReadNeed + 1 <= 16 * (RdLevel - RdPopLag)
      /\ MaxReadNeed + ReadOp <= 16 * RdByte
      /\ Enough + MaxReadNeed + 2 <= (YOn - 1) * Line
  BY FeedNumbers, FeedSizes DEF FeedAssumption
<1>3. /\ Ahead \in Nat /\ Ahead' \in Int
      /\ y_cnt < YOn /\ Ahead > 1 => y_cnt' < YOn
      /\ y_cnt = 0 /\ y_cnt' # 0 => Ahead' = (YOn - 1) * Line
      /\ y_cnt' # 0 \/ y_cnt = 0 => Ahead - 1 + 16 * Bit(rdfifo_rdreq /\ ph = 3) <= Ahead'
  BY <1>0, <1>1, AheadStep
<1>4. y_cnt \in Nat /\ y_cnt' \in Nat
  BY RasterTypes DEF FeedBase, RdTypeOK, LcdTypeOK
<1>5. y_cnt' # 0 \/ y_cnt = 0 => Ahead - 1 <= Ahead'
  <2>1. Bit(rdfifo_rdreq /\ ph = 3) \in {0, 1} BY DEF Bit
  <2>2. \A a, b, x \in Int : b \in {0, 1} /\ a - 1 + 16 * b <= x => a - 1 <= x OBVIOUS
  <2> QED BY <1>3, <2>1, <2>2
<1>6. /\ SettleLeft \in Int /\ SettleLeft' \in Int /\ 0 <= SettleLeft
      /\ SettleLeft > 0 => SettleLeft' <= SettleLeft - 1
      /\ SettleLeft = 0 => SettleLeft' = 0 /\ init_done /\ Calm
  BY <1>0, <1>1, SettleStep, SettleBounds DEF SettleRange
<1>7. SettleLeft > 0 => y_cnt < YOn /\ Enough + MaxReadNeed + 2 + SettleLeft <= Ahead
  BY DEF FeedInv
<1>8. ReadNeed' \in Int /\ ReadNeed' <= MaxReadNeed BY <1>1, ReadNeedBoundsNext
<1>9. ReadNeed \in Int /\ ReadOp - RdByte <= ReadNeed BY <1>1, ReadNeedBounds DEF ReadNeedRange
<1>a. \A x, y \in Int : Enough + MaxReadNeed + 1 <= x /\ x - 1 <= y => Enough + ReadNeed' <= y
  <2>1. \A e, m, n, x, y \in Int : n <= m =>
          (e + m + 1 <= x /\ x - 1 <= y => e + n <= y)
    OBVIOUS
  <2> QED BY <1>2, <1>8, <2>1
<1>10. ASSUME SettleLeft' > 0
       PROVE  y_cnt' < YOn /\ Enough + MaxReadNeed + 2 + SettleLeft' <= Ahead'
  <2>1. SettleLeft > 0 /\ SettleLeft' <= SettleLeft - 1 BY <1>6, <1>10
  <2>2. y_cnt < YOn /\ Enough + MaxReadNeed + 2 + SettleLeft <= Ahead BY <1>7, <2>1
  <2>3. Ahead > 1 BY <1>2, <1>3, <1>6, <2>1, <2>2
  <2>4. y_cnt' < YOn BY <1>3, <2>2, <2>3
  <2>5. Ahead - 1 <= Ahead'
    <3>1. CASE y_cnt' # 0 \/ y_cnt = 0 BY <1>5, <3>1
    <3>2. CASE y_cnt' = 0 /\ y_cnt # 0
      <4>1. y_cnt' = y_cnt \/ y_cnt' = y_cnt + 1
        BY <1>0, <1>1, <2>2, <3>2, LineMoves, FeedNumbers
      <4> QED BY <1>4, <3>2, <4>1
    <3> QED BY <3>1, <3>2
  <2>6. \A e, m, s, t, a, b \in Int : t <= s - 1 /\ e + m + 2 + s <= a /\ a - 1 <= b
          => e + m + 2 + t <= b
    OBVIOUS
  <2>7. Ahead \in Int BY <1>3
  <2> QED BY <1>2, <1>3, <1>6, <2>1, <2>2, <2>4, <2>5, <2>6, <2>7
<1>11. CASE y_cnt' = 0 BY <1>10, <1>11, FeedNext
<1>12. CASE y_cnt' # 0 /\ y_cnt = 0
  <2>1. rdfifo_clrr' BY <1>0, <1>12
  <2>2. Ahead' = (YOn - 1) * Line BY <1>3, <1>12
  <2>3. Enough + MaxReadNeed + 1 <= Ahead'
    <3>1. \A e, m, x \in Int : e + m + 2 <= x => e + m + 1 <= x OBVIOUS
    <3> QED BY <1>2, <1>3, <2>2, <3>1
  <2> QED BY <1>10, <2>1, <2>3, FeedNext
<1>13. CASE y_cnt' # 0 /\ y_cnt # 0 /\ rdfifo_clrr
  <2>1. ~rdfifo_clrr' /\ ~RdRunning /\ ~sdram_rd_req
    BY <1>0, <1>13 DEF FeedBase, PageInv, sdram_rd_req
  <2>2. ~RdRunning' BY <1>0, <1>1, <2>1, ReadMoves
  <2>3. rdf_words' = 0 BY <1>0, <1>13 DEF RdFifo
  <2>4. Stock' = Ahead'
    <3>1. Stock' = 16 * rdf_words' + Ahead' BY DEF Stock
    <3>2. \A a \in Int : 16 * 0 + a = a OBVIOUS
    <3> QED BY <1>3, <2>3, <3>1, <3>2
  <2>5. Enough + MaxReadNeed + 1 <= Ahead BY <1>13 DEF FeedInv
  <2>6. Enough + ReadNeed' <= Ahead'
    <3>1. Ahead \in Int /\ Ahead - 1 <= Ahead' BY <1>3, <1>5, <1>13
    <3> QED BY <1>3, <1>a, <2>5, <3>1
  <2> QED BY <1>10, <2>1, <2>2, <2>4, <2>6, FeedNext
<1>14. CASE y_cnt' # 0 /\ y_cnt # 0 /\ ~rdfifo_clrr
  <2>0. /\ Stock \in Int /\ Stock' \in Int /\ Stock = 16 * rdf_words + Ahead
        /\ Stock - 1 + 16 * Bit(rd_ack) <= Stock' /\ ~rdfifo_clrr'
    BY <1>1, <1>14, StockStep
  <2>1. rdf_words \in Nat BY <1>1, ReadTypes DEF RdTypeOK, RdFifoTypeOK
  <2>2. Ahead <= Stock /\ Stock - 1 <= Stock' /\ (rd_ack => Stock + 15 <= Stock')
    <3>1. Bit(rd_ack) = IF rd_ack THEN 1 ELSE 0 BY DEF Bit
    <3>2. \A s, t \in Int : /\ s - 1 + 16 * 0 <= t => s - 1 <= t
                            /\ s - 1 + 16 * 1 <= t => s + 15 <= t /\ s - 1 <= t
      OBVIOUS
    <3>3. Ahead <= Stock BY <1>3, <2>0, <2>1
    <3> QED BY <2>0, <3>1, <3>2, <3>3
  <2>3. CASE SettleLeft > 0
    <3>1. ~RdRunning' BY <1>0, <2>3, NoReadYet
    <3>2. Enough + MaxReadNeed + 2 + SettleLeft <= Ahead BY <1>7, <2>3
    <3>3. Enough + MaxReadNeed + 1 <= Stock BY <1>2, <1>3, <1>6, <2>0, <2>2, <2>3, <3>2
    <3>5. Enough + ReadNeed' <= Stock' BY <1>a, <2>0, <2>2, <3>3
    <3> QED BY <1>10, <2>0, <3>1, <3>5, FeedNext
  <2>4. CASE ~(SettleLeft > 0)
    <3>0. init_done /\ Calm BY <1>6, <2>4
    <3>1. /\ rd_ack => RdRunning /\ RdRunning' /\ acks \in 0..(RdByte - 1) /\ acks' = acks + 1
          /\ RdRunning /\ RdRunning' /\ ~rd_ack => acks' = acks
          /\ ~RdRunning /\ RdRunning' =>
               sdram_rd_req /\ work_state = "IDLE" /\ work_state' = "ACTIVE" /\ acks' = 0
          /\ RdRunning /\ ~RdRunning' =>
               work_state = "RD" /\ cnt_clk = RdByte + 2 /\ acks = RdByte
      BY <1>0, <1>1, ReadMoves
    <3>2. CASE RdRunning
      <4>1. /\ OpLeft \in Int /\ 1 <= OpLeft /\ acks \in 0..RdByte
            /\ ~rd_ack /\ OpLeft <= RdByte + 1 => acks = RdByte
            /\ work_state = "RD" /\ cnt_clk = RdByte + 2 => OpLeft = 1
        BY <1>1, <3>2, ReadRuns
      <4>2. /\ Enough + Larger(0, OpLeft - RdByte - 1) <= Stock
            /\ Enough + MaxReadNeed + OpLeft <= Stock + 16 * (RdByte - acks)
        BY <1>14, <3>2 DEF FeedInv
      <4>3. acks \in Int BY <1>2, <4>1
      <4>4. CASE ~RdRunning'
        <5>1. OpLeft = 1 /\ acks = RdByte BY <3>1, <3>2, <4>1, <4>4
        <5>2. Enough + MaxReadNeed + 1 <= Stock BY <1>2, <2>0, <4>2, <5>1
        <5>4. Enough + ReadNeed' <= Stock' BY <1>a, <2>0, <2>2, <5>2
        <5> QED BY <1>10, <2>0, <4>4, <5>4, FeedNext
      <4>5. CASE RdRunning'
        <5>1. OpLeft' = OpLeft - 1
          <6>1. work_state \notin {"IDLE", "AR"} BY <3>2 DEF RdRunning
          <6> QED BY <1>0, <1>1, <3>0, <6>1, OpLeftStep
        <5>2. acks' = acks + (IF rd_ack THEN 1 ELSE 0) BY <3>1, <3>2, <4>3, <4>5
        <5>3. /\ Enough <= Stock
              /\ OpLeft - RdByte - 1 > 0 => Enough + (OpLeft - RdByte - 1) <= Stock
          BY <1>2, <2>0, <4>1, <4>2 DEF Larger
        <5>4. CASE rd_ack
          <6>1. Enough + Larger(0, (OpLeft - 1) - RdByte - 1) <= Stock'
            BY <1>2, <2>0, <2>2, <4>1, <5>3, <5>4 DEF Larger
          <6>2. \A e, m, l, x, y, b, k \in Int : e + m + l <= x + 16 * (b - k) /\ x + 15 <= y
                  => e + m + (l - 1) <= y + 16 * (b - (k + 1))
            OBVIOUS
          <6>3. Enough + MaxReadNeed + (OpLeft - 1) <= Stock' + 16 * (RdByte - (acks + 1))
            BY <1>2, <2>0, <2>2, <4>1, <4>2, <4>3, <5>4, <6>2
          <6>4. acks' = acks + 1 BY <5>2, <5>4
          <6> QED BY <1>10, <2>0, <4>5, <5>1, <6>1, <6>3, <6>4, FeedNext
        <5>5. CASE ~rd_ack
          <6>1. Enough + Larger(0, (OpLeft - 1) - RdByte - 1) <= Stock'
            <7>1. CASE OpLeft <= RdByte + 1
              <8>1. acks = RdByte BY <4>1, <5>5, <7>1
              <8>2. Enough + MaxReadNeed + OpLeft <= Stock BY <1>2, <2>0, <4>1, <4>2, <8>1
              <8>3. Larger(0, (OpLeft - 1) - RdByte - 1) = 0 BY <1>2, <4>1, <7>1 DEF Larger
              <8>4. \A e, m, l, x, y \in Int : e + m + l <= x /\ 6 <= m /\ 1 <= l /\ x - 1 <= y
                      => e + 0 <= y
                OBVIOUS
              <8>5. Enough + 0 <= Stock' BY <1>2, <2>0, <2>2, <4>1, <8>2, <8>4
              <8> QED BY <8>3, <8>5
            <7>2. CASE ~(OpLeft <= RdByte + 1)
              <8>1. Enough + (OpLeft - RdByte - 1) <= Stock BY <1>2, <4>1, <5>3, <7>2
              <8>2. Larger(0, (OpLeft - 1) - RdByte - 1) = OpLeft - RdByte - 2
                BY <1>2, <4>1, <7>2 DEF Larger
              <8>3. \A e, l, b, x, y \in Int : e + (l - b - 1) <= x /\ x - 1 <= y
                      => e + (l - b - 2) <= y
                OBVIOUS
              <8>4. Enough + (OpLeft - RdByte - 2) <= Stock' BY <1>2, <2>0, <2>2, <4>1, <8>1, <8>3
              <8> QED BY <8>2, <8>4
            <7> QED BY <7>1, <7>2
          <6>2. \A e, m, l, x, y, b, k \in Int : e + m + l <= x + 16 * (b - k) /\ x - 1 <= y
                  => e + m + (l - 1) <= y + 16 * (b - k)
            OBVIOUS
          <6>3. Enough + MaxReadNeed + (OpLeft - 1) <= Stock' + 16 * (RdByte - acks)
            BY <1>2, <2>0, <2>2, <4>1, <4>2, <4>3, <6>2
          <6>4. acks' = acks BY <3>1, <3>2, <4>5, <5>5
          <6> QED BY <1>10, <2>0, <4>5, <5>1, <6>1, <6>3, <6>4, FeedNext
        <5> QED BY <5>4, <5>5
      <4> QED BY <4>4, <4>5
    <3>3. CASE ~RdRunning
      <4>1. Enough + ReadNeed <= Stock BY <1>14, <3>3 DEF FeedInv
      <4>2. CASE RdRunning'
        <5>1. sdram_rd_req /\ work_state' = "ACTIVE" /\ acks' = 0 BY <3>1, <3>3, <4>2
        <5>2. OpLeft' = ReadOp BY <4>2, <5>1, ReadBegins DEF RdRunning
        <5>3. Larger(0, ReadOp - RdByte - 1) = ReadOp - RdByte - 1 BY <1>2 DEF Larger
        <5>4. \A e, n, o, b, x, y \in Int : e + n <= x /\ o - b <= n /\ x - 1 <= y
                => e + (o - b - 1) <= y
          OBVIOUS
        <5>5. Enough + (ReadOp - RdByte - 1) <= Stock'
          BY <1>2, <1>9, <2>0, <2>2, <4>1, <5>4
        <5>6. \A e, o, b, m, y \in Int : e + (o - b - 1) <= y /\ b + 5 <= o /\ m + o <= 16 * b
                => e + m + o <= y + 16 * (b - 0)
          OBVIOUS
        <5>7. Enough + MaxReadNeed + ReadOp <= Stock' + 16 * (RdByte - 0)
          BY <1>2, <2>0, <5>5, <5>6
        <5> QED BY <1>10, <2>0, <4>2, <5>1, <5>2, <5>3, <5>5, <5>7, FeedNext
      <4>3. CASE ~RdRunning' /\ sdram_rd_req
        <5>1. ReadNeed' <= ReadNeed - 1 BY <1>1, <3>0, <4>3, ReadWaits
        <5>2. \A e, n, k, x, y \in Int : e + n <= x /\ k <= n - 1 /\ x - 1 <= y => e + k <= y
          OBVIOUS
        <5>3. Enough + ReadNeed' <= Stock' BY <1>2, <1>8, <1>9, <2>0, <2>2, <4>1, <5>1, <5>2
        <5> QED BY <1>10, <2>0, <4>3, <5>3, FeedNext
      <4>4. CASE ~RdRunning' /\ ~sdram_rd_req
        <5>1. RdLevel <= rdf_words + RdPopLag BY <1>1, <1>14, <3>3, <4>4, NoRequestMeans
        <5>2. 16 * (RdLevel - RdPopLag) <= Stock BY <1>2, <1>3, <2>0, <2>1, <5>1
        <5>3. Enough + MaxReadNeed + 1 <= Stock BY <1>2, <2>0, <5>2
        <5>5. Enough + ReadNeed' <= Stock' BY <1>a, <2>0, <2>2, <5>3
        <5> QED BY <1>10, <2>0, <4>4, <5>5, FeedNext
      <4> QED BY <4>2, <4>3, <4>4
    <3> QED BY <3>2, <3>3
  <2> QED BY <2>3, <2>4
<1> QED BY <1>11, <1>12, <1>13, <1>14

(* A reset, or power-up: the lines above the picture outlast it.           *)
LEMMA FeedStarts ==
  ASSUME FeedAssumption, CtrlInv, InitCount, x_cnt = 0, y_cnt = 0, sft_cnt = 0, ph \in 0..3
  PROVE  FeedInv
<1>1. /\ SettleLeft \in Int /\ SettleLeft <= SettleTime BY SettleBounds DEF SettleRange
<1>2. /\ YOn \in Nat /\ 1 < YOn /\ Line \in Nat /\ Enough \in Int /\ MaxReadNeed \in Int
      /\ SettleTime \in Int /\ Enough + MaxReadNeed + SettleTime + 9 <= YOn * Line
  BY FeedNumbers, FeedSizes DEF FeedAssumption
<1>3. Age = 4 + ph BY DEF Age
<1>4. Ahead = YOn * Line - (4 + ph)
  <2>1. YOn - 0 = YOn /\ 0 < YOn BY <1>2
  <2> QED BY <1>3, <2>1 DEF Ahead
<1>5. PICK n \in Nat : n = YOn * Line BY <1>2, ProductNat
<1>6. Enough + MaxReadNeed + 2 + SettleLeft <= Ahead BY <1>1, <1>2, <1>4, <1>5
<1> QED BY <1>2, <1>6 DEF FeedInv

LEMMA FeedStartsNext ==
  (FeedAssumption /\ CtrlInv /\ InitCount /\ x_cnt = 0 /\ y_cnt = 0 /\ sft_cnt = 0 /\ ph \in 0..3
     => FeedInv)'
<1>1. FeedAssumption /\ CtrlInv /\ InitCount /\ x_cnt = 0 /\ y_cnt = 0 /\ sft_cnt = 0 /\ ph \in 0..3
        => FeedInv
  BY FeedStarts
<1> QED BY <1>1, PTL

LEMMA FeedBaseInvariant == ASSUME FeedAssumption PROVE RdSpec => []FeedBase
<1>1. AckAssumption /\ RoomAssumption /\ PageAssumption
  BY DEF FeedAssumption, PageAssumption, RoomAssumption
<1>2. RdSpec => [](RdTypeOK /\ CtrlInv /\ AckCount /\ RoomInv) /\ []RdFifoNeverFull
  BY <1>1, RoomInvariant, ReadBurstFits
<1>3. RdSpec => []RefreshDeadline
  <2>1. RdInit => CtrlInit BY DEF RdInit
  <2>2. [RdNext]_rdVars => [CtrlNext]_ctrlVars BY RdSteps
  <2>3. RdSpec => CtrlSpec BY <2>1, <2>2, PTL DEF RdSpec, CtrlSpec
  <2> QED BY <2>3, RefreshMeetsDeadline, PTL
<1>4. RdSpec => []InitCount
  <2>1. RdInit => InitCount BY DEF RdInit, CtrlInit, InitCount, I_NOP, I_Wait
  <2>2. CtrlInv /\ InitCount /\ [RdNext]_rdVars => InitCount'
    <3> SUFFICES ASSUME CtrlInv, InitCount, [RdNext]_rdVars PROVE InitCount'
      OBVIOUS
    <3>1. CASE RdReset BY <3>1 DEF RdReset, CtrlReset, InitCount, I_NOP, I_Wait
    <3>2. ASSUME NEW wr \in BOOLEAN, RdTick(wr) PROVE InitCount'
      <4>1. CtrlTick(wr, sdram_rd_req) /\ sdram_rd_req \in BOOLEAN
        BY <3>2 DEF RdTick, sdram_rd_req
      <4> QED BY <4>1, InitCountTick
    <3>3. CASE UNCHANGED rdVars BY <3>3 DEF rdVars, ctrlVars, InitCount
    <3> QED BY <3>1, <3>2, <3>3, RdSteps
  <2> QED BY <1>2, <2>1, <2>2, PTL DEF RdSpec
<1>5. RdSpec => []PageInv
  <2>1. RdTypeOK /\ CtrlInv /\ CtrlInv' /\ AckCount /\ RoomInv /\ RdFifoNeverFull
          /\ DisplayInv /\ PageInv /\ [RdNext]_rdVars => PageInv'
    BY <1>1, PageStep
  <2> QED BY <1>2, <2>1, PageInit, DisplayInvariant, PTL DEF RdSpec
<1>6. RdTypeOK /\ CtrlInv /\ AckCount /\ RoomInv /\ RdFifoNeverFull
        /\ DisplayInv /\ PageInv /\ RefreshDeadline /\ InitCount
        => FeedBase
  BY DEF FeedBase
<1> QED BY <1>2, <1>3, <1>4, <1>5, <1>6, DisplayInvariant, PTL

LEMMA FeedStep ==
  ASSUME FeedAssumption
  PROVE  FeedBase /\ FeedBase' /\ FeedInv /\ [RdNext]_rdVars => FeedInv'
<1> SUFFICES ASSUME FeedBase, FeedBase', FeedInv, [RdNext]_rdVars PROVE FeedInv'
  OBVIOUS
<1>1. CASE RdReset
  <2>1. x_cnt' = 0 /\ y_cnt' = 0 /\ sft_cnt' = 0 BY <1>1 DEF RdReset, LcdReset
  <2>2. ph' \in 0..3 /\ CtrlInv' /\ InitCount' BY DEF FeedBase, RdTypeOK
  <2>3. FeedAssumption'
    BY DEF FeedAssumption, PageAssumption, RoomAssumption, AckAssumption, QuickRefresh,
           FrameWords, RowWords, Enough, MaxReadNeed, ReadOp, Line, MaxWait, MaxOp, SettleTime,
           LongestWait, RefreshTime, Larger, ReadTail, WriteTail
  <2> QED BY <2>1, <2>2, <2>3, FeedStartsNext
<1>2. ASSUME NEW wr \in BOOLEAN, RdTick(wr) PROVE FeedInv'
  BY <1>2, FeedTick
<1>3. CASE UNCHANGED rdVars
  <2>1. UNCHANGED <<ctrlVars, rdFifoVars, lcdVars, ph, wgap>> BY <1>3 DEF rdVars
  <2>2. OpLeft' = OpLeft /\ RefAge' = RefAge
    BY <2>1 DEF ctrlVars, OpLeft, ColumnTail, ReadTail, WriteTail, Larger, RefAge
  <2>3. Wait' = Wait BY <2>1, <2>2 DEF ctrlVars, Wait, RefreshTime
  <2>4. ReadNeed' = ReadNeed
    BY <2>1, <2>3 DEF ReadNeed, ReadWait, ReadOp, Larger, ReadTail, MaxWait, MaxOp, RefreshTime,
                      WriteTail
  <2>5. Calm' <=> Calm
    BY <2>1, <2>2 DEF ctrlVars, Calm, MaxOp, Larger, ReadTail, WriteTail
  <2>6. InitLeft' = InitLeft BY <2>1 DEF ctrlVars, InitLeft, LongestWait, Larger
  <2>7. SettleLeft' = SettleLeft
    BY <2>1, <2>2, <2>5, <2>6 DEF ctrlVars, SettleLeft, init_done, RefreshTime
  <2>8. Ahead' = Ahead BY <2>1 DEF lcdVars, Ahead, Age, Line
  <2>9. Stock' = Stock BY <2>1, <2>8 DEF rdFifoVars, Stock
  <2>10. RdRunning' <=> RdRunning BY <2>1 DEF ctrlVars, RdRunning
  <2>11. y_cnt' = y_cnt /\ rdfifo_clrr' = rdfifo_clrr /\ acks' = acks
    BY <2>1 DEF ctrlVars, rdFifoVars, lcdVars
  <2> QED BY <2>2, <2>4, <2>7, <2>8, <2>9, <2>10, <2>11, FeedNext DEF FeedInv
<1> QED BY <1>1, <1>2, <1>3, RdSteps

(* A word is there for every pixel, and long enough to be seen on the      *)
(* display's clock, for every size of FIFO, burst, raster and delay that   *)
(* fits: whatever refreshes and writes go first, from the first line of the*)
(* picture on, in every frame and after every reset.                       *)
THEOREM DisplayIsFed ==
  ASSUME FeedAssumption
  PROVE  RdSpec => []LcdNeverStarves
<1>1. FeedBase /\ FeedInv => LcdNeverStarves
  <2> SUFFICES ASSUME FeedBase, FeedInv, rdfifo_rdreq, ph = 3 PROVE rdf_words > RdPopLag
    BY DEF LcdNeverStarves
  <2>0. /\ YOn \in Nat /\ 1 < YOn /\ RdPopLag \in Nat
        /\ Enough \in Nat /\ Enough = 16 * (RdPopLag + 1) /\ RdByte \in Int /\ ReadOp \in Int /\ RdByte + 5 <= ReadOp /\ rdf_words \in Nat
        /\ y_cnt \in Nat
    BY FeedNumbers, FeedSizes, RasterTypes, ReadTypes
       DEF FeedBase, RdTypeOK, RdFifoTypeOK, LcdTypeOK
  <2>1. sft_cnt = 3 /\ YOn <= y_cnt
    BY <2>0, RasterTypes DEF rdfifo_rdreq, FeedBase, DisplayInv, Window
  <2>2. y_cnt # 0 /\ ~rdfifo_clrr BY <2>0, <2>1 DEF FeedBase, DisplayInv
  <2>3. Stock = 16 * rdf_words + 0
    <3>1. ~(y_cnt < YOn) BY <2>0, <2>1
    <3>2. Ahead = 0 BY <2>1, <3>1 DEF Ahead
    <3> QED BY <3>2 DEF Stock
  <2>4. Enough <= Stock
    <3>1. CASE RdRunning
      <4>1. Enough + Larger(0, OpLeft - RdByte - 1) <= Stock BY <2>2, <3>1 DEF FeedInv
      <4>2. OpLeft \in Int BY OpRuns, <3>1 DEF RdRunning, FeedBase
      <4> QED BY <2>0, <2>3, <4>1, <4>2 DEF Larger
    <3>2. CASE ~RdRunning
      <4>1. Enough + ReadNeed <= Stock BY <2>2, <3>2 DEF FeedInv
      <4>2. ReadNeed \in Int /\ ReadOp - RdByte <= ReadNeed
        BY ReadNeedBounds DEF FeedBase, RdTypeOK, ReadNeedRange
      <4> QED BY <2>0, <2>3, <4>1, <4>2
    <3> QED BY <3>1, <3>2
  <2> QED BY <2>0, <2>3, <2>4
<1>2. RdInit /\ FeedBase => FeedInv
  BY FeedStarts DEF RdInit, LcdInit, FeedBase
<1>3. FeedBase /\ FeedBase' /\ FeedInv /\ [RdNext]_rdVars => FeedInv'
  BY FeedStep
<1> QED BY FeedBaseInvariant, <1>1, <1>2, <1>3, PTL DEF RdSpec

(* Each pixel gets its own word: line and column of the raster give the    *)
(* number of the word, in every frame and across resets                    *)
(* (lcd_driver.v:62-64, 89).                                               *)
THEOREM PixelsInPlace ==
  ASSUME FeedAssumption
  PROVE  RdSpec => []PixelInPlace
<1>1. WordCapAssumption
  BY ReadTypes, RasterSizes DEF FeedAssumption, PageAssumption, WordCapAssumption
<1>2. RdSpec /\ []LcdNeverStarves => []PixelInPlace BY <1>1, PixelsFollow
<1> QED BY <1>2, DisplayIsFed, PTL
=============================================================================
