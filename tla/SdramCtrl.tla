------------------------------ MODULE SdramCtrl ------------------------------
(***************************************************************************)
(* The SDRAM state controller, P04_VideoCapSys/sdram_ctrl.v: power-up and  *)
(* initialisation sequence, periodic refresh request, and the arbiter that *)
(* turns write, read and refresh requests into timed operations.           *)
(*                                                                         *)
(* All always-blocks share clk, so one Tick is one rising edge: every      *)
(* process below reads the registers before the edge and writes its own.   *)
(* The request inputs are whatever the FIFO side drives in that clock.     *)
(***************************************************************************)
EXTENDS SdrPara

VARIABLES
  cnt_200us,   \* power-up clocks counted so far
  init_state,  \* initialisation state, init_state_r
  cnt_15us,    \* refresh period counter
  ref_req,     \* sdram_ref_req
  work_state,  \* working state, work_state_r
  sys_r_wn,    \* TRUE: read or refresh, FALSE: write
  cnt_clk,     \* delay counter, cnt_clk_r
  acks         \* history: acknowledge clocks seen in this operation

ctrlVars == <<cnt_200us, init_state, cnt_15us, ref_req, work_state,
              sys_r_wn, cnt_clk, acks>>

init_done == init_state = I_DONE
ref_ack   == work_state = "AR"

(* Faulty form: the write window closes one clock late.                    *)
LateWrAck == \/ work_state = "TRCD" /\ ~sys_r_wn
             \/ work_state = "WRITE"
             \/ work_state = "WD" /\ cnt_clk < (WrByte - 1) % 512

(* The wires the FIFO side sees.  The right-hand sides are 9 bits wide.    *)
wr_ack == \/ work_state = "TRCD" /\ ~sys_r_wn
          \/ work_state = "WRITE"
          \/ work_state = "WD" /\ cnt_clk < (WrByte - 2) % 512
rd_ack == work_state = "RD" /\ cnt_clk > 1 /\ cnt_clk < (RdByte + 2) % 512

-----------------------------------------------------------------------------
(* sys_r_wn has no reset: it powers up with either value.                  *)
CtrlInit ==
  /\ cnt_200us = 0 /\ cnt_15us = 0 /\ cnt_clk = 0
  /\ init_state = I_NOP /\ work_state = "IDLE"
  /\ ref_req = FALSE /\ sys_r_wn \in BOOLEAN /\ acks = 0

PowerUpTimer ==
  cnt_200us' = IF cnt_200us < PowerUp THEN cnt_200us + 1 ELSE cnt_200us

InitFsm ==
  init_state' =
    CASE init_state = I_NOP     -> IF cnt_200us = PowerUp THEN I_PRE ELSE I_NOP
      [] init_state \in I_Issue -> init_state + (IF InitDelay(init_state) = 0
                                                   THEN 2 ELSE 1)
      [] init_state \in I_Wait  -> IF end_init(init_state, cnt_clk)
                                     THEN init_state + 1 ELSE init_state
      [] OTHER                  -> init_state

(* A new request wins over the acknowledgement of the previous one.        *)
RefreshTimer ==
  /\ cnt_15us' = IF cnt_15us < RefPeriod - 1 THEN cnt_15us + 1 ELSE 0
  /\ ref_req' = (cnt_15us = RefPeriod - 2 \/ (ref_req /\ ~ref_ack))

(* From W_IDLE: refresh before write before read, none of them before the  *)
(* initialisation is done.                                                 *)
GrantRefresh ==
  /\ work_state = "IDLE" /\ init_done /\ ref_req
  /\ work_state' = "AR" /\ sys_r_wn' = TRUE

(* Faulty form: writes do not yield to a pending refresh.                  *)
GreedyWrite(wr) ==
  /\ work_state = "IDLE" /\ init_done /\ wr
  /\ work_state' = "ACTIVE" /\ sys_r_wn' = FALSE

GrantWrite(wr) ==
  /\ work_state = "IDLE" /\ init_done /\ ~ref_req /\ wr
  /\ work_state' = "ACTIVE" /\ sys_r_wn' = FALSE

(* Faulty form: reads do not yield to a pending write.                     *)
GreedyRead(wr, rd) ==
  /\ work_state = "IDLE" /\ init_done /\ ~ref_req /\ rd
  /\ work_state' = "ACTIVE" /\ sys_r_wn' = TRUE

GrantRead(wr, rd) ==
  /\ work_state = "IDLE" /\ init_done /\ ~ref_req /\ ~wr /\ rd
  /\ work_state' = "ACTIVE" /\ sys_r_wn' = TRUE

StayIdle(wr, rd) ==
  /\ work_state = "IDLE" /\ (~init_done \/ (~ref_req /\ ~wr /\ ~rd))
  /\ work_state' = "IDLE" /\ sys_r_wn' = TRUE

Move(from, done, to) ==
  /\ work_state = from
  /\ work_state' = IF done THEN to ELSE from
  /\ UNCHANGED sys_r_wn

Column == IF sys_r_wn THEN "READ" ELSE "WRITE"

RunOperation ==
  \/ Move("ACTIVE", TRUE, IF TRCD = 0 THEN Column ELSE "TRCD")
  \/ Move("TRCD", end_trcd(cnt_clk), Column)
  \/ Move("READ", TRUE, "CL")
  \/ Move("CL", end_tcl(cnt_clk), "RD")
  \/ Move("RD", end_tread(cnt_clk), "IDLE")
  \/ Move("WRITE", TRUE, "WD")
  \/ Move("WD", end_twrite(cnt_clk), "TDAL")
  \/ Move("TDAL", end_tdal(cnt_clk), "IDLE")
  \/ Move("AR", TRUE, IF TRFC = 0 THEN "IDLE" ELSE "TRFC")
  \/ Move("TRFC", end_trfc(cnt_clk), "IDLE")

WorkFsm(wr, rd) ==
  \/ GrantRefresh \/ GrantWrite(wr) \/ GrantRead(wr, rd) \/ StayIdle(wr, rd)
  \/ RunOperation

(* Faulty form: the counter does not run in the write recovery wait.       *)
NoRecoveryCount == init_done /\ work_state \in {"ACTIVE", "WD"}

(* cnt_rst_n: the counter runs through each wait and is cleared at its end *)
(* and in every state that is not listed.                                  *)
cnt_run ==
  CASE init_state \in I_Issue -> InitDelay(init_state) # 0
    [] init_state \in I_Wait  -> ~end_init(init_state, cnt_clk)
    [] init_done ->
         \/ work_state = "ACTIVE" /\ TRCD # 0
         \/ work_state = "TRCD" /\ ~end_trcd(cnt_clk)
         \/ work_state = "CL"   /\ ~end_tcl(cnt_clk)
         \/ work_state = "RD"   /\ ~end_tread(cnt_clk)
         \/ work_state = "WD"   /\ ~end_twrite(cnt_clk)
         \/ work_state = "TDAL" /\ ~end_tdal(cnt_clk)
         \/ work_state = "TRFC" /\ ~end_trfc(cnt_clk)
    [] OTHER -> FALSE

DelayCounter ==
  cnt_clk' = IF cnt_run /\ cnt_clk < 511 THEN cnt_clk + 1 ELSE 0

CountAcks ==
  acks' = IF work_state = "IDLE" THEN 0
          ELSE IF wr_ack \/ rd_ack THEN acks + 1 ELSE acks

CtrlTick(wr, rd) ==
  /\ PowerUpTimer /\ InitFsm /\ RefreshTimer /\ WorkFsm(wr, rd) /\ DelayCounter
  /\ CountAcks

(* rst_n is asynchronous and may fall in any clock of any operation.       *)
CtrlReset ==
  /\ cnt_200us' = 0 /\ cnt_15us' = 0 /\ cnt_clk' = 0
  /\ init_state' = I_NOP /\ work_state' = "IDLE"
  /\ ref_req' = FALSE /\ acks' = 0 /\ UNCHANGED sys_r_wn

CtrlNext == CtrlReset \/ \E wr, rd \in BOOLEAN : CtrlTick(wr, rd)

CtrlSpec == CtrlInit /\ [][CtrlNext]_ctrlVars

-----------------------------------------------------------------------------
(* Clocks until W_IDLE, counting this one, in each working state.          *)
WriteTail == WrByte + TDAL + 2
ReadTail  == TCL + RdByte + 4
ColumnTail      == IF sys_r_wn THEN ReadTail ELSE WriteTail
Larger(a, b) == IF a > b THEN a ELSE b

OpLeft ==
  CASE work_state = "IDLE"   -> 0
    [] work_state = "ACTIVE" -> Larger(1, TRCD) + ColumnTail
    [] work_state = "TRCD"   -> TRCD - cnt_clk + ColumnTail
    [] work_state = "READ"   -> ReadTail
    [] work_state = "CL"     -> TCL - cnt_clk + RdByte + 3
    [] work_state = "RD"     -> RdByte + 3 - cnt_clk
    [] work_state = "WRITE"  -> WriteTail
    [] work_state = "WD"     -> WrByte - cnt_clk + TDAL + 1
    [] work_state = "TDAL"   -> TDAL + 1 - cnt_clk
    [] work_state = "AR"     -> TRFC + 2
    [] work_state = "TRFC"   -> TRFC + 1 - cnt_clk

MaxOp == Larger(TRFC + 2, Larger(1, TRCD) + Larger(ReadTail, WriteTail))

(* Clocks since the refresh timer last raised its request.                 *)
RefAge == IF cnt_15us = RefPeriod - 1 THEN 0 ELSE cnt_15us + 1

CtrlTypeOK ==
  /\ cnt_200us \in 0..PowerUp /\ init_state \in I_States
  /\ cnt_15us \in 0..(RefPeriod - 1) /\ ref_req \in BOOLEAN
  /\ work_state \in W_States /\ sys_r_wn \in BOOLEAN
  /\ cnt_clk \in 0..511 /\ acks \in Nat

(* A refresh request never waits longer than the operation it met: the     *)
(* clocks it has waited and the clocks left of that operation stay within  *)
(* the longest operation (sdram_ctrl.v:145 gives refresh priority, and no  *)
(* burst can follow another while a request is pending).                   *)
RefreshDeadline ==
  ref_req /\ work_state \notin {"IDLE", "AR"} => RefAge + OpLeft <= MaxOp

(* Every wait starts from a cleared counter: an operation that inherited a *)
(* count from the one before would cut its wait short (sdram_ctrl.v:207).  *)
CounterCleared ==
  init_done /\ work_state \in {"IDLE", "ACTIVE", "READ", "WRITE", "AR"}
    => cnt_clk = 0

(* The FIFO side is popped or pushed exactly once per word of the burst:   *)
(* the acknowledge window (sdram_ctrl.v:187-189), which is put together    *)
(* from three states, has as many clocks as the burst has words.           *)
AcksMatchBurst ==
  /\ work_state = "TDAL" => acks = WrByte
  /\ work_state = "RD" /\ end_tread(cnt_clk) => acks = RdByte
=============================================================================
