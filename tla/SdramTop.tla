------------------------------ MODULE SdramTop -------------------------------
(***************************************************************************)
(* The controller as its surroundings see it (P04_VideoCapSys/sdram_top.v):*)
(* the state controller and the command registers of SdramCmd, driven by   *)
(* any requests and any pages, with history variables that watch the pins. *)
(***************************************************************************)
EXTENDS SdramCmd

CONSTANTS
  Pages,   \* page numbers the FIFO side may present
  GapCap   \* bound of the clock count gap

VARIABLES
  last, gap, nref, ready,  \* what the chip remembers, see SdramProtocol
  sinceRef                 \* clocks since the last A_REF on the pins

chipVars == <<last, gap, nref, ready>>
vars == <<topVars, chipVars, sinceRef>>

Chip == INSTANCE SdramProtocol WITH
  tRP <- TRP, tRFC <- TRFC, tMRD <- TMRD, tRCD <- TRCD, tDAL <- TDAL,
  WrWords <- WrByte, RdWords <- RdByte

-----------------------------------------------------------------------------
(* No A_REF is further back than this once the chip is in use.             *)
Retention == RefPeriod + MaxOp + 2

-----------------------------------------------------------------------------
Init ==
  /\ TopInit
  /\ last = "INIT" /\ gap = 0 /\ nref = 0 /\ ready = FALSE
  /\ sinceRef = 0

Watch ==
  /\ Chip!Observe(cmd')
  /\ sinceRef' = IF cmd' = "A_REF" THEN 0
                 ELSE IF ready /\ sinceRef <= Retention THEN sinceRef + 1
                 ELSE sinceRef

Tick(wr, rd, wrpage, rdpage) ==
  TopTick(wr, rd, wrpage, rdpage, 0) /\ Watch

Reset ==
  /\ TopReset
  /\ last' = "INIT" /\ gap' = 0 /\ nref' = 0 /\ ready' = FALSE
  /\ sinceRef' = 0

Ticks == \E wr, rd \in BOOLEAN, wp, rp \in Pages : Tick(wr, rd, wp, rp)
Next == Reset \/ Ticks
Spec == Init /\ [][Next]_vars

(* The clock never stops; rst_n stays high from some time on.              *)
FairSpec == Spec /\ WF_vars(Ticks) /\ <>[][Ticks]_vars

-----------------------------------------------------------------------------
TypeOK ==
  /\ CtrlTypeOK
  /\ cmd \in Commands /\ ba \in 0..(Banks - 1) /\ sdr_dlink \in BOOLEAN
  /\ last \in Commands \ {"NOP"} /\ gap \in 0..GapCap
  /\ nref \in 0..8 /\ ready \in BOOLEAN
  /\ sinceRef \in 0..(Retention + 1)

(* The chip is refreshed in time: between two A_REF on the pins pass at    *)
(* most one refresh period and one operation, so no request is lost or     *)
(* merged with the next (sdram_ctrl.v:129-132).                            *)
RefreshedInTime == sinceRef <= Retention

(* The FPGA drives the data bus in exactly the clocks in which the chip    *)
(* takes a word of a write burst, and in the one of its BURST STOP.        *)
DriveWindow ==
  sdr_dlink <=> last = "WRITE" \/ (cmd = "B_STOP" /\ ~sys_r_wn)

(* A read burst is stopped after RdByte words, whatever length from 1 to   *)
(* 256 is asked for (sdram_cmd.v:38 gives that range).                     *)
ReadBurstStops == last = "READ" => gap < RdByte

(* The controller obeys the chip's protocol, across resets in any clock.   *)
ObeysChip == Chip!Spec

(* Once the resets end, every operation ends and the arbiter is asked      *)
(* again: no wait state is left with a count it has already passed.        *)
OperationsEnd == []<>(init_done /\ work_state = "IDLE")
=============================================================================
