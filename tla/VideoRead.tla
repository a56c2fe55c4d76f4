------------------------------ MODULE VideoRead ------------------------------
(***************************************************************************)
(* The path of the picture out of the SDRAM (P04_VideoCapSys/ex23.v): the  *)
(* SDRAM controller, the read half of sdfifo_ctrl and the display driver,  *)
(* one clock of clk_100m per step.  clk_25m comes from the same PLL: the   *)
(* display moves in every fourth step.                                     *)
(*                                                                         *)
(* Write requests are the camera's: they come at any time, at least WrGap  *)
(* clocks after the last write was granted.                                *)
(***************************************************************************)
EXTENDS SdramCtrl, SdFifoRead, LcdDriver

CONSTANT WrGap

ASSUME WriteRateAssumption == WrGap \in Nat

VARIABLES
  ph,    \* clock of clk_100m within one of clk_25m
  wgap   \* clocks since the last write was granted, at most WrGap

rdVars == <<ctrlVars, rdFifoVars, lcdVars, ph, wgap>>

RdInit == CtrlInit /\ RdFifoInit /\ LcdInit /\ ph = 0 /\ wgap = 0

RdTick(wr) ==
  /\ wr => wgap = WrGap
  /\ CtrlTick(wr, sdram_rd_req)
  /\ wgap' = IF work_state' = "ACTIVE" /\ ~sys_r_wn' THEN 0
             ELSE IF wgap < WrGap THEN wgap + 1 ELSE wgap
  /\ RdFifoTick(rd_ack, rdfifo_clr, rdfifo_rdreq /\ ph = 3)
  /\ ph' = (ph + 1) % 4
  /\ IF ph = 3 THEN LcdTick ELSE UNCHANGED lcdVars

RdReset ==
  /\ CtrlReset /\ RdFifoReset /\ LcdReset
  /\ UNCHANGED <<ph, wgap>>

RdNext == RdReset \/ \E wr \in BOOLEAN : RdTick(wr)
RdSpec == RdInit /\ [][RdNext]_rdVars

-----------------------------------------------------------------------------
RdTypeOK ==
  /\ CtrlTypeOK /\ RdFifoTypeOK /\ LcdTypeOK /\ ph \in 0..3 /\ wgap \in 0..WrGap

(* The request below RdLevel words leaves room for the whole burst it asks *)
(* for (sdfifo_ctrl.v:82): no word is pushed into a full FIFO, whatever    *)
(* waited in between.                                                      *)
RdFifoNeverFull == rd_ack /\ ~rdfifo_clrr => rdf_words < RdDepth

(* A read burst opens the row of the page that holds the next words of the *)
(* frame, and the page is still the same at its column command; a clear in *)
(* the middle of a burst leaves the next frame starting at page 0.         *)
ReadPagesInStep ==
  work_state \in {"ACTIVE", "TRCD", "READ"} /\ sys_r_wn /\ ~rdfifo_clrr
    => fetched = sys_rdabr * RdByte

(* A word is there for every pixel, and it is there long enough to be seen *)
(* on the display's clock, although writes and refreshes go first.         *)
LcdNeverStarves == rdfifo_rdreq /\ ph = 3 => rdf_words > RdPopLag

(* Each pixel gets its own word: column and line of the raster give the    *)
(* number of words taken so far in the frame.                              *)
PixelInPlace ==
  rdfifo_rdreq /\ ph = 3
    => taken = (y_cnt - YOn) * (XOff - XOn) + (x_cnt - XOn - 1)
=============================================================================
