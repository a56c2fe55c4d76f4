------------------------------- MODULE SdrPara -------------------------------
(***************************************************************************)
(* Timing parameters, state names and end-of-wait conditions shared by the *)
(* SDRAM controller modules (P04_VideoCapSys/sdr_para.v, included by       *)
(* sdram_ctrl.v, sdram_cmd.v and sdram_wr_data.v).                         *)
(*                                                                         *)
(* The numeric parameters of the source are CONSTANTS here, so that one    *)
(* text serves the shipped values and the small ones TLC enumerates.       *)
(***************************************************************************)
EXTENDS Integers

CONSTANTS
  PowerUp,    \* clocks of power-up wait          (20000 in the source)
  RefPeriod,  \* clocks between refresh requests  (1500)
  TRP,        \* precharge wait                   (4)
  TRFC,       \* auto-refresh wait                (6)
  TMRD,       \* mode-register wait               (6)
  TRCD,       \* row-to-column wait               (2)
  TCL,        \* CAS latency                      (3)
  TDAL,       \* write recovery wait              (3)
  WrByte,     \* words per write burst, sdwr_byte (160)
  RdByte      \* words per read burst, sdrd_byte  (160)

(* The waits are 9-bit Verilog parameters and the burst lengths 9-bit      *)
(* ports; cnt_15us and cnt_200us count from zero to their limits.  W_TRCD  *)
(* compares the counter with TRCD - 1 although W_ACTIVE has counted one    *)
(* clock already, so TRCD = 1 would wait until the 9-bit counter wraps.    *)
ASSUME TimingAssumption ==
  /\ PowerUp \in Nat
  /\ RefPeriod \in Nat /\ RefPeriod >= 2
  /\ TRP \in 0..511 /\ TRFC \in 0..511 /\ TMRD \in 0..511
  /\ TRCD \in (0..511) \ {1} /\ TCL \in 1..511 /\ TDAL \in 0..511
  /\ WrByte \in 1..256 /\ RdByte \in 1..256

-----------------------------------------------------------------------------
(* Initialisation states.  Odd states issue a command for one clock, the   *)
(* even state after each waits for that command's recovery time.           *)
I_NOP  == 0
I_PRE  == 1
I_MRS  == 19
I_DONE == 21
I_AR     == {3, 5, 7, 9, 11, 13, 15, 17}
I_Issue  == {I_PRE, I_MRS} \cup I_AR
I_Wait   == {2, 4, 6, 8, 10, 12, 14, 16, 18, 20}
I_States == 0..21

(* Working states; W_RWAIT is declared in the source and never entered.    *)
W_States == {"IDLE", "ACTIVE", "TRCD", "READ", "CL", "RD",
             "WRITE", "WD", "TDAL", "AR", "TRFC"}

(* Commands on the pins {cke, cs_n, ras_n, cas_n, we_n}.                   *)
Commands == {"INIT", "NOP", "ACTIVE", "READ", "WRITE", "B_STOP",
             "PRGE", "A_REF", "LMR"}

(* The wait that follows the command of an initialisation state.           *)
InitDelay(s) == CASE s \in {1, 2}   -> TRP
                  [] s \in 3..18    -> TRFC
                  [] OTHER          -> TMRD

(* End-of-wait conditions on the delay counter c.  The comparisons with a  *)
(* literal are 32 bits wide in the source, so a limit below zero is never  *)
(* met.                                                                    *)
end_init(s, c) == c = InitDelay(s)
end_trfc(c)    == c = TRFC
end_trcd(c)    == c = TRCD - 1
end_tcl(c)     == c = TCL - 1
end_rdburst(c) == c = RdByte - 4
end_tread(c)   == c = RdByte + 2
end_twrite(c)  == c = WrByte - 1
end_tdal(c)    == c = TDAL

(* Faulty form: the write burst is stopped one word early.                 *)
EarlyStop(c)   == c = WrByte - 2

end_wrburst(c) == c = WrByte - 1
=============================================================================
