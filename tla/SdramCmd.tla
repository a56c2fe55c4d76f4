------------------------------- MODULE SdramCmd -------------------------------
(***************************************************************************)
(* The command and data registers in front of the SDRAM pins:              *)
(* P04_VideoCapSys/sdram_cmd.v and sdram_wr_data.v, which sdram_top.v      *)
(* wires to the state controller.  They share its clock, so TopTick is one *)
(* rising edge of the whole controller.                                    *)
(*                                                                         *)
(* An address is a page (one row of one bank); every burst starts at       *)
(* column 0 (sdfifo_ctrl.v drives sys_wraddr = {page, 8'd0}).              *)
(***************************************************************************)
EXTENDS SdramCtrl

CONSTANTS
  Rows,   \* rows of a bank (4096)
  Banks   \* banks          (4)

ASSUME GeometryAssumption == Rows \in Nat \ {0} /\ Banks \in Nat \ {0}

VARIABLES
  cmd,        \* command on the pins, sdram_cmd_r
  ba,         \* bank on the pins, sdram_ba_r
  addr,       \* address on the pins: a row, a column, the mode word or idle
  sdr_din,    \* word driven onto the data bus
  sdr_dlink   \* TRUE: the FPGA drives the data bus

cmdVars == <<cmd, ba, addr>>
datVars == <<sdr_din, sdr_dlink>>
topVars == <<ctrlVars, cmdVars, datVars>>

BankOf(page) == (page \div Rows) % Banks
RowOf(page)  == page % Rows

Idle   == <<"idle", 0>>   \* 12'hfff
Column0 == <<"col", 0>>   \* A10 set, column zero
Mode   == <<"mode", 0>>   \* CAS latency 3, sequential, full page
Row(r) == <<"row", r>>

Pins(c, b, a) == cmd' = c /\ ba' = b /\ addr' = a
Quiet(c)      == Pins(c, Banks - 1, Idle)

(* BURST STOP replaces the command and leaves the address pins as they are.*)
StopOrQuiet(stop) == IF stop THEN cmd' = "B_STOP" /\ UNCHANGED <<ba, addr>>
                             ELSE Quiet("NOP")

WorkCmd(page) ==
  CASE work_state = "ACTIVE" -> Pins("ACTIVE", BankOf(page), Row(RowOf(page)))
    [] work_state = "READ"   -> Pins("READ",  BankOf(page), Column0)
    [] work_state = "WRITE"  -> Pins("WRITE", BankOf(page), Column0)
    [] work_state = "RD"     -> StopOrQuiet(end_rdburst(cnt_clk))
    [] work_state = "WD"     -> StopOrQuiet(end_wrburst(cnt_clk))
    [] work_state = "AR"     -> Quiet("A_REF")
    [] OTHER                 -> Quiet("NOP")

(* sys_addr follows sys_r_wn: the read page or the write page.             *)
CmdTick(wrpage, rdpage) ==
  CASE init_state = I_PRE    -> Quiet("PRGE")
    [] init_state \in I_AR   -> Quiet("A_REF")
    [] init_state = I_MRS    -> Pins("LMR", 0, Mode)
    [] init_state = I_DONE   -> WorkCmd(IF sys_r_wn THEN rdpage ELSE wrpage)
    [] OTHER                 -> Quiet("NOP")

(* Faulty form: the bus is only turned round for W_WD.                     *)
LateDrive == work_state = "WD"

(* Write data: registered and driven from W_WRITE to the end of W_WD.      *)
driving == work_state \in {"WRITE", "WD"}

DataTick(sys_data_in) ==
  /\ sdr_din' = IF driving THEN sys_data_in ELSE sdr_din
  /\ sdr_dlink' = driving

CmdReset == Quiet("INIT")
DataReset == sdr_din' = 0 /\ sdr_dlink' = FALSE

TopInit ==
  /\ CtrlInit
  /\ cmd = "INIT" /\ ba = Banks - 1 /\ addr = Idle
  /\ sdr_din = 0 /\ sdr_dlink = FALSE

TopTick(wr, rd, wrpage, rdpage, sys_data_in) ==
  /\ CtrlTick(wr, rd) /\ CmdTick(wrpage, rdpage) /\ DataTick(sys_data_in)

TopReset == CtrlReset /\ CmdReset /\ DataReset
=============================================================================
