----------------------------- MODULE OcI2cMaster -----------------------------
(***************************************************************************)
(* The I2C core (i2c_master_top.vhd, i2c_master_byte_ctrl.vhd) between its *)
(* registers and the bus.  A byte with its acknowledge bit is one step: of *)
(* what happens in it the software sees TIP alone.                         *)
(***************************************************************************)
EXTENDS Eeprom

VARIABLES
  core_en,   \* CTR.EN
  txr, rxr,  \* TXR; RXR
  cr,        \* the commands in CR
  c_state    \* st_idle, st_start, st_write, st_read, st_stop

core == <<core_en, txr, rxr, cr, c_state>>

Commands == {"STA", "STO", "RD", "WR"}

(* SR.TIP.  Its register follows CR by one clock, in which no access of    *)
(* the processor falls: a write and a read of the bus are further apart.   *)
Tip == cr \cap {"RD", "WR"} # {}

CoreInit ==
  core_en = FALSE /\ txr = 0 /\ rxr = 0 /\ cr = {} /\ c_state = "st_idle"

ByteState == IF "RD" \in cr THEN "st_read" ELSE "st_write"

Go ==
  /\ c_state = "st_idle" /\ Tip
  /\ c_state' = IF "STA" \in cr THEN "st_start" ELSE ByteState
  /\ UNCHANGED <<core_en, txr, rxr, cr, eeprom>>

StartDone ==
  /\ c_state = "st_start" /\ BusStart
  /\ c_state' = ByteState
  /\ UNCHANGED <<core_en, txr, rxr, cr>>

(* Faulty form: a command without STOP does not clear CR.                  *)
ClearAtStop ==
  /\ c_state' = IF "STO" \in cr THEN "st_stop" ELSE "st_idle"
  /\ cr' = IF "STO" \in cr THEN cr \ Commands ELSE cr
  /\ UNCHANGED <<core_en, txr>>

(* The command is done, and CR cleared, before the STOP that ends it.      *)
CommandDone ==
  /\ c_state' = IF "STO" \in cr THEN "st_stop" ELSE "st_idle"
  /\ cr' = cr \ Commands
  /\ UNCHANGED <<core_en, txr>>

(* (RXR shifts as well; it is not looked at after a write.)                *)
WriteByte == c_state = "st_write" /\ BusWrite(txr) /\ CommandDone /\ rxr' = rxr

ReadByte == c_state = "st_read" /\ BusRead("ACK" \in cr) /\ CommandDone /\ rxr' = Output

StopDone ==
  /\ c_state = "st_stop" /\ BusStop
  /\ c_state' = "st_idle"
  /\ UNCHANGED <<core_en, txr, rxr, cr>>

CoreStep == Go \/ StartDone \/ WriteByte \/ ReadByte \/ StopDone
=============================================================================
