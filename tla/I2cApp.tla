------------------------------- MODULE I2cApp --------------------------------
(***************************************************************************)
(* The I2C test program (software/iic_test/main.c) and its driver          *)
(* (oc_i2c.c): for ever, a block is written to the EEPROM, read back and   *)
(* compared.  The driver gives the core one command after the other, and   *)
(* waits on TIP for the end of each; it does not look whether a byte was   *)
(* acknowledged.                                                           *)
(***************************************************************************)
EXTENDS OcI2cMaster, SequencesExt

CONSTANTS Reg, Num, Block   \* main's register (32), length (32) and array a

VARIABLES
  a, b,      \* main's arrays
  call,      \* what main is doing
  step,      \* the command of the driver's call that comes next
  at,        \* where the driver is in that command
  i          \* what cpr has found

app == <<a, b, call, step, at, i>>
appVars == <<eeprom, core, app>>

ASSUME AppAssumption ==
  /\ Num \in Nat /\ Num > 0 /\ Reg \in 0..(Size - 1) /\ Len(Block) = Num

Command(byte, cmds) == [byte |-> byte, cmds |-> cmds]
None == -1   \* a command without a byte: TXR is not written

-----------------------------------------------------------------------------
(* The driver.                                                             *)

(* Both calls begin with the device's address and that of the register.    *)
Address(reg) ==
  << Command(Device, {"STA", "WR"}),
     Command(reg \div ByteValues, {"WR"}),
     Command(reg % ByteValues, {"WR"}) >>

(* I2CWrite.  The last byte is written with a STOP, for num = 0 as well.   *)
I2CWrite(reg, buf, num) ==
  Address(reg)
    \o [n \in 1..(num - 1) |-> Command(buf[n], {"WR"})]
    \o << Command(buf[IF num = 0 THEN 1 ELSE num], {"WR", "STO"}) >>

(* Faulty form: the last byte is acknowledged.                             *)
I2CReadAck(reg, num) ==
  Address(reg)
    \o << Command(Device + 1, {"STA", "WR"}) >>
    \o [n \in 1..(num - 1) |-> Command(None, {"RD"})]
    \o << Command(None, {"RD", "STO"}) >>

(* I2CRead.  CR.ACK means that the byte is not acknowledged.               *)
I2CRead(reg, num) ==
  Address(reg)
    \o << Command(Device + 1, {"STA", "WR"}) >>
    \o [n \in 1..(num - 1) |-> Command(None, {"RD"})]
    \o << Command(None, {"RD", "ACK", "STO"}) >>

Script == IF call = "write" THEN I2CWrite(Reg, a, Num) ELSE I2CRead(Reg, Num)
Current == Script[step]

InDriver == call \in {"write", "read"}

WriteTXR ==
  /\ InDriver /\ at = "txr" /\ at' = "cr"
  /\ txr' = IF Current.byte = None THEN txr ELSE Current.byte
  /\ UNCHANGED <<eeprom, core_en, rxr, cr, c_state, a, b, call, step, i>>

WriteCR ==
  /\ InDriver /\ at = "cr" /\ at' = "wait"
  /\ cr' = IF core_en THEN Current.cmds ELSE cr
  /\ UNCHANGED <<eeprom, core_en, txr, rxr, c_state, a, b, call, step, i>>

(* Faulty form: the loop on TIP is left while it is set.                   *)
PassTIP == TRUE

TIPDone == ~Tip

(* I2CWaitTIP, at the start of a call (step 0) and after each command;     *)
(* then a byte that was read is stored.                                    *)
I2CWaitTIP ==
  /\ InDriver /\ at = "wait" /\ TIPDone
  /\ LET n == step - (Len(Script) - Num)
     IN  b' = IF call = "read" /\ n > 0 THEN [b EXCEPT ![n] = rxr] ELSE b
  /\ IF step < Len(Script)
     THEN step' = step + 1 /\ at' = "txr" /\ UNCHANGED call
     ELSE step' = 0 /\ at' = "wait" /\ call' = (IF call = "write" THEN "sleep" ELSE "cpr")
  /\ UNCHANGED <<eeprom, core, a, i>>

-----------------------------------------------------------------------------
(* main.                                                                   *)

AppInit ==
  /\ EepromInit /\ CoreInit
  /\ a = Block /\ b = [n \in 1..Num |-> 0]
  /\ call = "init" /\ step = 0 /\ at = "wait" /\ i = 0

InitI2C ==
  /\ call = "init" /\ call' = "write" /\ core_en' = TRUE
  /\ UNCHANGED <<eeprom, txr, rxr, cr, c_state, a, b, step, at, i>>

(* usleep, of 100 ms and of 1 s: the STOP and the write cycle it starts    *)
(* are over by then.                                                       *)
Sleep ==
  /\ call \in {"sleep", "report"} /\ c_state = "st_idle" /\ ~writing
  /\ call' = IF call = "sleep" THEN "read" ELSE "init"
  /\ UNCHANGED <<eeprom, core, a, b, step, at, i>>

(* cpr: the first place where the arrays differ, or 0.                     *)
Cpr ==
  /\ call = "cpr" /\ call' = "report"
  /\ i' = SelectInSeq([n \in 1..Num |-> a[n] # b[n]], LAMBDA differ : differ)
  /\ UNCHANGED <<eeprom, core, a, b, step, at>>

Software == WriteTXR \/ WriteCR \/ I2CWaitTIP \/ InitI2C \/ Sleep \/ Cpr

AppNext ==
  \/ Software
  \/ CoreStep /\ UNCHANGED app
  \/ WriteCycleEnds /\ UNCHANGED <<core, app>>

(* The processor runs, the core is clocked, and the write cycle ends.      *)
Fairness ==
  /\ WF_appVars(Software) /\ WF_appVars(CoreStep /\ UNCHANGED app)
  /\ WF_appVars(WriteCycleEnds /\ UNCHANGED <<core, app>>)

AppSpec == AppInit /\ [][AppNext]_appVars /\ Fairness

-----------------------------------------------------------------------------
(* What main reports is true: all bytes are found equal if and only if the *)
(* EEPROM is there, and then they are in it, although the driver never     *)
(* looks at an acknowledge bit and gives up the wait before the STOP is    *)
(* out.                                                                    *)
ReportsTruly ==
  call = "report" => /\ (i = 0 <=> present)
                     /\ present => \A n \in 1..Num : mem[Reg + n - 1] = a[n]

(* The EEPROM has let go of the data line when the STOP comes: the last    *)
(* byte of a read, and no other, is answered with no acknowledge.          *)
StopOnFreeLine == c_state = "st_stop" => phase # "read"

(* main goes on reporting, with an EEPROM or without: no wait on TIP lasts *)
(* for ever.                                                               *)
KeepsReporting == []<>(call = "report")
=============================================================================
