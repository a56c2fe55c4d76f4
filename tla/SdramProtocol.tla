---------------------------- MODULE SdramProtocol ----------------------------
(***************************************************************************)
(* What the SDRAM chip asks of whoever drives its command pins, and so the *)
(* abstract specification of the controller: the order of the commands,    *)
(* the clocks that must pass between two of them, and the exact number of  *)
(* words of a full-page burst, which only BURST STOP ends.                 *)
(*                                                                         *)
(* The chip is not part of the repository: the rules are those the source  *)
(* states in its timing comments (sdram_ctrl.v, sdr_para.v, sdram_cmd.v).  *)
(***************************************************************************)
EXTENDS Integers

CONSTANTS
  tRP, tRFC, tMRD, tRCD, tDAL,  \* clocks a command keeps the chip busy
  WrWords, RdWords,             \* words of a write and of a read burst
  GapCap                        \* counting further clocks tells nothing new

VARIABLES
  cmd,    \* command on the pins in this clock
  last,   \* last command other than NOP
  gap,    \* clocks since then, at most GapCap
  nref,   \* auto refreshes since the precharge, at most 8
  ready   \* the mode register is set

vars == <<cmd, last, gap, nref, ready>>

Refreshes == 8  \* auto refreshes the power-up sequence performs

Init == cmd = "INIT" /\ last = "INIT" /\ gap = 0 /\ nref = 0 /\ ready = FALSE

(* d clocks after the last command, c may follow it.                       *)
MayFollow(c, d) ==
  \/ last = "INIT"   /\ c = "PRGE"
  \/ last = "PRGE"   /\ c = "A_REF" /\ d >= tRP
  \/ last = "A_REF"  /\ ~ready /\ nref < Refreshes /\ c = "A_REF" /\ d >= tRFC
  \/ last = "A_REF"  /\ ~ready /\ nref = Refreshes /\ c = "LMR" /\ d >= tRFC
  \/ last = "A_REF"  /\ ready /\ c \in {"ACTIVE", "A_REF"} /\ d >= tRFC
  \/ last = "LMR"    /\ c \in {"ACTIVE", "A_REF"} /\ d >= tMRD
  \/ last = "ACTIVE" /\ c \in {"READ", "WRITE"} /\ d >= tRCD
  \/ last = "WRITE"  /\ c = "B_STOP" /\ d = WrWords
  \/ last = "READ"   /\ c = "B_STOP" /\ d = RdWords
  \/ last = "B_STOP" /\ c \in {"ACTIVE", "A_REF"} /\ d >= tDAL

(* A burst may not run past its length.                                    *)
MayWait(d) ==
  /\ last = "WRITE" => d < WrWords
  /\ last = "READ"  => d < RdWords

(* The bookkeeping of one clock in which command c appears on the pins.    *)
Observe(c) ==
  LET issued == c \notin {"NOP", "INIT"} IN
  /\ last' = IF issued THEN c ELSE last
  /\ gap' = IF issued THEN 0 ELSE IF gap < GapCap THEN gap + 1 ELSE gap
  /\ nref' = IF c = "PRGE" THEN 0
             ELSE IF c = "A_REF" /\ nref < Refreshes THEN nref + 1 ELSE nref
  /\ ready' = (ready \/ c = "LMR")

Command(c) == MayFollow(c, gap + 1) /\ cmd' = c /\ Observe(c)
Wait == MayWait(gap + 1) /\ cmd' = "NOP" /\ Observe("NOP")
PowerCycle == cmd' = "INIT" /\ last' = "INIT" /\ gap' = 0 /\ nref' = 0 /\ ready' = FALSE

Next ==
  \/ Wait \/ PowerCycle
  \/ \E c \in {"PRGE", "A_REF", "LMR", "ACTIVE", "READ", "WRITE", "B_STOP"} :
       Command(c)

Spec == Init /\ [][Next]_vars
=============================================================================
