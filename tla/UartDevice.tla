----------------------------- MODULE UartDevice ------------------------------
(***************************************************************************)
(* The registers of the Avalon UART as the driver sees them                *)
(* (mysystem_uart_0.v, altera_avalon_uart_regs.h): RXDATA, TXDATA, STATUS  *)
(* and CONTROL, and the interrupt line they raise.  Shift registers and    *)
(* baud rate are left out: a character comes, or has gone, at any time.    *)
(*                                                                         *)
(* A UART generated with CTS/RTS pins also has the status bits CTS and     *)
(* DCTS, tied to 0 in the one of this system.                              *)
(***************************************************************************)
EXTENDS Integers

VARIABLES
  rrdy,       \* STATUS.RRDY: RXDATA holds a character not read yet
  ferr,       \* STATUS.FE: one came with a framing error
  trdy,       \* STATUS.TRDY: TXDATA is free
  cts, dcts,  \* STATUS.CTS, and STATUS.DCTS: CTS has changed
  ctrl        \* CONTROL, and the driver's copy sp->ctrl: the sources enabled

lineVars == <<rrdy, ferr, trdy, cts, dcts>>

Sources == {"RRDY", "TRDY", "DCTS"}

StatusBits ==
     (IF rrdy THEN {"RRDY"} ELSE {}) \cup (IF ferr THEN {"FE"} ELSE {})
\cup (IF trdy THEN {"TRDY"} ELSE {}) \cup (IF dcts THEN {"DCTS"} ELSE {})
\cup (IF cts THEN {"CTS"} ELSE {})

Irq == ctrl \cap StatusBits # {}

DeviceInit ==
  /\ rrdy = FALSE /\ ferr = FALSE /\ trdy = TRUE
  /\ cts \in BOOLEAN /\ dcts = FALSE

(* A character has come.  One that has not been read is overwritten.       *)
Receive(error) ==
  /\ rrdy' = TRUE /\ ferr' = (ferr \/ error)
  /\ UNCHANGED <<trdy, cts, dcts, ctrl>>

(* The transmitter has taken the character out of TXDATA.                  *)
Shift ==
  /\ ~trdy /\ trdy' = TRUE
  /\ UNCHANGED <<rrdy, ferr, cts, dcts, ctrl>>

ToggleCts ==
  /\ cts' = ~cts /\ dcts' = TRUE
  /\ UNCHANGED <<rrdy, ferr, trdy, ctrl>>
=============================================================================
