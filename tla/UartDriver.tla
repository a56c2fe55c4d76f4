----------------------------- MODULE UartDriver ------------------------------
(***************************************************************************)
(* The interrupt-driven driver of the Avalon UART ("fast driver":          *)
(* altera_avalon_uart_init.c, _read.c, _write.c): two circular buffers     *)
(* between the calls of the one program and the interrupt handler.         *)
(*                                                                         *)
(* The program is interrupted between any two of its steps.  The build is  *)
(* -O0 and keeps the order of the source and its intermediate values, so   *)
(* that sp->rx_start = (++sp->rx_start) & MSK is two stores, of which the  *)
(* first is not masked.  A step is as long as an interrupt inside it makes *)
(* no difference: the slot a call of write fills is not the handler's, and *)
(* a test for room stays true once it is.  A test for data need not: an    *)
(* overrun makes the buffer look empty, so that read's test, its copy and  *)
(* its two stores are steps of their own.  The code between                *)
(* alt_irq_disable_all and alt_irq_enable_all is one step.  The handler    *)
(* runs to its end before the program goes on, but characters and CTS do   *)
(* not wait for it.                                                        *)
(*                                                                         *)
(* A character is named by its place in its stream, modulo twice the size  *)
(* of its buffer.                                                          *)
(***************************************************************************)
EXTENDS UartDevice, Sequences

CONSTANTS
  RxSize, TxSize,  \* ALT_AVALON_UART_BUF_LEN (64), a power of two
  MaxLen           \* longest request of the program

ASSUME SizeAssumption ==
  /\ RxSize \in Nat /\ RxSize >= 2 /\ TxSize \in Nat /\ TxSize >= 2
  /\ MaxLen \in Nat

VARIABLES
  fc,                         \* ALT_AVALON_UART_FC: the UART has CTS/RTS pins
  rx_start, rx_end, rx_buf,
  tx_start, tx_end, tx_buf,
  pc,                         \* where the program is
  left,                       \* characters its call has still to transfer
  some,                       \* a read call has transferred some
  block,                      \* ~O_NONBLOCK
  isr, status,                \* where the handler is; what it read in STATUS
  received, sent,             \* history: names of the next characters
  char                        \* history: what the turn of read has copied

rxVars   == <<rx_start, rx_end, rx_buf, received, char>>
txVars   == <<tx_start, tx_end, tx_buf, sent>>
callVars == <<pc, left, some, block>>
isrVars  == <<isr, status>>
devVars  == <<lineVars, ctrl>>
vars == <<devVars, fc, rxVars, txVars, callVars, isrVars>>

(* n & ALT_AVALON_UART_BUF_MSK                                             *)
RxMod(n) == n % RxSize
TxMod(n) == n % TxSize

(* No name of a character: the turn of read has copied none yet.           *)
NoChar == 2 * RxSize

-----------------------------------------------------------------------------
(* altera_avalon_uart_init has run: CONTROL is RTS | RRDY | DCTS.          *)
Init ==
  /\ DeviceInit /\ ctrl = {"RRDY", "DCTS"}
  /\ fc \in BOOLEAN /\ (~fc => ~cts)
  /\ rx_start = 0 /\ rx_end = 0 /\ rx_buf = [s \in 0..(RxSize - 1) |-> RxSize + s]
  /\ received = 0 /\ char = NoChar
  /\ tx_start = 0 /\ tx_end = 0 /\ tx_buf = [s \in 0..(TxSize - 1) |-> TxSize + s]
  /\ sent = 0
  /\ pc = "idle" /\ left = 0 /\ some = FALSE /\ block = TRUE
  /\ isr = "none" /\ status = {}

-----------------------------------------------------------------------------
(* The handler.                                                            *)

(* What the handler makes of STATUS.                                       *)
Causes ==
  LET tx == {"TRDY", "DCTS"} \cap StatusBits # {}
  IN  (IF "RRDY" \in StatusBits /\ "FE" \notin StatusBits THEN {"receive"} ELSE {})
 \cup (IF tx THEN {"transmit"} ELSE {})
 \cup (IF tx /\ fc /\ cts THEN {"CTS"} ELSE {})

(* alt_irq_handler finds the UART pending, on entry or when it looks again *)
(* before it returns, and altera_avalon_uart_irq reads the cause.          *)
Interrupt ==
  /\ isr = "none" /\ Irq
  /\ isr' = "clear" /\ status' = Causes
  /\ UNCHANGED <<devVars, fc, rxVars, txVars, callVars>>

(* Faulty form: any interrupt is taken for a transmit interrupt.           *)
AnyCause == TRUE

TxCause == "transmit" \in status

AfterRx == /\ isr' = IF TxCause THEN "tx" ELSE "none"
           /\ status' = IF TxCause THEN status \cap {"CTS"} ELSE {}

(* Writing STATUS clears the errors and DCTS, also those that have come    *)
(* since it was read.  After an error altera_avalon_uart_rxirq returns     *)
(* without reading RXDATA.                                                 *)
ClearStatus ==
  /\ isr = "clear"
  /\ ferr' = FALSE /\ dcts' = FALSE
  /\ IF "receive" \in status THEN isr' = "rx" /\ UNCHANGED status ELSE AfterRx
  /\ UNCHANGED <<rrdy, trdy, cts, ctrl, fc, rxVars, txVars, callVars>>

(* The buffer is full: no interrupts until data is removed.  rx_start may  *)
(* not be masked yet, and then never matches.                              *)
RxMask ==
  ctrl' = IF RxMod(rx_end + 2) = rx_start THEN ctrl \ {"RRDY"} ELSE ctrl

(* Faulty form: the character is stored in the slot after.                 *)
StoreNext == rx_buf' = [rx_buf EXCEPT ![RxMod(rx_end + 1)] = received]

Store == rx_buf' = [rx_buf EXCEPT ![rx_end] = received]

(* altera_avalon_uart_rxirq.                                               *)
RxIrq ==
  /\ isr = "rx" /\ AfterRx
  /\ Store /\ rx_end' = RxMod(rx_end + 1) /\ RxMask
  /\ received' = (received + 1) % (2 * RxSize) /\ rrdy' = FALSE
  /\ UNCHANGED <<ferr, trdy, cts, dcts, fc, rx_start, char, txVars, callVars>>

TxMaskIfEmpty(c) ==
  IF tx_start' = tx_end THEN c \ {"TRDY", "DCTS"} ELSE c

(* CTS is read again, for it may have risen before DCTS was cleared.       *)
Throttle == IF cts THEN ctrl ELSE ctrl \ {"TRDY"}

(* altera_avalon_uart_txirq: what it does to TXDATA, tx_start and CONTROL. *)
Transmit ==
  IF tx_start # tx_end /\ (~fc \/ "CTS" \in status)
  THEN /\ trdy' = FALSE /\ tx_start' = TxMod(tx_start + 1)
       /\ ctrl' = TxMaskIfEmpty(ctrl \cup {"TRDY"})
  ELSE /\ UNCHANGED <<trdy, tx_start>>
       /\ ctrl' = TxMaskIfEmpty(IF tx_start # tx_end THEN Throttle ELSE ctrl)

TxIrq ==
  /\ isr = "tx" /\ isr' = "none" /\ status' = {}
  /\ Transmit
  /\ UNCHANGED <<rrdy, ferr, cts, dcts, fc, rxVars, tx_end, tx_buf, sent, callVars>>

Isr == Interrupt \/ ClearStatus \/ RxIrq \/ TxIrq

-----------------------------------------------------------------------------
(* The program.                                                            *)

Goto(from, to) ==
  /\ isr = "none" /\ pc = from /\ pc' = to
  /\ UNCHANGED <<lineVars, fc, isrVars>>

Call(op) ==
  \E n \in (IF op = "close" THEN {0} ELSE 0..MaxLen), b \in BOOLEAN :
    /\ Goto("idle", op) /\ left' = n /\ some' = FALSE /\ block' = b
    /\ UNCHANGED <<ctrl, rxVars, txVars>>

(* How many characters were asked for matters no more.                     *)
Forget == left' = 0 /\ some' = FALSE /\ block' = TRUE

EndCall(from) == Goto(from, "idle") /\ Forget /\ UNCHANGED <<rxVars, txVars>>

(* One turn of the inner loop of read.  The buffer is not empty when it is *)
(* tested; what comes after does not look at rx_end again.                 *)
Test ==
  /\ Goto("read", "copy") /\ left > 0 /\ rx_start # rx_end
  /\ left' = left - 1 /\ some' = TRUE
  /\ UNCHANGED <<ctrl, rxVars, txVars, block>>

Copy ==
  /\ Goto("copy", "bump") /\ char' = rx_buf[rx_start]
  /\ UNCHANGED <<ctrl, rx_start, rx_end, rx_buf, received, txVars, left, some, block>>

(* The two stores of rx_start.                                             *)
BumpStart ==
  /\ Goto("bump", "mask") /\ rx_start' = rx_start + 1 /\ char' = NoChar
  /\ UNCHANGED <<ctrl, rx_end, rx_buf, received, txVars, left, some, block>>

MaskStart ==
  /\ Goto("mask", "read") /\ rx_start' = RxMod(rx_start)
  /\ UNCHANGED <<ctrl, rx_end, rx_buf, received, char, txVars, left, some, block>>

(* Nothing copied and nothing there: wait, or leave with EWOULDBLOCK.      *)
LeaveCopy ==
  /\ left = 0 \/ rx_start = rx_end
  /\ IF ~some /\ rx_start = rx_end /\ block
     THEN Goto("read", "rwait") /\ UNCHANGED <<left, some, block>>
     ELSE Goto("read", "rdone") /\ Forget
  /\ UNCHANGED <<ctrl, rxVars, txVars>>

ReadWait ==
  /\ IF left > 0 THEN Goto("rwait", "read") /\ UNCHANGED <<left, some, block>>
                 ELSE Goto("rwait", "rdone") /\ Forget
  /\ ctrl' = ctrl \cup {"RRDY"}
  /\ UNCHANGED <<rxVars, txVars>>

ReadDone == EndCall("rdone") /\ ctrl' = ctrl \cup {"RRDY"}

Read == Test \/ Copy \/ BumpStart \/ MaskStart \/ LeaveCopy \/ ReadWait \/ ReadDone

TxFull == TxMod(tx_end + 1) = tx_start

Fill ==
  /\ tx_buf' = [tx_buf EXCEPT ![tx_end] = sent] /\ tx_end' = TxMod(tx_end + 1)
  /\ left' = left - 1 /\ sent' = (sent + 1) % (2 * TxSize)
  /\ UNCHANGED <<ctrl, rxVars, tx_start, some, block>>

(* Faulty form: a full buffer is not looked for.                           *)
PutAnyway == Goto("write", "write") /\ left > 0 /\ Fill

Put == Goto("write", "write") /\ left > 0 /\ ~TxFull /\ Fill

LeavePut ==
  /\ left = 0 \/ TxFull
  /\ IF left > 0 /\ block
     THEN Goto("write", "wwait") /\ UNCHANGED <<left, some, block>>
     ELSE Goto("write", "wdone") /\ Forget
  /\ UNCHANGED <<ctrl, rxVars, txVars>>

WriteWait ==
  /\ Goto("wwait", "spin") /\ ctrl' = ctrl \cup {"TRDY", "DCTS"}
  /\ UNCHANGED <<rxVars, txVars, left, some, block>>

Spin == Goto("spin", "write") /\ ~TxFull /\ UNCHANGED <<ctrl, rxVars, txVars, left, some, block>>

(* Faulty form: the interrupts are enabled only where the call waits.      *)
WriteDoneIdle == EndCall("wdone") /\ UNCHANGED ctrl

WriteDone == EndCall("wdone") /\ ctrl' = ctrl \cup {"TRDY", "DCTS"}

Write == Put \/ LeavePut \/ WriteWait \/ Spin \/ WriteDone

(* altera_avalon_uart_close waits until the buffer is drained.             *)
Close == EndCall("close") /\ (tx_start = tx_end \/ ~block) /\ UNCHANGED ctrl

Program == Read \/ Write \/ Close
Calls == \E op \in {"read", "write", "close"} : Call(op)

-----------------------------------------------------------------------------
Line ==
  /\ \/ \E error \in BOOLEAN : Receive(error)
     \/ Shift
     \/ fc /\ ToggleCts
  /\ UNCHANGED <<fc, rxVars, txVars, callVars, isrVars>>

Next == Isr \/ Calls \/ Program \/ Line
Spec == Init /\ [][Next]_vars

-----------------------------------------------------------------------------
(* The first slot that read has not copied.                                *)
RxFirst == RxMod(IF pc = "bump" THEN rx_start + 1 ELSE rx_start)

(* Slots are counted from there to rx_end.  To a turn of read that has     *)
(* found data, but not copied it, none is all of them.                     *)
RxLen ==
  LET n == RxMod(rx_end + RxSize - RxFirst)
  IN  IF pc = "copy" /\ n = 0 THEN RxSize ELSE n

RxQueue == [i \in 1..RxLen |-> rx_buf[RxMod(RxFirst + i - 1)]]
TxQueue ==
  [i \in 1..TxMod(tx_end + TxSize - tx_start) |-> tx_buf[TxMod(tx_start + i - 1)]]

(* No character can be stored without losing another.  The slot kept free  *)
(* can take one before a turn of read that has found data copies it.       *)
RxFull == RxLen = IF pc = "copy" THEN RxSize ELSE RxSize - 1

(* The one slot the buffer never fills holds what came out last.           *)
TxOut == tx_buf[TxMod(tx_start + TxSize - 1)]

RxFifo == INSTANCE BoundedFifo WITH
  Data <- 0..(2 * RxSize - 1), Zero <- NoChar, Depth <- RxSize,
  queue <- RxQueue, out <- char
TxFifo == INSTANCE BoundedFifo WITH
  Data <- 0..(2 * TxSize - 1), Zero <- 2 * TxSize - 1, Depth <- TxSize - 1,
  queue <- TxQueue, out <- TxOut

(* What the program writes leaves through TXDATA in order, each character  *)
(* once, although tx_start and tx_end are moved without a lock by the      *)
(* handler and by the program.                                             *)
TxIsFifo ==
  TxFifo!Init /\ [][txVars' # txVars => TxFifo!Put(sent) \/ TxFifo!Get]_vars

(* What the handler takes from RXDATA reaches the calls of read in order,  *)
(* each character once, except that one stored in a full buffer discards   *)
(* those before it: all is lost then, or all but that one.  A buffer that  *)
(* fills to the brim between the test of read and its copy loses nothing,  *)
(* although rx_end then meets rx_start.  A character counts as read where  *)
(* it is copied; the steps round the copy take and lose none.              *)
Overrun ==
  RxFull /\ rx_end' # rx_end /\ char' = char /\ RxQueue' \in {<<>>, <<received>>}

RxInOrder ==
  RxFifo!Init /\ [][\/ RxFifo!Put(received) \/ RxFifo!Get \/ Overrun
                    \/ RxQueue' = RxQueue /\ char' \in {char, NoChar}]_<<rxVars, pc>>

(* No wake-up is lost, on a UART without CTS: outside a call of write,     *)
(* characters that wait in tx_buf have a transmit interrupt coming,        *)
(* however the handler, which disables it when it finds the buffer empty,  *)
(* falls between the steps of the call.                                    *)
TxArmed ==
  ~fc /\ isr = "none" /\ pc \notin {"write", "wwait", "wdone"} /\ tx_start # tx_end
    => "TRDY" \in ctrl

(* Without CTS, TXDATA is written only when it is free: a character in it  *)
(* is never overwritten.  (With CTS, an interrupt for DCTS alone writes    *)
(* it too.)                                                                *)
TxPaced == [][tx_start' # tx_start => trdy \/ fc]_vars

(* "If the cicular buffer was full, disable interrupts.  Interrupts will   *)
(* be re-enabled when data is removed from the buffer."                    *)
(* (altera_avalon_uart_init.c:186): nothing is stored in a full buffer.    *)
FullIsKept == [][RxFull => rx_end' = rx_end]_vars
=============================================================================
