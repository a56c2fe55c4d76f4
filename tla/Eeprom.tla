------------------------------- MODULE Eeprom --------------------------------
(***************************************************************************)
(* The EEPROM AT24C64 on the I2C bus, as oc_i2c.c and main.c use it: two   *)
(* address bytes, writes that stay in a page and begin at the STOP         *)
(* condition, sequential reads.  It is not part of the repository.         *)
(***************************************************************************)
EXTENDS Integers

CONSTANTS
  Size, Page,  \* bytes of the memory (8192) and of a page (32)
  ByteValues,  \* number of the values of a byte (256)
  Device,      \* its bus address, for writing; Device + 1 for reading
  Contents     \* what the memory may hold at first

VARIABLES
  present,     \* it is fitted
  phase,       \* what it takes the next byte for
  ptr,         \* its address counter
  latch,       \* bytes received since the address, by their address
  mem,
  writing      \* the write cycle (5 ms): it does not answer

eeprom == <<present, phase, ptr, latch, mem, writing>>

EepromInit ==
  /\ present \in BOOLEAN /\ mem \in [0..(Size - 1) -> Contents]
  /\ phase = "none" /\ ptr = 0 /\ latch = <<>> /\ writing = FALSE

Ones == ByteValues - 1    \* nobody drives the data line

Answers == present /\ ~writing

Ahead == (ptr + 1) % Size
AheadInPage == (ptr \div Page) * Page + ((ptr + 1) % Page)

BusStart ==
  /\ phase' = (IF Answers THEN "device" ELSE "none") /\ latch' = <<>>
  /\ UNCHANGED <<present, ptr, mem, writing>>

(* A byte of the master's.  It is acknowledged if phase' is not "none".    *)
BusWrite(byte) ==
  /\ phase' = CASE phase = "device" /\ byte = Device -> "high"
                [] phase = "device" /\ byte = Device + 1 -> "read"
                [] phase = "high" -> "low"
                [] phase \in {"low", "data"} -> "data"
                [] OTHER -> "none"
  /\ ptr' = CASE phase = "high" -> (byte * ByteValues) % Size
              [] phase = "low" -> (ptr + byte) % Size
              [] phase = "data" -> AheadInPage
              [] OTHER -> ptr
  /\ latch' = IF phase = "data"
              THEN [p \in DOMAIN latch \cup {ptr} |-> IF p = ptr THEN byte ELSE latch[p]]
              ELSE latch
  /\ UNCHANGED <<present, mem, writing>>

(* A byte for the master, which acknowledges it or ends the read.          *)
Output == IF phase = "read" THEN mem[ptr] ELSE Ones

BusRead(nack) ==
  /\ phase' = IF nack THEN "none" ELSE phase
  /\ ptr' = IF phase = "read" THEN Ahead ELSE ptr
  /\ UNCHANGED <<present, latch, mem, writing>>

BusStop ==
  /\ phase' = "none" /\ writing' = (phase = "data" /\ latch # <<>>)
  /\ UNCHANGED <<present, ptr, latch, mem>>

WriteCycleEnds ==
  /\ writing /\ writing' = FALSE /\ latch' = <<>>
  /\ mem' = [p \in DOMAIN mem |-> IF p \in DOMAIN latch THEN latch[p] ELSE mem[p]]
  /\ UNCHANGED <<present, phase, ptr>>
=============================================================================
