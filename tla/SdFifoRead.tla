----------------------------- MODULE SdFifoRead ------------------------------
(***************************************************************************)
(* The read half of P04_VideoCapSys/sdfifo_ctrl.v: the FIFO that holds     *)
(* words for the display, the read request it raises while it has room,    *)
(* and the page counter of the read bursts.  Words are pushed and the      *)
(* request is made on clk_100m; the display takes them on clk_25m.         *)
(*                                                                         *)
(* The dual-clock FIFO is a vendor block, modelled from its parameters in  *)
(* rdfifo.v; a word is only counted, since the FIFO keeps the order.       *)
(***************************************************************************)
EXTENDS Integers, FiniteSets

CONSTANTS
  RdDepth,    \* words the FIFO holds                          (512)
  RdLevel,    \* a request is raised below this many words     (350)
  RdPopLag,   \* clocks until wrusedw counts a pop
  RdPages,    \* values of the 14-bit page counter             (16384)
  RdWordCap   \* bound of the history words pushed and taken

ASSUME ReadFifoAssumption ==
  /\ RdDepth \in Nat \ {0} /\ RdLevel \in 0..RdDepth
  /\ RdPopLag \in Nat \ {0} /\ RdPages \in Nat \ {0} /\ RdWordCap \in Nat

VARIABLES
  sdrdackr1, sdrdackr2,  \* sdram_rd_ack one and two clocks ago
  rdfifo_clrr,           \* the clear, sampled on clk_100m
  sys_rdabr,             \* page of the next read burst
  rdf_words,             \* words in the FIFO
  rdf_pops,              \* was a word taken 1, 2, ..., RdPopLag clocks ago?
  rdf_pushed,            \* was a word pushed in the last clock?
  fetched, taken         \* history: words pushed and taken since the clear

rdFifoVars == <<sdrdackr1, sdrdackr2, rdfifo_clrr, sys_rdabr,
                rdf_words, rdf_pops, rdf_pushed, fetched, taken>>

Bit(b) == IF b THEN 1 ELSE 0
NoPop == [k \in 1..RdPopLag |-> FALSE]
CountUp(n, b) == IF b /\ n < RdWordCap THEN n + 1 ELSE n
UnseenTaken == Cardinality({k \in 1..RdPopLag : rdf_pops[k]})

(* wrusedw: pops and the last push are counted late; 9 bits, so full is 0. *)
rdf_use == (rdf_words + UnseenTaken - Bit(rdf_pushed)) % RdDepth

(* Faulty form: the level leaves no room for the burst it asks for.        *)
HighRequest == rdf_use < RdLevel + 2 /\ ~rdfifo_clrr

sdram_rd_req == rdf_use < RdLevel /\ ~rdfifo_clrr
neg_sdrdack  == ~sdrdackr1 /\ sdrdackr2

-----------------------------------------------------------------------------
RdFifoInit ==
  /\ sdrdackr1 = FALSE /\ sdrdackr2 = FALSE
  /\ rdfifo_clrr = FALSE /\ sys_rdabr = 0
  /\ rdf_words = 0 /\ rdf_pops = NoPop /\ rdf_pushed = FALSE
  /\ fetched = 0 /\ taken = 0

RdFifo(push, pop) ==
  LET in  == push /\ rdf_words < RdDepth
      out == pop /\ rdf_words > 0
  IN IF rdfifo_clrr \/ rdfifo_clrr'
       THEN /\ rdf_words' = 0 /\ rdf_pops' = NoPop /\ rdf_pushed' = FALSE
            /\ fetched' = 0 /\ taken' = 0
       ELSE /\ rdf_words' = rdf_words + Bit(in) - Bit(out)
            /\ rdf_pops' = [k \in 1..RdPopLag |-> IF k = 1 THEN out ELSE rdf_pops[k - 1]]
            /\ rdf_pushed' = in
            /\ fetched' = CountUp(fetched, in) /\ taken' = CountUp(taken, out)

(* Faulty form: the page is not cleared with the FIFO.                     *)
ReadPageKept ==
  sys_rdabr' = IF neg_sdrdack THEN (sys_rdabr + 1) % RdPages ELSE sys_rdabr

ReadPage ==
  sys_rdabr' = IF rdfifo_clrr THEN 0
               ELSE IF neg_sdrdack THEN (sys_rdabr + 1) % RdPages
               ELSE sys_rdabr

RdFifoTick(ack, clr, rdreq) ==
  /\ sdrdackr1' = ack /\ sdrdackr2' = sdrdackr1
  /\ rdfifo_clrr' = clr
  /\ ReadPage
  /\ RdFifo(ack, rdreq)

(* The FIFO itself has no reset: the display's reset raises the clear.     *)
RdFifoReset ==
  /\ sdrdackr1' = FALSE /\ sdrdackr2' = FALSE
  /\ rdfifo_clrr' = FALSE /\ sys_rdabr' = 0
  /\ RdFifo(FALSE, FALSE)

RdFifoTypeOK ==
  /\ sdrdackr1 \in BOOLEAN /\ sdrdackr2 \in BOOLEAN /\ rdfifo_clrr \in BOOLEAN
  /\ sys_rdabr \in 0..(RdPages - 1)
  /\ rdf_words \in 0..RdDepth /\ rdf_pops \in [1..RdPopLag -> BOOLEAN]
  /\ rdf_pushed \in BOOLEAN
  /\ fetched \in 0..RdWordCap /\ taken \in 0..RdWordCap
=============================================================================
