----------------------------- MODULE SdFifoWrite -----------------------------
(***************************************************************************)
(* The write half of P04_VideoCapSys/sdfifo_ctrl.v: the FIFO that collects *)
(* camera words, the write request it raises, and the page counter that    *)
(* gives each burst its SDRAM row.  All registers run on clk_100m.         *)
(*                                                                         *)
(* A word is only counted: the FIFO keeps the order, so the n-th word out  *)
(* is the n-th word in.  The dual-clock FIFO is a vendor block; it is      *)
(* modelled from its parameters in wrfifo.v (512 deep, overflow and        *)
(* underflow checking on, asynchronous clear, usage seen late).            *)
(***************************************************************************)
EXTENDS Integers, FiniteSets

CONSTANTS
  WrDepth,     \* words the FIFO holds                           (512)
  WrLevel,     \* a request is raised above this many words      (158)
  PopLag,      \* clocks until wrusedw counts a pop             (at most 7)
  MaxPages,    \* values of the 14-bit page counter              (16384)
  WrWordCap    \* bound of the history popped

ASSUME WriteFifoAssumption ==
  /\ WrDepth \in Nat \ {0} /\ WrLevel \in 0..WrDepth
  /\ PopLag \in Nat \ {0} /\ MaxPages \in Nat \ {0} /\ WrWordCap \in Nat

VARIABLES
  sdwrackr1, sdwrackr2,  \* sdram_wr_ack one and two clocks ago
  wrf_clr_r,             \* the clear, sampled
  sys_wrabr,             \* page of the next write burst
  wrf_words,             \* words in the FIFO
  wrf_pops,              \* was a word popped 1, 2, ..., PopLag clocks ago?
  wrf_pushed,            \* was a word pushed in the last clock?
  popped                 \* history: words taken out since the last clear

wrFifoVars == <<sdwrackr1, sdwrackr2, wrf_clr_r, sys_wrabr,
                wrf_words, wrf_pops, wrf_pushed, popped>>

One(b) == IF b THEN 1 ELSE 0
UnseenPops == Cardinality({k \in 1..PopLag : wrf_pops[k]})
NoPops == [k \in 1..PopLag |-> FALSE]

(* wrusedw: pops and the last push are counted late; 9 bits, so full is 0. *)
wrf_use == (wrf_words + UnseenPops - One(wrf_pushed)) % WrDepth

(* Faulty form: the request waits for one word more than a burst.          *)
LazyRequest == wrf_use > WrLevel + 2

sdram_wr_req == wrf_use > WrLevel
neg_sdwrack  == ~sdwrackr1 /\ sdwrackr2

-----------------------------------------------------------------------------
WrFifoInit ==
  /\ sdwrackr1 = FALSE /\ sdwrackr2 = FALSE
  /\ wrf_clr_r = TRUE /\ sys_wrabr = 0
  /\ wrf_words = 0 /\ wrf_pops = NoPops /\ wrf_pushed = FALSE /\ popped = 0

(* A full FIFO drops the word pushed, an empty one gives nothing; the clear *)
(* is asynchronous and holds from the edge that raises it to the edge that *)
(* drops it.                                                               *)
WrFifo(push, pop) ==
  LET in  == push /\ wrf_words < WrDepth
      out == pop /\ wrf_words > 0
  IN IF wrf_clr_r \/ wrf_clr_r'
       THEN /\ wrf_words' = 0 /\ wrf_pops' = NoPops /\ wrf_pushed' = FALSE
            /\ popped' = 0
       ELSE /\ wrf_words' = wrf_words + One(in) - One(out)
            /\ wrf_pops' = [k \in 1..PopLag |-> IF k = 1 THEN out ELSE wrf_pops[k - 1]]
            /\ wrf_pushed' = in
            /\ popped' = IF out /\ popped < WrWordCap THEN popped + 1 ELSE popped

(* Faulty form: the page is not cleared with the FIFO.                     *)
PageKept ==
  sys_wrabr' = IF neg_sdwrack THEN (sys_wrabr + 1) % MaxPages ELSE sys_wrabr

WritePage ==
  sys_wrabr' = IF wrf_clr_r THEN 0
               ELSE IF neg_sdwrack THEN (sys_wrabr + 1) % MaxPages
               ELSE sys_wrabr

WrFifoTick(wr_ack, wrf_clr, wrf_wrreq) ==
  /\ sdwrackr1' = wr_ack /\ sdwrackr2' = sdwrackr1
  /\ wrf_clr_r' = wrf_clr
  /\ WritePage
  /\ WrFifo(wrf_wrreq, wr_ack)

WrFifoReset ==
  /\ sdwrackr1' = FALSE /\ sdwrackr2' = FALSE
  /\ wrf_clr_r' = TRUE /\ sys_wrabr' = 0
  /\ wrf_words' = 0 /\ wrf_pops' = NoPops /\ wrf_pushed' = FALSE /\ popped' = 0

WrFifoTypeOK ==
  /\ sdwrackr1 \in BOOLEAN /\ sdwrackr2 \in BOOLEAN /\ wrf_clr_r \in BOOLEAN
  /\ sys_wrabr \in 0..(MaxPages - 1)
  /\ wrf_words \in 0..WrDepth /\ wrf_pops \in [1..PopLag -> BOOLEAN]
  /\ wrf_pushed \in BOOLEAN /\ popped \in 0..WrWordCap
=============================================================================
