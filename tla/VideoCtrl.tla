------------------------------ MODULE VideoCtrl ------------------------------
(***************************************************************************)
(* P04_VideoCapSys/video_ctrl.v: the camera's words collect in a FIFO, and *)
(* whenever a burst is there the counter dcnt moves it, one word per clock *)
(* of clk_100m, into the SDRAM write FIFO.                                 *)
(*                                                                         *)
(* The camera side of the FIFO runs on the camera's own clock.  What the   *)
(* read side sees of it is a word that arrives in some clock; the FIFO is  *)
(* a vendor block, modelled from video_fifo.v (256 words on this side).    *)
(***************************************************************************)
EXTENDS Integers

CONSTANTS
  VfDepth,   \* words the video FIFO holds                 (256)
  VfLevel,   \* a burst starts above this many words       (158)
  VBurst,    \* words of a burst                           (160)
  DcntSize   \* values of the 8-bit counter dcnt           (256)

ASSUME VideoAssumption ==
  /\ VfDepth \in Nat \ {0} /\ VfLevel \in 0..VfDepth
  /\ VBurst \in Nat \ {0} /\ DcntSize \in Nat /\ DcntSize > VBurst

VARIABLES
  vclr_r,      \* vvsync sampled: clears the video FIFO (wrf_clr_r there)
  vf_words,    \* words in the video FIFO
  vf_popped,   \* was a word read in the last clock?
  dcnt,        \* words of the running burst read so far
  wrf_wrreqr   \* the word on wrf_din is new: push it

videoVars == <<vclr_r, vf_words, vf_popped, dcnt, wrf_wrreqr>>

(* rdusedw: this side's own last read is counted late; 8 bits, full is 0.  *)
vf_rduse == (vf_words + (IF vf_popped THEN 1 ELSE 0)) % VfDepth
vf_rdreq == dcnt # 0

VideoInit ==
  /\ vclr_r = FALSE /\ vf_words = 0 /\ vf_popped = FALSE
  /\ dcnt = 0 /\ wrf_wrreqr = FALSE

(* Faulty form: the burst ends one word early.                             *)
ShortBurst ==
  dcnt' = IF vf_rduse > VfLevel THEN (dcnt + 1) % DcntSize
          ELSE IF dcnt # 0 /\ dcnt < VBurst - 1 THEN dcnt + 1
          ELSE 0

(* Faulty form: the burst starts two words early.                          *)
EarlyBurst ==
  dcnt' = IF vf_rduse > VfLevel - 2 THEN (dcnt + 1) % DcntSize
          ELSE IF dcnt # 0 /\ dcnt < VBurst THEN dcnt + 1
          ELSE 0

(* A burst goes on past VBurst while another one is waiting.               *)
BurstCounter ==
  dcnt' = IF vf_rduse > VfLevel THEN (dcnt + 1) % DcntSize
          ELSE IF dcnt # 0 /\ dcnt < VBurst THEN dcnt + 1
          ELSE 0

(* Words arrive while rst_n is low, too: the FIFO has no reset of its own. *)
VideoFifo(arrive, read) ==
  LET in  == arrive /\ vf_words < VfDepth
      out == read /\ vf_words > 0
      One(b) == IF b THEN 1 ELSE 0
  IN IF vclr_r \/ vclr_r'
       THEN vf_words' = 0 /\ vf_popped' = FALSE
       ELSE vf_words' = vf_words + One(in) - One(out) /\ vf_popped' = out

VideoTick(vsync, arrive) ==
  /\ vclr_r' = vsync
  /\ BurstCounter
  /\ wrf_wrreqr' = vf_rdreq
  /\ VideoFifo(arrive, vf_rdreq)

VideoReset(arrive) ==
  /\ vclr_r' = FALSE /\ dcnt' = 0 /\ wrf_wrreqr' = FALSE
  /\ VideoFifo(arrive, FALSE)

VideoTypeOK ==
  /\ vclr_r \in BOOLEAN /\ vf_words \in 0..VfDepth /\ vf_popped \in BOOLEAN
  /\ dcnt \in 0..(DcntSize - 1) /\ wrf_wrreqr \in BOOLEAN
=============================================================================
