----------------------------- MODULE VideoWrite ------------------------------
(***************************************************************************)
(* The path of the picture into the SDRAM (P04_VideoCapSys/ex23.v,         *)
(* video_input.v): camera, video_ctrl, the write half of sdfifo_ctrl and   *)
(* the SDRAM controller, one clock of clk_100m per step.  Read requests    *)
(* are arbitrary.                                                          *)
(*                                                                         *)
(* The camera is external.  It sends lines of LineWords words, CamMin to   *)
(* CamMax clocks apart, with any pause between two lines, and at most      *)
(* FieldWords words between two field pulses; a pulse may come at any time *)
(* and lasts at least ClearMin clocks.  No word comes in it or in the      *)
(* CamMin clocks after it.                                                 *)
(***************************************************************************)
EXTENDS SdramCtrl, SdFifoWrite, VideoCtrl

CONSTANTS
  CamMin, CamMax, LineWords, FieldWords, ClearMin,
  StoreTime   \* clocks within which the end of a field is stored

ASSUME CameraAssumption ==
  /\ CamMin \in Nat \ {0} /\ CamMax \in Nat /\ CamMin <= CamMax
  /\ LineWords \in Nat \ {0} /\ FieldWords \in Nat /\ ClearMin \in Nat \ {0}
  /\ StoreTime \in Nat

VARIABLES
  vvsync,  \* field pulse on the pin
  held,    \* clocks the pulse has lasted, at most ClearMin
  cgap,    \* clocks since the last word or pulse, at most CamMax
  fw,      \* words sent since the last pulse
  since,   \* history: clocks since the last word of a field, up to StoreTime
  synced   \* history: a whole pulse has been seen since the last reset
           \* ("yes"), one has begun ("pulse") or none has ("no")

camVars == <<vvsync, held, cgap, fw>>
wrVars == <<ctrlVars, wrFifoVars, videoVars, camVars, since, synced>>

CameraInit ==
  vvsync = FALSE /\ held = 0 /\ cgap = 0 /\ fw \in 0..(LineWords - 1)

MaySend  == ~vvsync /\ fw < FieldWords /\ cgap >= CamMin
MustSend == MaySend /\ cgap = CamMax /\ fw % LineWords # 0

Camera(pulse, arrive) ==
  /\ arrive => MaySend
  /\ MustSend /\ ~pulse => arrive
  /\ vvsync /\ held < ClearMin => pulse
  /\ vvsync' = pulse
  /\ held' = IF ~pulse THEN 0 ELSE IF held < ClearMin THEN held + 1 ELSE held
  /\ cgap' = IF pulse THEN 0 ELSE IF arrive THEN 1 ELSE IF cgap < CamMax THEN cgap + 1 ELSE cgap
  /\ fw' = IF pulse THEN 0 ELSE IF arrive THEN fw + 1 ELSE fw

-----------------------------------------------------------------------------
WrInit == CtrlInit /\ WrFifoInit /\ VideoInit /\ CameraInit /\ since = 0 /\ synced = "no"

(* vvsync belongs to no clock of the design: each of the two registers     *)
(* that sample it may see a change one clock later than the other.         *)
Since ==
  since' = IF fw' < FieldWords \/ synced' # "yes" THEN 0
           ELSE IF since < StoreTime THEN since + 1 ELSE since

WrTick(rd, pulse, arrive) ==
  /\ Camera(pulse, arrive)
  /\ CtrlTick(sdram_wr_req, rd)
  /\ \E seen \in {vvsync, pulse} : WrFifoTick(wr_ack, seen, wrf_wrreqr)
  /\ \E seen \in {vvsync, pulse} : VideoTick(seen, arrive)
  /\ synced' = CASE synced = "no" /\ pulse /\ ~vvsync    -> "pulse"
                 [] synced = "pulse" /\ vvsync /\ ~pulse -> "yes"
                 [] OTHER -> synced
  /\ Since

(* The camera does not stop for a reset, which may last any time.          *)
WrReset(pulse, arrive) ==
  /\ Camera(pulse, arrive)
  /\ CtrlReset /\ WrFifoReset /\ VideoReset(arrive)
  /\ synced' = "no" /\ Since

WrTicks == \E rd, pulse, arrive \in BOOLEAN : WrTick(rd, pulse, arrive)
WrResets == \E pulse, arrive \in BOOLEAN : WrReset(pulse, arrive)
WrNext == WrTicks \/ WrResets
WrSpec == WrInit /\ [][WrNext]_wrVars

-----------------------------------------------------------------------------
WrTypeOK ==
  /\ CtrlTypeOK /\ WrFifoTypeOK /\ VideoTypeOK
  /\ vvsync \in BOOLEAN /\ held \in 0..ClearMin /\ cgap \in 0..CamMax
  /\ fw \in 0..FieldWords /\ since \in 0..StoreTime /\ synced \in {"no", "pulse", "yes"}

(* Nothing is promised before the first whole field pulse after a reset:   *)
(* a reset clears neither the video FIFO nor the camera's place in a line. *)
InField == synced = "yes"

(* No write burst outruns the FIFO it empties, although the request is     *)
(* raised one word before a burst is complete (sdfifo_ctrl.v:81), and      *)
(* although the usage it reads counts pops late.                           *)
WrFifoNeverDry == InField /\ wr_ack /\ ~wrf_clr_r => wrf_words > 0

(* No word is pushed into a full FIFO while refreshes and reads keep the   *)
(* SDRAM busy (wrfifo.v drops it).                                         *)
WrFifoNeverFull == InField /\ wrf_wrreqr /\ ~wrf_clr_r => wrf_words < WrDepth

(* Page n of the SDRAM gets the words n * WrByte and following of the      *)
(* field: the page counter, stepped by the falling edge of the acknowledge *)
(* two clocks later (sdfifo_ctrl.v:47,92), is right when the next burst    *)
(* opens its row and stays so until its column command, and a field pulse  *)
(* in the middle of a burst leaves the next field starting at page 0.      *)
PagesInStep ==
  InField /\ work_state \in {"ACTIVE", "TRCD", "WRITE"} /\ ~sys_r_wn /\ ~wrf_clr_r
    => popped = sys_wrabr * WrByte + acks

(* No camera word is pushed twice: a burst starts before its last word has *)
(* come (video_ctrl.v:49), and reading the FIFO dry would repeat the word  *)
(* before.                                                                 *)
CameraWordsOnce == InField /\ vf_rdreq /\ ~vclr_r => vf_words > 0

(* A complete field reaches the SDRAM, whatever reads compete for it,       *)
(* unless the next field or a reset comes first: its last word is not left *)
(* behind in the FIFOs, and is out StoreTime clocks after it came.         *)
FieldStored == since = StoreTime => popped = FieldWords
=============================================================================
