------------------------------ MODULE LcdDriver ------------------------------
(***************************************************************************)
(* P04_VideoCapSys/lcd_driver.v: the display's raster counters, the window *)
(* in which a word is taken from the read FIFO for each pixel, and the     *)
(* clear in the first line of a frame.  One LcdTick is one clock of        *)
(* clk_25m; a pixel lasts four of them.                                    *)
(***************************************************************************)
EXTENDS Integers

CONSTANTS
  XLast, YLast,  \* last column and line of the raster     (407, 261)
  XOn, XOff,     \* columns that open and close the window (67, 387)
  YOn, YOff,     \* lines that open and close the window   (16, 256)
  HSync, VSync   \* column and line that end a sync pulse  (30, 3)

ASSUME RasterAssumption ==
  /\ XOn \in Nat /\ XOff \in Nat /\ XLast \in Nat
  /\ 0 < XOn /\ XOn < XOff /\ XOff < XLast
  /\ YOn \in Nat /\ YOff \in Nat /\ YLast \in Nat
  /\ 0 < YOn /\ YOn < YOff /\ YOff <= YLast
  /\ HSync \in 1..XLast /\ VSync \in 1..YLast

VARIABLES
  sft_cnt,              \* clock of the pixel, 0..3
  x_cnt, y_cnt,         \* raster position
  valid_yr,             \* the line is in the window
  validr, valid,        \* the pixel is in the window, and one clock later
  lcd_hsy_r, lcd_vsy_r  \* sync outputs, low active

lcdVars == <<sft_cnt, x_cnt, y_cnt, valid_yr, validr, valid,
             lcd_hsy_r, lcd_vsy_r>>

dchange == sft_cnt = 2

(* Faulty form: a word is taken in the clock in which the column changes.  *)
EarlyRdreq == validr /\ sft_cnt = 2

rdfifo_rdreq == validr /\ sft_cnt = 3

(* Faulty form: the clear lasts into the first line of the window.         *)
LateClear == y_cnt <= YOn

rdfifo_clr   == y_cnt = 0

LcdInit ==
  /\ sft_cnt = 0 /\ x_cnt = 0 /\ y_cnt = 0
  /\ valid_yr = FALSE /\ validr = FALSE /\ valid = FALSE
  /\ lcd_hsy_r = TRUE /\ lcd_vsy_r = TRUE

(* Set in one raster position, cleared in another, kept elsewhere.         *)
SetClear(v, on, off) == IF on THEN TRUE ELSE IF off THEN FALSE ELSE v

LcdTick ==
  /\ sft_cnt' = (sft_cnt + 1) % 4
  /\ x_cnt' = IF ~dchange THEN x_cnt ELSE IF x_cnt = XLast THEN 0 ELSE x_cnt + 1
  /\ y_cnt' = IF ~dchange \/ x_cnt # XLast THEN y_cnt
              ELSE IF y_cnt = YLast THEN 0 ELSE y_cnt + 1
  /\ valid_yr' = SetClear(valid_yr, y_cnt = YOn, y_cnt = YOff)
  /\ validr' = SetClear(validr, x_cnt = XOn /\ valid_yr, x_cnt = XOff /\ valid_yr)
  /\ valid' = validr
  /\ lcd_hsy_r' = SetClear(lcd_hsy_r, x_cnt = HSync, x_cnt = 0)
  /\ lcd_vsy_r' = SetClear(lcd_vsy_r, y_cnt = VSync, y_cnt = 0)

LcdReset ==
  /\ sft_cnt' = 0 /\ x_cnt' = 0 /\ y_cnt' = 0
  /\ valid_yr' = FALSE /\ validr' = FALSE /\ valid' = FALSE
  /\ lcd_hsy_r' = TRUE /\ lcd_vsy_r' = TRUE

LcdTypeOK ==
  /\ sft_cnt \in 0..3 /\ x_cnt \in 0..XLast /\ y_cnt \in 0..YLast
  /\ valid_yr \in BOOLEAN /\ validr \in BOOLEAN /\ valid \in BOOLEAN
  /\ lcd_hsy_r \in BOOLEAN /\ lcd_vsy_r \in BOOLEAN
=============================================================================
