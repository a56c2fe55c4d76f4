------------------------------ MODULE MCI2cApp -------------------------------
(* Instances of I2cApp for TLC: two pages, and a block as long as a page.   *)
EXTENDS I2cApp

MCBlock == <<1, 2>>
MCContents == {1, 2, 3}
=============================================================================
