---------------------------- MODULE MCAsyncFifo1 -----------------------------
(***************************************************************************)
(* Instances of AsyncFifo1 for TLC.  The FIFO moves words and never looks  *)
(* at them, so a word is named by its place in the stream, as far as the   *)
(* write pointer counts: no two words in the memory have the same name,    *)
(* nor does what a slot held a lap before.                                 *)
(*                                                                         *)
(* The two clocks are made visible, so that an edge at which nothing       *)
(* changes is a step too.  What is fair is then the clocks alone: nobody   *)
(* has to write or to read.                                                *)
(***************************************************************************)
EXTENDS AsyncFifo1

VARIABLES
  wclk, rclk  \* parity of the edges of each clock

clocked == <<vars, wclk, rclk>>

MCData == Pointers

MCWrite == Write({wbin}) /\ wclk' = ~wclk /\ UNCHANGED rclk
MCRead  == Read /\ rclk' = ~rclk /\ UNCHANGED wclk
MCBoth  == Both({wbin}) /\ wclk' = ~wclk /\ rclk' = ~rclk
Edges   == MCWrite \/ MCRead \/ MCBoth

MCInit ==
  /\ Init /\ mem = [slot \in 0..(Depth - 1) |-> slot + Depth]
  /\ wclk = FALSE /\ rclk = FALSE
MCNext == Edges \/ (Reset /\ UNCHANGED <<wclk, rclk>>)

(* Neither clock stops; the resets end.                                    *)
MCFairSpec ==
  /\ MCInit /\ [][MCNext]_clocked /\ <>[][Edges]_clocked
  /\ WF_clocked(MCWrite \/ MCBoth) /\ WF_clocked(MCRead \/ MCBoth)
=============================================================================
