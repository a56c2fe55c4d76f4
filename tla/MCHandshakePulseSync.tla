------------------------ MODULE MCHandshakePulseSync -------------------------
(***************************************************************************)
(* HandshakePulseSync with its two clocks made visible, so that an edge at *)
(* which nothing changes is a step too.  What is fair is then the clocks   *)
(* alone: no pulse is ever owed to the source.                             *)
(***************************************************************************)
EXTENDS HandshakePulseSync

VARIABLES
  src_clk, dst_clk  \* parity of the edges of each clock

clocked == <<vars, src_clk, dst_clk>>

MCSrc  == Src /\ src_clk' = ~src_clk /\ UNCHANGED dst_clk
MCDst  == Dst /\ dst_clk' = ~dst_clk /\ UNCHANGED src_clk
MCBoth == Both /\ src_clk' = ~src_clk /\ dst_clk' = ~dst_clk
Edges  == MCSrc \/ MCDst \/ MCBoth

MCInit == Init /\ src_clk = FALSE /\ dst_clk = FALSE
MCNext == Edges \/ (Reset /\ UNCHANGED <<src_clk, dst_clk>>)

(* Neither clock stops; the resets end.                                    *)
MCFairSpec ==
  /\ MCInit /\ [][MCNext]_clocked /\ <>[][Edges]_clocked
  /\ WF_clocked(MCSrc \/ MCBoth) /\ WF_clocked(MCDst \/ MCBoth)
=============================================================================
