---------------------------- MODULE PulseTransfer ----------------------------
(***************************************************************************)
(* What a pulse synchroniser promises (S05_pulse_sync): every pulse taken  *)
(* on the source clock comes out exactly once on the destination clock,    *)
(* and never more than Capacity of them are on the way.  Pulses are        *)
(* numbered round a circle of Wrap numbers.                                *)
(***************************************************************************)
EXTENDS Integers

CONSTANTS Wrap, Capacity

VARIABLES
  sent,  \* number of the next pulse to be taken
  got    \* number of the next pulse to come out

vars == <<sent, got>>

Succ(n)  == IF n = Wrap - 1 THEN 0 ELSE n + 1
OnTheWay == IF sent >= got THEN sent - got ELSE sent + Wrap - got

Init == sent = 0 /\ got = 0

Take  == OnTheWay < Capacity /\ sent' = Succ(sent)
Come  == OnTheWay > 0 /\ got' = Succ(got)
Clear == sent' = 0 /\ got' = 0

Next ==
  \/ Take /\ UNCHANGED got
  \/ Come /\ UNCHANGED sent
  \/ Take /\ Come
  \/ Clear

Spec == Init /\ [][Next]_vars
=============================================================================
