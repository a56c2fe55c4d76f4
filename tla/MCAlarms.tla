------------------------------ MODULE MCAlarms -------------------------------
(***************************************************************************)
(* Instances of Alarms for TLC.  Wrap bounds the counts.                   *)
(*                                                                         *)
(* The ring and the time of day have only the count in common.  ApartSpec  *)
(* takes the ring with all alarms and the time of day with one, so that    *)
(* the states are the sum of the two and not their product.                *)
(***************************************************************************)
EXTENDS Alarms

MCTimes == {[sec |-> 12, usec |-> 1], [sec |-> 12, usec |-> 2]}

(* The time of day is set with at most one alarm ever started.             *)
Apart ==
  \/ resettime = [sec |-> 0, usec |-> 0]
  \/ Cardinality({a \in Alarm : next[a] # Unset}) <= 1

ApartSpec == Init /\ [][Next /\ Apart']_vars /\ WF_vars(TickStep)
=============================================================================
