------------------------------ MODULE PulseSync ------------------------------
(***************************************************************************)
(* S05_pulse_sync/code2/PULSE_SYNC.v: each source pulse turns a level      *)
(* over, and the destination makes a pulse of each change of the level it  *)
(* sees.  Nothing comes back to the source: two pulses between two         *)
(* destination edges cancel each other.                                    *)
(*                                                                         *)
(* The edges of the two clocks come in any order, or together: then the    *)
(* sampling flip-flop takes the old level or the new one.  The two resets  *)
(* are driven together.                                                    *)
(***************************************************************************)
EXTENDS Integers

CONSTANT
  Wrap  \* the histories count round a circle of this many numbers

ASSUME WrapAssumption == Wrap \in Nat /\ Wrap >= 4

VARIABLES
  src_state,                          \* the level, source clock
  state_dly1, state_dly2, dst_state,  \* the level, sampled
  sent, got,  \* history: pulses given, and seen by the destination
  crowded     \* history: two pulses came with no destination edge between

vars == <<src_state, state_dly1, state_dly2, dst_state, sent, got, crowded>>

Succ(n) == IF n = Wrap - 1 THEN 0 ELSE n + 1

(* Faulty form: only rising changes of the level make a pulse.             *)
RisingOnly == ~dst_state /\ state_dly2

dst_pulse == dst_state # state_dly2

(* The destination has sampled the last change of the level.               *)
LastSampled == src_state = state_dly1

Init ==
  /\ src_state = FALSE
  /\ state_dly1 = FALSE /\ state_dly2 = FALSE /\ dst_state = FALSE
  /\ sent = 0 /\ got = 0 /\ crowded = FALSE

(* Faulty form: the level is raised, not turned over.                      *)
Raise == src_state' = TRUE

Toggle == src_state' = ~src_state

(* A source edge with src_pulse; without it nothing of the source changes. *)
SrcPulse ==
  /\ Toggle
  /\ sent' = Succ(sent)
  /\ crowded' = (crowded \/ ~LastSampled)

(* A destination edge; level is what it samples.  The logic behind         *)
(* dst_pulse takes the pulse at this edge.                                 *)
DstEdge(level) ==
  /\ state_dly1' = level
  /\ state_dly2' = state_dly1
  /\ dst_state' = state_dly2
  /\ got' = IF dst_pulse THEN Succ(got) ELSE got

Reset ==
  /\ src_state' = FALSE
  /\ state_dly1' = FALSE /\ state_dly2' = FALSE /\ dst_state' = FALSE
  /\ sent' = 0 /\ got' = 0 /\ crowded' = FALSE

Src == SrcPulse /\ UNCHANGED <<state_dly1, state_dly2, dst_state, got>>
Dst == DstEdge(src_state) /\ UNCHANGED <<src_state, sent, crowded>>

Both == \E level \in BOOLEAN :
  /\ SrcPulse /\ DstEdge(level)
  /\ level \in {src_state, src_state'}

Next == Src \/ Dst \/ Both \/ Reset
Spec == Init /\ [][Next]_vars

-----------------------------------------------------------------------------
TypeOK ==
  /\ src_state \in BOOLEAN /\ state_dly1 \in BOOLEAN
  /\ state_dly2 \in BOOLEAN /\ dst_state \in BOOLEAN
  /\ sent \in 0..(Wrap - 1) /\ got \in 0..(Wrap - 1) /\ crowded \in BOOLEAN

(* As long as the source leaves a destination edge between two pulses,     *)
(* each of them gets across exactly once; up to three are on the way.      *)
Transfer == INSTANCE PulseTransfer WITH Capacity <- 3
DeliversOnce == Transfer!Init /\ [][~crowded' => Transfer!Next]_(Transfer!vars)

(* Pulses that come faster are lost two by two: once the destination is in *)
(* step with the level, the number lost is even.  (Wrap is even.)          *)
LostInPairs == (sent - got) % 2 = IF src_state = dst_state THEN 0 ELSE 1
=============================================================================
