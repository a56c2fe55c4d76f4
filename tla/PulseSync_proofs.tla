-------------------------- MODULE PulseSync_proofs ---------------------------
(***************************************************************************)
(* The toggle synchroniser: pulses are delivered exactly once as long as   *)
(* they are spaced; others are lost two at a time.                         *)
(***************************************************************************)
EXTENDS PulseSync, TLAPS

LevelsTyped ==
  /\ src_state \in BOOLEAN /\ state_dly1 \in BOOLEAN
  /\ state_dly2 \in BOOLEAN /\ dst_state \in BOOLEAN

CountsTyped == sent \in 0..(Wrap - 1) /\ got \in 0..(Wrap - 1)

LEMMA SuccTyped == \A n \in 0..(Wrap - 1) : Succ(n) \in 0..(Wrap - 1)
  BY WrapAssumption DEF WrapAssumption, Succ

LEMMA Typed == Spec => [](LevelsTyped /\ CountsTyped)
<1>0. Init => LevelsTyped
  BY DEF Init, LevelsTyped
<1>1. Init => CountsTyped
  <2>1. Init => sent = 0 /\ got = 0
    BY DEF Init
  <2> QED BY <2>1, WrapAssumption DEF CountsTyped, WrapAssumption
<1>2. LevelsTyped /\ [Next]_vars => LevelsTyped'
  BY DEF LevelsTyped, Next, Src, Dst, Both, Reset, vars, SrcPulse, Toggle, DstEdge
<1>3. CountsTyped /\ [Next]_vars => CountsTyped'
  <2> SUFFICES ASSUME CountsTyped, [Next]_vars PROVE CountsTyped'
    OBVIOUS
  <2>1. sent' \in {sent, Succ(sent), 0} /\ got' \in {got, Succ(got), 0}
    BY DEF Next, Src, Dst, Both, Reset, vars, SrcPulse, DstEdge
  <2> QED BY <2>1, SuccTyped, WrapAssumption DEF CountsTyped, WrapAssumption
<1> QED BY <1>0, <1>1, <1>2, <1>3, PTL DEF Spec

-----------------------------------------------------------------------------
(* Spaced pulses.  The pulses on the way are the places where neighbouring *)
(* flip-flops differ.                                                      *)

One(b)   == IF b THEN 1 ELSE 0
First    == src_state # state_dly1
Second   == state_dly1 # state_dly2
Third    == state_dly2 # dst_state
Moving   == One(First) + One(Second) + One(Third)
Ahead(k) == IF got + k >= Wrap THEN got + k - Wrap ELSE got + k
Count    == sent = Ahead(Moving)

Accepts  == Moving' = Moving + 1 /\ sent' = Succ(sent) /\ got' = got
Delivers == Moving' = Moving - 1 /\ sent' = sent /\ got' = Succ(got)
Passes   == /\ Moving > 0 /\ Moving < 3 /\ Moving' = Moving
            /\ sent' = Succ(sent) /\ got' = Succ(got)
Waits    == Moving' = Moving /\ sent' = sent /\ got' = got
Starts   == Moving' = 0 /\ sent' = 0 /\ got' = 0

(* An accepted pulse makes a new difference at the front, a destination    *)
(* edge moves all of them one place on, and the last one out is the pulse. *)
LEMMA Places ==
  ASSUME ~crowded', LevelsTyped
  PROVE  /\ SrcPulse /\ UNCHANGED <<state_dly1, state_dly2, dst_state, got>>
              => /\ ~First /\ First' /\ (Second' <=> Second) /\ (Third' <=> Third)
                 /\ sent' = Succ(sent) /\ got' = got
         /\ DstEdge(src_state) /\ UNCHANGED <<src_state, sent>>
              => /\ ~First' /\ (Second' <=> First) /\ (Third' <=> Second)
                 /\ got' = IF Third THEN Succ(got) ELSE got
                 /\ sent' = sent
         /\ \A level \in BOOLEAN :
              SrcPulse /\ DstEdge(level) /\ level \in {src_state, src_state'}
              => /\ ~First /\ (Third' <=> Second) /\ (Second' <=> ~First')
                 /\ got' = IF Third THEN Succ(got) ELSE got
                 /\ sent' = Succ(sent)
<1>1. SrcPulse => ~First /\ src_state' = ~src_state /\ sent' = Succ(sent)
  BY DEF SrcPulse, Toggle, LastSampled, First
<1>2. \A level : DstEdge(level) => got' = IF Third THEN Succ(got) ELSE got
  BY DEF DstEdge, dst_pulse, Third
<1>3. SrcPulse /\ UNCHANGED <<state_dly1, state_dly2, dst_state, got>>
        => First' /\ (Second' <=> Second) /\ (Third' <=> Third)
  BY <1>1 DEF First, Second, Third, LevelsTyped
<1>4. DstEdge(src_state) /\ UNCHANGED <<src_state, sent>>
        => ~First' /\ (Second' <=> First) /\ (Third' <=> Second)
  BY DEF DstEdge, First, Second, Third, LevelsTyped
<1>5. ASSUME NEW level \in BOOLEAN, SrcPulse, DstEdge(level),
             level \in {src_state, src_state'}
      PROVE  (Third' <=> Second) /\ (Second' <=> ~First')
  BY <1>1, <1>5 DEF DstEdge, First, Second, Third, LevelsTyped
<1> QED BY <1>1, <1>2, <1>3, <1>4, <1>5

LEMMA StepCases ==
  ASSUME ~crowded', LevelsTyped, [Next]_vars
  PROVE  Accepts \/ Delivers \/ Passes \/ Waits \/ Starts
<1> USE DEF Accepts, Delivers, Passes, Waits, Starts, Moving, One
<1>1. CASE Src
  BY <1>1, Places DEF Src
<1>2. CASE Dst
  BY <1>2, Places DEF Dst
<1>3. CASE Both
  BY <1>3, Places DEF Both
<1>4. CASE Reset
  <2>1. ~First' /\ ~Second' /\ ~Third'
    BY <1>4 DEF Reset, First, Second, Third
  <2>2. sent' = 0 /\ got' = 0
    BY <1>4 DEF Reset
  <2> QED BY <2>1, <2>2
<1>5. CASE UNCHANGED vars
  BY <1>5 DEF vars, First, Second, Third
<1> QED BY <1>1, <1>2, <1>3, <1>4, <1>5 DEF Next

(* The arithmetic of the circle.                                           *)
LEMMA CountStep ==
  ASSUME CountsTyped, CountsTyped', Count,
         Accepts \/ Delivers \/ Passes \/ Waits \/ Starts
  PROVE  Count' /\ [Transfer!Next]_<<sent, got>>
<1>1. Moving \in 0..3 /\ Moving' \in 0..3
  BY DEF Moving, One
<1>2. Transfer!OnTheWay = Moving
  BY <1>1, WrapAssumption
  DEF Transfer!OnTheWay, Count, Ahead, CountsTyped, WrapAssumption
<1>3. \A n : Transfer!Succ(n) = Succ(n)
  BY DEF Transfer!Succ, Succ
<1>4. Count'
  <2>1. sent' = IF got' + Moving' >= Wrap THEN got' + Moving' - Wrap
                                          ELSE got' + Moving'
    <3>1. CASE Accepts
      BY <1>1, <3>1, WrapAssumption
      DEF Accepts, Count, Ahead, CountsTyped, Succ, WrapAssumption
    <3>2. CASE Delivers
      BY <1>1, <3>2, WrapAssumption
      DEF Delivers, Count, Ahead, CountsTyped, Succ, WrapAssumption
    <3>3. CASE Passes
      BY <1>1, <3>3, WrapAssumption
      DEF Passes, Count, Ahead, CountsTyped, Succ, WrapAssumption
    <3>4. CASE Waits
      BY <3>4 DEF Waits, Count, Ahead
    <3>5. CASE Starts
      BY <3>5, WrapAssumption DEF Starts, WrapAssumption
    <3> QED BY <3>1, <3>2, <3>3, <3>4, <3>5
  <2> QED BY <2>1 DEF Count, Ahead
<1>5. [Transfer!Next]_<<sent, got>>
  BY <1>1, <1>2, <1>3 DEF Transfer!Next, Transfer!Take, Transfer!Come,
     Transfer!Clear, Accepts, Delivers, Passes, Waits, Starts
<1> QED BY <1>4, <1>5

LEMMA CountInit == Init => Count
<1>1. Init => ~First /\ ~Second /\ ~Third /\ sent = 0 /\ got = 0
  BY DEF Init, First, Second, Third
<1>2. ~First /\ ~Second /\ ~Third => Moving = 0
  BY DEF Moving, One
<1> QED BY <1>1, <1>2, WrapAssumption DEF Count, Ahead, WrapAssumption

(* Only a reset makes a crowded history spaced again.                      *)
LEMMA StaysCrowded == crowded /\ [Next]_vars /\ ~crowded' => Starts
<1> SUFFICES ASSUME crowded, [Next]_vars, ~crowded' PROVE Starts
  OBVIOUS
<1>1. Reset
  BY DEF Next, Src, Dst, Both, SrcPulse, vars
<1>2. ~First' /\ ~Second' /\ ~Third'
  BY <1>1 DEF Reset, First, Second, Third
<1> QED BY <1>1, <1>2 DEF Reset, Starts, Moving, One

SpacedCount == ~crowded => Count

LEMMA SpacedStep ==
  ASSUME LevelsTyped, CountsTyped, CountsTyped', SpacedCount, [Next]_vars,
         ~crowded'
  PROVE  Count' /\ [Transfer!Next]_<<sent, got>>
<1>1. CASE Count
  BY <1>1, StepCases, CountStep
<1>2. CASE ~Count
  <2>1. Starts
    BY <1>2, StaysCrowded DEF SpacedCount
  <2>2. Count'
    BY <2>1, WrapAssumption DEF Starts, Count, Ahead, WrapAssumption
  <2> QED BY <2>1, <2>2 DEF Starts, Transfer!Next, Transfer!Clear
<1> QED BY <1>1, <1>2

(* As long as the source leaves a destination edge between two pulses,     *)
(* each pulse comes out exactly once, with at most three on the way.       *)
THEOREM SpacedDelivered == Spec => DeliversOnce
<1>1. Init => SpacedCount /\ Transfer!Init
  BY CountInit DEF Init, Transfer!Init, SpacedCount
<1>2. /\ LevelsTyped /\ CountsTyped /\ CountsTyped' /\ SpacedCount /\ [Next]_vars
      => SpacedCount' /\ [~crowded' => Transfer!Next]_(Transfer!vars)
  BY SpacedStep DEF SpacedCount, Transfer!vars
<1> QED BY <1>1, <1>2, Typed, PTL DEF Spec, DeliversOnce

-----------------------------------------------------------------------------
(* On a circle of even size, pulses are lost two at a time whatever the    *)
(* source does.                                                            *)

Parity(n) == n % 2
InStep    == src_state = dst_state

LEMMA ParityFlips ==
  ASSUME Wrap % 2 = 0, NEW n \in 0..(Wrap - 1), NEW m \in 0..(Wrap - 1)
  PROVE  /\ Parity(Succ(n) - m) = 1 - Parity(n - m)
         /\ Parity(n - Succ(m)) = 1 - Parity(n - m)
         /\ Parity(Succ(n) - Succ(m)) = Parity(n - m)
  BY WrapAssumption DEF Parity, Succ, WrapAssumption

(* LostInPairs (PULSE_SYNC.v:57): as long as the counts do not merge odd   *)
(* and even, a pulse is never lost alone.                                  *)
THEOREM LossesPaired == ASSUME Wrap % 2 = 0 PROVE Spec => []LostInPairs
<1>0. Parity(0 - 0) = 0
  BY DEF Parity
<1>1. Init => LostInPairs
  <2>1. Init => InStep /\ sent = 0 /\ got = 0
    BY DEF Init, InStep
  <2>2. InStep /\ sent = 0 /\ got = 0 => LostInPairs
    BY <1>0 DEF LostInPairs, Parity, InStep
  <2> QED BY <2>1, <2>2
<1>2. LevelsTyped /\ CountsTyped /\ LostInPairs /\ [Next]_vars => LostInPairs'
  <2> SUFFICES ASSUME LevelsTyped, CountsTyped, LostInPairs, [Next]_vars
               PROVE  LostInPairs'
    OBVIOUS
  <2>1. Parity(sent - got) = IF InStep THEN 0 ELSE 1
    BY DEF LostInPairs, Parity, InStep
  <2>2. Parity(sent' - got') = IF InStep' THEN 0 ELSE 1
    <3>1. CASE Src
      <4>1. sent' = Succ(sent) /\ got' = got /\ (InStep' <=> ~InStep)
        BY <3>1 DEF Src, SrcPulse, Toggle, InStep, LevelsTyped
      <4> QED BY <2>1, <4>1, ParityFlips DEF CountsTyped
    <3>2. CASE Dst
      <4>1. /\ sent' = sent
            /\ \/ got' = Succ(got) /\ (InStep' <=> ~InStep)
               \/ got' = got /\ (InStep' <=> InStep)
        BY <3>2 DEF Dst, DstEdge, dst_pulse, InStep, LevelsTyped
      <4> QED BY <2>1, <4>1, ParityFlips DEF CountsTyped
    <3>3. CASE Both
      <4>1. /\ sent' = Succ(sent)
            /\ \/ got' = Succ(got) /\ (InStep' <=> InStep)
               \/ got' = got /\ (InStep' <=> ~InStep)
        BY <3>3 DEF Both, SrcPulse, Toggle, DstEdge, dst_pulse, InStep, LevelsTyped
      <4> QED BY <2>1, <4>1, ParityFlips DEF CountsTyped
    <3>4. CASE Reset
      <4>1. InStep' /\ sent' = 0 /\ got' = 0
        BY <3>4 DEF Reset, InStep
      <4> QED BY <1>0, <4>1
    <3>5. CASE UNCHANGED vars
      BY <2>1, <3>5 DEF vars, Parity, InStep
    <3> QED BY <3>1, <3>2, <3>3, <3>4, <3>5 DEF Next
  <2> QED BY <2>2 DEF LostInPairs, Parity, InStep
<1> QED BY <1>1, <1>2, Typed, PTL DEF Spec
=============================================================================
