---------------------- MODULE HandshakePulseSync_proofs ----------------------
(***************************************************************************)
(* The handshake synchroniser, as long as its two sides are reset          *)
(* together: the loop carries one edge at a time, and each accepted pulse  *)
(* is delivered exactly once, for every size of the history circle.        *)
(***************************************************************************)
EXTENDS HandshakePulseSync, TLAPS

LevelsTyped ==
  /\ src_sync_req \in BOOLEAN /\ src_sync_fail \in BOOLEAN
  /\ ack_state_dly1 \in BOOLEAN /\ ack_state_dly2 \in BOOLEAN
  /\ src_sync_ack \in BOOLEAN
  /\ req_state_dly1 \in BOOLEAN /\ req_state_dly2 \in BOOLEAN
  /\ dst_req_state \in BOOLEAN /\ dst_sync_ack \in BOOLEAN

(* dst_req_state and dst_sync_ack are two flip-flops behind one signal.    *)
Levels == LevelsTyped /\ LoopInOrder /\ dst_req_state = dst_sync_ack

(* A raised request not yet acknowledged is a pulse on the way.            *)
Owed  == src_sync_req /\ ~dst_sync_ack
Count == got \in 0..(Wrap - 1) /\ sent = IF Owed THEN Succ(got) ELSE got

IInv == ~split => Levels /\ Count

-----------------------------------------------------------------------------
(* The levels.                                                             *)

LEMMA LevelsInit == Init => Levels
  BY Zenon DEF Init, Levels, LevelsTyped, LoopInOrder

AllLow  == /\ ~src_sync_req /\ ~src_sync_ack
           /\ ~ack_state_dly1 /\ ~ack_state_dly2
           /\ ~req_state_dly1 /\ ~req_state_dly2 /\ ~dst_sync_ack
AllHigh == /\ src_sync_req /\ src_sync_ack
           /\ ack_state_dly1 /\ ack_state_dly2
           /\ req_state_dly1 /\ req_state_dly2 /\ dst_sync_ack

(* A request goes up only when the whole loop is down, and comes down only *)
(* when the whole loop is up.                                              *)
LEMMA RequestCases ==
  ASSUME Levels, NEW src_pulse \in BOOLEAN, Request(src_pulse)
  PROVE  \/ src_pulse /\ src_sync_idle /\ AllLow /\ src_sync_req' = TRUE
         \/ /\ ~(src_pulse /\ src_sync_idle)
            /\ AllHigh \/ ~src_sync_req
            /\ src_sync_req' = FALSE
         \/ /\ ~(src_pulse /\ src_sync_idle)
            /\ src_sync_req' = src_sync_req
<1>1. CASE src_pulse /\ src_sync_idle
  <2>1. AllLow
    BY <1>1 DEF Levels, LoopInOrder, src_sync_idle, AllLow
  <2>2. src_sync_req' = TRUE
    BY <1>1 DEF Request
  <2> QED BY <1>1, <2>1, <2>2
<1>2. CASE ~(src_pulse /\ src_sync_idle) /\ src_sync_ack
  <2>1. AllHigh \/ ~src_sync_req
    BY <1>2 DEF Levels, LoopInOrder, AllHigh
  <2>2. src_sync_req' = FALSE
    BY <1>2 DEF Request
  <2> QED BY <1>2, <2>1, <2>2
<1>3. CASE ~(src_pulse /\ src_sync_idle) /\ ~src_sync_ack
  <2>1. src_sync_req' = src_sync_req
    BY <1>3 DEF Request
  <2> QED BY <1>3, <2>1
<1> QED BY <1>1, <1>2, <1>3

LEMMA LevelsSrc == Levels /\ Src => Levels'
<1> SUFFICES ASSUME Levels, UNCHANGED dstVars, NEW src_pulse \in BOOLEAN,
                    SrcEdge(src_pulse, dst_sync_ack)
             PROVE  Levels'
  BY DEF Src
<1>1. CASE AllLow /\ src_sync_req' = TRUE
  BY <1>1 DEF AllLow, SrcEdge, dstVars, Levels, LevelsTyped, LoopInOrder
<1>2. CASE AllHigh /\ src_sync_req' = FALSE
  BY <1>2 DEF AllHigh, SrcEdge, dstVars, Levels, LevelsTyped, LoopInOrder
<1>3. CASE src_sync_req' = src_sync_req
  BY <1>3 DEF SrcEdge, dstVars, Levels, LevelsTyped, LoopInOrder
<1>4. CASE ~src_sync_req /\ src_sync_req' = FALSE
  BY <1>4 DEF SrcEdge, dstVars, Levels, LevelsTyped, LoopInOrder
<1> QED BY <1>1, <1>2, <1>3, <1>4, RequestCases DEF SrcEdge

LEMMA LevelsDst == Levels /\ Dst => Levels'
  BY SMT DEF Dst, DstEdge, Acknowledge, srcVars, Levels, LevelsTyped, LoopInOrder

LEMMA LevelsBoth == Levels /\ Both => Levels'
<1> SUFFICES ASSUME Levels, NEW src_pulse \in BOOLEAN, NEW ack \in BOOLEAN,
                    NEW req \in BOOLEAN,
                    SrcEdge(src_pulse, ack), DstEdge(req),
                    ack \in {dst_sync_ack, dst_sync_ack'},
                    req \in {src_sync_req, src_sync_req'}
             PROVE  Levels'
  BY DEF Both
<1>1. CASE AllLow /\ src_sync_req' = TRUE
  BY <1>1 DEF AllLow, SrcEdge, DstEdge, Acknowledge, Levels, LevelsTyped, LoopInOrder
<1>2. CASE AllHigh /\ src_sync_req' = FALSE
  BY <1>2 DEF AllHigh, SrcEdge, DstEdge, Acknowledge, Levels, LevelsTyped, LoopInOrder
<1>3. CASE src_sync_req' = src_sync_req
  BY <1>3 DEF SrcEdge, DstEdge, Acknowledge, Levels, LevelsTyped, LoopInOrder
<1>4. CASE ~src_sync_req /\ src_sync_req' = FALSE
  BY <1>4 DEF SrcEdge, DstEdge, Acknowledge, Levels, LevelsTyped, LoopInOrder
<1> QED BY <1>1, <1>2, <1>3, <1>4, RequestCases DEF SrcEdge

(* A step that leaves the two sides together: a clock edge of either side  *)
(* or of both, or a reset of both.                                         *)
TogetherStep == Src \/ Dst \/ Both \/ CommonReset \/ UNCHANGED vars

LEMMA Together ==
  ASSUME [Next]_vars, ~split'
  PROVE  /\ TogetherStep
         /\ CommonReset \/ ~split
<1>1. ~LoneReset
  BY DEF LoneReset
<1>2. TogetherStep
  BY <1>1 DEF TogetherStep, Next, Reset
<1>3. Src \/ Dst \/ Both \/ UNCHANGED vars => ~split
  BY DEF Src, Dst, Both, vars
<1> QED BY <1>2, <1>3 DEF TogetherStep

LEMMA LevelsReset == CommonReset => Levels'
  BY DEF CommonReset, SrcReset, DstReset, Levels, LevelsTyped, LoopInOrder

LEMMA LevelsNext == Levels /\ TogetherStep => Levels'
<1> SUFFICES ASSUME Levels, TogetherStep PROVE Levels'
  OBVIOUS
<1>1. CASE Src
  BY <1>1, LevelsSrc
<1>2. CASE Dst
  BY <1>2, LevelsDst
<1>3. CASE Both
  BY <1>3, LevelsBoth
<1>4. CASE CommonReset
  BY <1>4, LevelsReset
<1>5. CASE UNCHANGED vars
  BY <1>5 DEF vars, srcVars, dstVars, Levels, LevelsTyped, LoopInOrder
<1> QED BY <1>1, <1>2, <1>3, <1>4, <1>5 DEF TogetherStep

-----------------------------------------------------------------------------
(* The pulses.  A step accepts one, delivers the one on the way, or leaves *)
(* both ends alone; at most one is ever on the way.                        *)

Accepts  == ~Owed /\ Owed' /\ sent' = Succ(sent) /\ got' = got
Delivers == Owed /\ ~Owed' /\ got' = Succ(got) /\ sent' = sent
Waits    == (Owed' <=> Owed) /\ sent' = sent /\ got' = got
Starts   == ~Owed' /\ sent' = 0 /\ got' = 0

LEMMA DstCases ==
  ASSUME Levels, NEW req \in BOOLEAN, DstEdge(req)
  PROVE  \/ src_sync_req /\ ~dst_sync_ack /\ dst_sync_ack' = TRUE /\ got' = Succ(got)
         \/ (src_sync_req => (dst_sync_ack' <=> dst_sync_ack)) /\ got' = got
<1>1. dst_sync_ack' = req_state_dly2
  BY DEF DstEdge, Acknowledge
<1>2. CASE dst_pulse
  <2>1. got' = Succ(got)
    BY <1>2 DEF DstEdge
  <2>2. src_sync_req /\ ~dst_sync_ack /\ req_state_dly2 = TRUE
    BY <1>2 DEF dst_pulse, Levels, LevelsTyped, LoopInOrder
  <2> QED BY <1>1, <2>1, <2>2
<1>3. CASE ~dst_pulse
  <2>1. got' = got
    BY <1>3 DEF DstEdge
  <2>2. src_sync_req => (req_state_dly2 <=> dst_sync_ack)
    BY <1>3 DEF dst_pulse, Levels, LevelsTyped, LoopInOrder
  <2> QED BY <1>1, <2>1, <2>2
<1> QED BY <1>2, <1>3

LEMMA SrcCases ==
  ASSUME Levels, NEW src_pulse \in BOOLEAN, NEW ack, SrcEdge(src_pulse, ack)
  PROVE  \/ AllLow /\ src_sync_req' = TRUE /\ sent' = Succ(sent)
         \/ (AllHigh \/ ~src_sync_req) /\ src_sync_req' = FALSE /\ sent' = sent
         \/ src_sync_req' = src_sync_req /\ sent' = sent
<1>1. Request(src_pulse)
  BY DEF SrcEdge
<1>2. CASE src_pulse /\ src_sync_idle
  <2>1. sent' = Succ(sent)
    BY <1>2 DEF SrcEdge
  <2> QED BY <1>1, <1>2, <2>1, RequestCases
<1>3. CASE ~(src_pulse /\ src_sync_idle)
  <2>1. sent' = sent
    BY <1>3 DEF SrcEdge
  <2> QED BY <1>1, <1>3, <2>1, RequestCases
<1> QED BY <1>2, <1>3

LEMMA ResetStarts == CommonReset => Starts
  BY DEF CommonReset, SrcReset, DstReset, Starts, Owed

LEMMA StepCases ==
  ASSUME Levels, TogetherStep
  PROVE  Accepts \/ Delivers \/ Waits \/ Starts
<1> USE DEF Accepts, Delivers, Waits, Starts, Owed
<1>1. CASE Src
  <2>1. PICK src_pulse \in BOOLEAN : SrcEdge(src_pulse, dst_sync_ack)
    BY <1>1 DEF Src
  <2>2. dst_sync_ack' = dst_sync_ack /\ got' = got
    BY <1>1 DEF Src, dstVars
  <2> QED BY <2>1, <2>2, SrcCases DEF AllLow, AllHigh
<1>2. CASE Dst
  <2>1. DstEdge(src_sync_req) /\ src_sync_req \in BOOLEAN
    BY <1>2 DEF Dst, Levels, LevelsTyped
  <2>2. src_sync_req' = src_sync_req /\ sent' = sent
    BY <1>2 DEF Dst, srcVars
  <2> QED BY <2>1, <2>2, DstCases
<1>3. CASE Both
  <2>1. PICK src_pulse, ack, req \in BOOLEAN :
          SrcEdge(src_pulse, ack) /\ DstEdge(req)
    BY <1>3 DEF Both
  <2>2. CASE AllLow /\ src_sync_req' = TRUE /\ sent' = Succ(sent)
    <3>1. got' = got
      BY <2>1, <2>2, DstCases DEF AllLow
    <3>2. ~dst_sync_ack'
      BY <2>1, <2>2 DEF DstEdge, Acknowledge, AllLow
    <3> QED BY <2>2, <3>1, <3>2 DEF AllLow
  <2>3. CASE (AllHigh \/ ~src_sync_req) /\ src_sync_req' = FALSE /\ sent' = sent
    <3>1. got' = got
      BY <2>1, <2>3, DstCases DEF AllHigh
    <3> QED BY <2>3, <3>1 DEF AllHigh
  <2>4. CASE src_sync_req' = src_sync_req /\ sent' = sent
    BY <2>1, <2>4, DstCases
  <2> QED BY <2>1, <2>2, <2>3, <2>4, SrcCases
<1>4. CASE CommonReset
  BY <1>4, ResetStarts
<1>5. CASE UNCHANGED vars
  BY <1>5 DEF vars, srcVars, dstVars
<1> QED BY <1>1, <1>2, <1>3, <1>4, <1>5 DEF TogetherStep

(* The arithmetic of the circle.                                           *)
LEMMA CountStep ==
  ASSUME Starts \/ Count, Accepts \/ Delivers \/ Waits \/ Starts
  PROVE  Count' /\ [Transfer!Next]_<<sent, got>>
<1>1. \A n \in 0..(Wrap - 1) : Succ(n) \in 0..(Wrap - 1) /\ Succ(n) # n
  BY WrapAssumption DEF WrapAssumption, Succ
<1>2. \A n : Transfer!Succ(n) = Succ(n)
  BY DEF Transfer!Succ, Succ
<1>3. \A n : Succ(n)' = Succ(n')
  BY DEF Succ
<1>4. CASE Count /\ Accepts
  <2>1. Transfer!OnTheWay = 0
    BY <1>4 DEF Accepts, Count, Transfer!OnTheWay
  <2>2. Transfer!Take /\ UNCHANGED got
    BY <1>2, <1>4, <2>1 DEF Accepts, Transfer!Take
  <2>3. Count'
    BY <1>4 DEF Accepts, Count, Succ
  <2> QED BY <2>2, <2>3 DEF Transfer!Next
<1>5. CASE Count /\ Delivers
  <2>1. Transfer!OnTheWay > 0
    BY <1>5, WrapAssumption
    DEF Delivers, Count, Succ, Transfer!OnTheWay, WrapAssumption
  <2>2. Transfer!Come /\ UNCHANGED sent
    BY <1>2, <1>5, <2>1 DEF Delivers, Transfer!Come
  <2>3. Count'
    BY <1>1, <1>5 DEF Delivers, Count, Succ
  <2> QED BY <2>2, <2>3 DEF Transfer!Next
<1>6. CASE Count /\ Waits
  BY <1>6 DEF Waits, Count, Succ
<1>7. CASE Starts
  <2>1. Count'
    BY <1>7, WrapAssumption DEF Starts, Count, WrapAssumption
  <2> QED BY <1>7, <2>1 DEF Starts, Transfer!Next, Transfer!Clear
<1> QED BY <1>4, <1>5, <1>6, <1>7

LEMMA CountInit == Init => Count
  BY WrapAssumption DEF Init, Count, Owed, WrapAssumption

-----------------------------------------------------------------------------
(* One step, whatever it is: nothing is claimed once the sides are apart,  *)
(* and a common reset brings them together again.                          *)
LEMMA Step ==
  ASSUME IInv, [Next]_vars, ~split'
  PROVE  Levels' /\ Count' /\ [Transfer!Next]_<<sent, got>>
<1>1. CASE CommonReset
  <2>1. Levels' /\ Starts
    BY <1>1, LevelsReset, ResetStarts
  <2>2. Count' /\ [Transfer!Next]_<<sent, got>>
    BY <2>1, CountStep
  <2> QED BY <2>1, <2>2
<1>2. CASE ~CommonReset
  <2>1. TogetherStep /\ Levels /\ Count
    BY <1>2, Together DEF IInv
  <2>2. Levels'
    BY <2>1, LevelsNext
  <2>3. Accepts \/ Delivers \/ Waits \/ Starts
    BY <2>1, StepCases
  <2>4. Count' /\ [Transfer!Next]_<<sent, got>>
    BY <2>1, <2>3, CountStep
  <2> QED BY <2>2, <2>4
<1> QED BY <1>1, <1>2

LEMMA Invariant == Spec => []IInv
<1>1. Init => IInv
  BY LevelsInit, CountInit DEF IInv
<1>2. IInv /\ [Next]_vars => IInv'
  BY Step DEF IInv
<1> QED BY <1>1, <1>2, PTL DEF Spec

(* As long as the sides are reset together, the loop of flip-flops carries *)
(* one edge at a time.                                                     *)
THEOREM HandshakeOneEdge == Spec => []OneEdge
<1>1. IInv => OneEdge
  BY DEF IInv, Levels, OneEdge
<1> QED BY <1>1, Invariant, PTL

(* As long as the sides are reset together, the handshake is an exact      *)
(* transfer of pulses with at most one on the way.                         *)
THEOREM HandshakeDelivers == Spec => DeliversOnce
<1>1. Init => Transfer!Init
  BY DEF Init, Transfer!Init
<1>2. IInv /\ [Next]_vars => [~split' => Transfer!Next]_(Transfer!vars)
  BY Step DEF Transfer!vars
<1> QED BY <1>1, <1>2, Invariant, PTL DEF Spec, DeliversOnce
=============================================================================
