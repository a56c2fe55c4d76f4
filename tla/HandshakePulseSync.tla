------------------------- MODULE HandshakePulseSync --------------------------
(***************************************************************************)
(* S05_pulse_sync/code/HANDSHAKE_PULSE_SYNC.v: a pulse crosses from one    *)
(* clock to another, unrelated one.  The source raises a request, the      *)
(* destination's copy of it makes the pulse and an acknowledgement, and    *)
(* the source drops the request when it sees that.                         *)
(*                                                                         *)
(* The edges of the two clocks come in any order, at any relative rate, or *)
(* together: then each sampling flip-flop may take the old or the new      *)
(* value, whatever the other one takes.                                    *)
(***************************************************************************)
EXTENDS Integers

CONSTANT
  Wrap  \* the histories count round a circle of this many numbers

ASSUME WrapAssumption == Wrap \in Nat /\ Wrap >= 2

VARIABLES
  src_sync_req,    \* request, source clock
  src_sync_fail,   \* a pulse came while the last one was under way
  ack_state_dly1, ack_state_dly2, src_sync_ack,   \* the ack, sampled
  req_state_dly1, req_state_dly2, dst_req_state,  \* the request, sampled
  dst_sync_ack,    \* acknowledgement, destination clock
  sent, got,       \* history: pulses accepted, and seen by the destination
  split            \* history: one side has been reset without the other

srcVars == <<src_sync_req, src_sync_fail, ack_state_dly1, ack_state_dly2,
             src_sync_ack>>
dstVars == <<req_state_dly1, req_state_dly2, dst_req_state, dst_sync_ack>>
vars    == <<srcVars, dstVars, sent, got, split>>

Succ(n) == IF n = Wrap - 1 THEN 0 ELSE n + 1

(* Faulty form: the source is ready as soon as its request is down.        *)
ReqDown == ~src_sync_req

src_sync_idle == ~(src_sync_req \/ src_sync_ack)

(* Faulty form: the pulse lasts as long as the sampled request.            *)
WholeRequest == req_state_dly2

dst_pulse == ~dst_req_state /\ req_state_dly2

(* Faulty form: the request is dropped after one clock.                    *)
ShortRequest(src_pulse) == src_sync_req' = (src_pulse /\ src_sync_idle)

Request(src_pulse) ==
  src_sync_req' = IF src_pulse /\ src_sync_idle THEN TRUE
                  ELSE IF src_sync_ack THEN FALSE ELSE src_sync_req

(* Faulty form: the acknowledgement is never taken back.                   *)
StickyAck == dst_sync_ack' = (dst_sync_ack \/ req_state_dly2)

Acknowledge == dst_sync_ack' = req_state_dly2

-----------------------------------------------------------------------------
Init ==
  /\ src_sync_req = FALSE /\ src_sync_fail = FALSE
  /\ ack_state_dly1 = FALSE /\ ack_state_dly2 = FALSE /\ src_sync_ack = FALSE
  /\ req_state_dly1 = FALSE /\ req_state_dly2 = FALSE /\ dst_req_state = FALSE
  /\ dst_sync_ack = FALSE
  /\ sent = 0 /\ got = 0 /\ split = FALSE

(* One edge of the source clock; ack is the acknowledgement it samples.    *)
SrcEdge(src_pulse, ack) ==
  /\ src_sync_fail' = (src_pulse /\ ~src_sync_idle)
  /\ Request(src_pulse)
  /\ ack_state_dly1' = ack
  /\ ack_state_dly2' = ack_state_dly1
  /\ src_sync_ack' = ack_state_dly2
  /\ sent' = IF src_pulse /\ src_sync_idle THEN Succ(sent) ELSE sent

(* One edge of the destination clock; req is the request it samples.  The  *)
(* logic behind dst_pulse takes the pulse at this edge.                    *)
DstEdge(req) ==
  /\ req_state_dly1' = req
  /\ req_state_dly2' = req_state_dly1
  /\ dst_req_state' = req_state_dly2
  /\ Acknowledge
  /\ got' = IF dst_pulse THEN Succ(got) ELSE got

SrcReset ==
  /\ src_sync_req' = FALSE /\ src_sync_fail' = FALSE
  /\ ack_state_dly1' = FALSE /\ ack_state_dly2' = FALSE /\ src_sync_ack' = FALSE

DstReset ==
  /\ req_state_dly1' = FALSE /\ req_state_dly2' = FALSE /\ dst_req_state' = FALSE
  /\ dst_sync_ack' = FALSE

(* src_rst_n and dst_rst_n fall together, or one without the other.        *)
CommonReset ==
  SrcReset /\ DstReset /\ sent' = 0 /\ got' = 0 /\ split' = FALSE

LoneReset ==
  /\ \/ SrcReset /\ UNCHANGED dstVars
     \/ DstReset /\ UNCHANGED srcVars
  /\ split' = TRUE
  /\ UNCHANGED <<sent, got>>

Reset == CommonReset \/ LoneReset

Src == /\ \E src_pulse \in BOOLEAN : SrcEdge(src_pulse, dst_sync_ack)
       /\ UNCHANGED <<dstVars, got, split>>

Dst == /\ DstEdge(src_sync_req)
       /\ UNCHANGED <<srcVars, sent, split>>

Both ==
  \E src_pulse, ack, req \in BOOLEAN :
    /\ SrcEdge(src_pulse, ack) /\ DstEdge(req)
    /\ ack \in {dst_sync_ack, dst_sync_ack'}
    /\ req \in {src_sync_req, src_sync_req'}
    /\ UNCHANGED split

Next == Src \/ Dst \/ Both \/ Reset
Spec == Init /\ [][Next]_vars

-----------------------------------------------------------------------------
TypeOK ==
  /\ src_sync_req \in BOOLEAN /\ src_sync_fail \in BOOLEAN
  /\ ack_state_dly1 \in BOOLEAN /\ ack_state_dly2 \in BOOLEAN
  /\ src_sync_ack \in BOOLEAN
  /\ req_state_dly1 \in BOOLEAN /\ req_state_dly2 \in BOOLEAN
  /\ dst_req_state \in BOOLEAN /\ dst_sync_ack \in BOOLEAN
  /\ sent \in 0..(Wrap - 1) /\ got \in 0..(Wrap - 1) /\ split \in BOOLEAN

(* The seven flip-flops from the request round to the source's copy of the *)
(* acknowledgement carry one edge at a time: behind a raised request they  *)
(* are raised up to some point, behind a dropped one dropped up to some    *)
(* point.  This is why src_sync_idle (l.68) needs to look at both ends.    *)
LoopInOrder ==
  IF src_sync_req
    THEN /\ src_sync_ack => ack_state_dly2
         /\ ack_state_dly2 => ack_state_dly1
         /\ ack_state_dly1 => dst_sync_ack
         /\ dst_sync_ack => req_state_dly2
         /\ req_state_dly2 => req_state_dly1
    ELSE /\ req_state_dly1 => req_state_dly2
         /\ req_state_dly2 => dst_sync_ack
         /\ dst_sync_ack => ack_state_dly1
         /\ ack_state_dly1 => ack_state_dly2
         /\ ack_state_dly2 => src_sync_ack

OneEdge == ~split => LoopInOrder

(* Every accepted pulse comes out once, and none comes out unasked, at any *)
(* rates of the two clocks, as long as the two sides are reset together.   *)
Transfer == INSTANCE PulseTransfer WITH Capacity <- 1
DeliversOnce == Transfer!Init /\ [][~split' => Transfer!Next]_(Transfer!vars)

(* No pulse is swallowed: the destination sees the one it is owed, unless  *)
(* one side is reset alone.                                                *)
PulseArrives == sent # got ~> sent = got \/ split

(* A reset of one side alone in the middle of a handshake leaves edges of  *)
(* two handshakes on the way, and at bad rates pulse after pulse can keep  *)
(* them going for ever.  A source that pauses gets rid of them: with no    *)
(* new request every level comes down.                                     *)
PauseHeals ==
  <>[][~src_sync_req => ~src_sync_req']_vars
    => <>[](LoopInOrder /\ ~src_sync_req /\ ~src_sync_ack /\ ~dst_sync_ack)
=============================================================================
