----------------------------- MODULE BoundedFifo -----------------------------
(***************************************************************************)
(* What a FIFO promises (S06_FIFO, S11_fifo): the words come out in the    *)
(* order they went in, none is lost, repeated or invented, and never more  *)
(* than Depth of them are stored.  A word may go in and another come out   *)
(* in the same step.                                                       *)
(***************************************************************************)
EXTENDS Integers, Sequences

CONSTANTS
  Data,   \* the words
  Zero,   \* the word on the output after a reset
  Depth   \* words the FIFO holds

VARIABLES
  queue,  \* the words stored, oldest first
  out     \* the word that came out last

vars == <<queue, out>>

Init == queue = <<>> /\ out = Zero

Put(d) ==
  /\ Len(queue) < Depth
  /\ queue' = Append(queue, d) /\ out' = out

Get ==
  /\ queue # <<>>
  /\ queue' = Tail(queue) /\ out' = Head(queue)

PutGet(d) ==
  /\ queue # <<>> /\ Len(queue) < Depth
  /\ queue' = Append(Tail(queue), d) /\ out' = Head(queue)

Clear == queue' = <<>> /\ out' = Zero

Next ==
  \/ \E d \in Data : Put(d) \/ PutGet(d)
  \/ Get
  \/ Clear

Spec == Init /\ [][Next]_vars
=============================================================================
