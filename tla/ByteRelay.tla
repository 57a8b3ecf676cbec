------------------------------ MODULE ByteRelay ------------------------------
(***************************************************************************)
(* What a terminal session promises of the bytes a shell writes: a relay.  *)
(* While it is open the receiver gets more and more of what was sent, in   *)
(* order, with nothing left out, repeated or added.  A receiver that is    *)
(* replaced leaves off where the new one goes on.  The relay may be closed *)
(* with bytes still under way; then it promises nothing until it is        *)
(* started afresh for another sender.                                      *)
(***************************************************************************)
EXTENDS Integers, Sequences

VARIABLES
  sent,      \* all that was sent since the relay was started
  received,  \* all that the receiver was given
  earlier,   \* all that the receivers before it were given
  open

rvars == <<sent, received, earlier, open>>

Send ==
  /\ open /\ Len(sent') = Len(sent) + 1
  /\ SubSeq(sent', 1, Len(sent)) = sent
  /\ UNCHANGED <<received, earlier, open>>

Receive ==
  /\ open /\ \E n \in Len(earlier \o received)..Len(sent) :
               earlier \o received' = SubSeq(sent, 1, n)
  /\ UNCHANGED <<sent, earlier, open>>

Replace ==
  /\ open /\ earlier' = earlier \o received /\ received' = <<>>
  /\ UNCHANGED <<sent, open>>

Close == open /\ open' = FALSE /\ UNCHANGED <<sent, received, earlier>>

Closed == ~open /\ ~open'

Start == open' = TRUE /\ received' = <<>> /\ earlier' = <<>>

RInit == sent = <<>> /\ received = <<>> /\ earlier = <<>> /\ open = FALSE
RNext == Send \/ Receive \/ Replace \/ Close \/ Closed \/ Start
RSpec == RInit /\ [][RNext]_rvars
=============================================================================
