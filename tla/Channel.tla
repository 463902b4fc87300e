------------------------------- MODULE Channel -------------------------------
(***************************************************************************)
(* What a framed connection promises in one direction, whatever its locks,  *)
(* its buffers and the deadlines of its writes: frames arrive whole and in  *)
(* the order in which they were sent, none twice and none in place of       *)
(* another.  It may stop at any point and lose what has not arrived by then.*)
(* FrameConn implements it, once for each direction.                        *)
(***************************************************************************)
EXTENDS Naturals, Sequences

VARIABLES
    sent,     \* the frames that were sent, in order
    arrived   \* the frames that have arrived, in order

Init == sent = <<>> /\ arrived = <<>>

\* Some frame is sent.
Send == /\ Len(sent') = Len(sent) + 1
        /\ \A n \in 1 .. Len(sent) : sent'[n] = sent[n]
        /\ UNCHANGED arrived

\* The next frame arrives.
Arrive == /\ Len(arrived) < Len(sent)
          /\ arrived' = Append(arrived, sent[Len(arrived) + 1])
          /\ UNCHANGED sent

Spec == Init /\ [][Send \/ Arrive]_<<sent, arrived>>
=============================================================================
