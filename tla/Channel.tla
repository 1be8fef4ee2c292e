------------------------------ MODULE Channel ------------------------------
(***************************************************************************)
(* What one direction of the record layer promises: a channel that hands   *)
(* over what was written, in order and each piece once, until it closes;   *)
(* what is written is never taken back, and a closed channel stays closed  *)
(* and hands over nothing more.  Nothing is promised about when it closes. *)
(* RecordLayer implements it.                                              *)
(***************************************************************************)
EXTENDS Sequences, Naturals

CONSTANT Payload

VARIABLES
    sent,       \* what was written, in order
    delivered,  \* what was handed over, in order
    closed      \* whether the receiving end gave up

Init ==
    /\ sent = <<>>
    /\ delivered = <<>>
    /\ closed = FALSE

Write ==
    /\ \E p \in Payload : sent' = Append(sent, p)
    /\ UNCHANGED <<delivered, closed>>

Deliver ==
    /\ ~closed
    /\ Len(delivered) < Len(sent)
    /\ delivered' = Append(delivered, sent[Len(delivered) + 1])
    /\ UNCHANGED <<sent, closed>>

Close ==
    /\ closed' = TRUE
    /\ UNCHANGED <<sent, delivered>>

Next == Write \/ Deliver \/ Close

Spec == Init /\ [][Next]_<<sent, delivered, closed>>
=============================================================================
