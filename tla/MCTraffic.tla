----------------------------- MODULE MCTraffic -----------------------------
(***************************************************************************)
(* The two halves of a connection's traffic protection for TLC: the keys    *)
(* (KeyUpdate) and the records sealed under them (RecordLayer).  They share *)
(* no state; one moves only while the other is where it started, so that    *)
(* the states of this module are those of the two side by side and not      *)
(* their product.                                                           *)
(***************************************************************************)
EXTENDS KeyUpdate, RecordLayer

TrafficInit == KeyUpdateInit /\ Init

KeyUpdateMoves == Init /\ KeyUpdateNext /\ UNCHANGED vars

RecordLayerMoves == KeyUpdateInit /\ Next /\ UNCHANGED keyUpdateVars

TrafficSpec ==
    /\ TrafficInit
    /\ [][KeyUpdateMoves \/ RecordLayerMoves]_<<vars, keyUpdateVars>>

\* The fairness of the two: what it is about cannot happen while a component is
\* where it started.
FairTrafficSpec == TrafficSpec /\ Fairness /\ ReaderFairness
============================================================================
