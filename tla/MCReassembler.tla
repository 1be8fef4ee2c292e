--------------------------- MODULE MCReassembler ---------------------------
(* Small instances of Reassembler for TLC. *)
EXTENDS Reassembler

Message(start, len, update) == [start |-> start, len |-> len, update |-> update]

\* Three updates in a row; messages at the larger capacity and one beyond it;
\* one at MAX_SIZE and one beyond.
MCStreams ==
    {<<Message(0, 2, TRUE), Message(2, 3, TRUE), Message(5, 2, TRUE), Message(7, 2, FALSE)>>,
     <<Message(0, 2, FALSE), Message(2, 4, FALSE), Message(6, 3, FALSE)>>,
     <<Message(0, 3, FALSE), Message(3, 5, FALSE), Message(8, 2, FALSE)>>,
     <<Message(0, 2, FALSE), Message(2, 6, FALSE), Message(8, 2, TRUE)>>}
=============================================================================
