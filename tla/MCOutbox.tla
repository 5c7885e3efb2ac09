------------------------------ MODULE MCOutbox ------------------------------
(* Outbox on small instances, for TLC.                                     *)
EXTENDS Outbox

CONSTANTS e1, e2

TwoEvents == {e1, e2}
=============================================================================
