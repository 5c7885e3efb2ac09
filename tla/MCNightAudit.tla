---------------------------- MODULE MCNightAudit ----------------------------
(* NightAudit on small instances, for TLC.                                 *)
EXTENDS NightAudit

CONSTANTS b1

OneBooking == {b1}

AnyStay == {s \in Dates \X Dates : s[1] < s[2]}
=============================================================================
