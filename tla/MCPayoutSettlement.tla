------------------------- MODULE MCPayoutSettlement -------------------------
(* Instances of PayoutSettlement for TLC: every call is for the one order   *)
(* o1.  Orders share nothing but the group's status and the crash, so two   *)
(* orders show nothing one does not.                                        *)
EXTENDS PayoutSettlement

CONSTANT o1

MCOrderOf == [c \in Calls |-> o1]
=============================================================================
