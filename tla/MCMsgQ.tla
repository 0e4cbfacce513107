------------------------------- MODULE MCMsgQ -------------------------------
(* Small instances of MsgQ for TLC. *)
EXTENDS MsgQ

CONSTANTS a, b, m1, m2

(* Messages of two kinds; receives ask for the first kind, or for all.     *)
Kinds == [m \in Msgs |-> IF m = m2 THEN b ELSE a]
Filters2 == { {a}, {a, b} }

=============================================================================
