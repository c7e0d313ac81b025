------------------------------- MODULE Slots -------------------------------
(* The resident sessions of batched mode, numbered as in s->slots[].       *)
EXTENDS Integers

CONSTANT SlotCount          \* --batched-session N

ASSUME SlotCountAssumption == SlotCount \in Nat \ {0}

Slots == 0 .. SlotCount - 1
=============================================================================
