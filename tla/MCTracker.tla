------------------------------ MODULE MCTracker ------------------------------
(* Two transactions competing for one slot, two rival blocks at height 1    *)
(* and one at height 2, and a memory that holds a single ending.            *)
EXTENDS Tracker

CONSTANTS h1, h2, slot, a1, b1, a2

MCSlotOf == [h \in {h1, h2} |-> slot]
MCNumOf == [b \in {a1, b1, a2} |-> IF b = a2 THEN 2 ELSE 1]
MCNumber == 0..2
MCPendingLegs == {{"calldata"}, {"native"}}
MCBlockLegs == {{"native"}, {"log"}}
=============================================================================
