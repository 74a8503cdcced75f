---------------------------- MODULE MCOfflineRefill ----------------------------
(* Two machines and one secret without collisions; counters above MaxCounter  *)
(* give a value no client sends, which bounds count.                          *)
EXTENDS OfflineRefill, TLC

CONSTANTS k1, none, MaxCounter

MCKeys == {k1}
MCHotp(key, c) == IF c > MaxCounter THEN none ELSE c
MCValues == 0 .. MaxCounter

\* What follows a disturbed state is disturbed too, and the properties claim
\* nothing of it: such a state is checked, its successors are left out.
Undisturbed == ~disturbed

\* The machines are interchangeable.
MachineSymmetry == Permutations(Clients)
===============================================================================
