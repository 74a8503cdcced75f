--------------------------------- MODULE MCTotp ---------------------------------
(* Instances of TotpDrift: the OTP values of the second secret are those of the *)
(* first, one step later.                                                       *)
EXTENDS TotpDrift

CONSTANTS k1, k2, FirstValue, LastValue

MCKeys == {k1, k2}
MCValues == FirstValue .. LastValue
MCTotpValue(key, c) == IF key = k1 THEN c ELSE c + 1
==================================================================================
