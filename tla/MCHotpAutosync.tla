---------------------------- MODULE MCHotpAutosync ----------------------------
(* A small instance: two secrets whose OTP values collide, so that one value  *)
(* matches several counters of a window and counters of both secrets.         *)
EXTENDS HotpAutosync

CONSTANTS k1, k2, none, MaxCounter

MCKeys == {k1, k2}
MCValues == 0 .. 2

\* Counters above MaxCounter give a value no client sends, which bounds count.
MCHotp(key, c) ==
    IF c > MaxCounter THEN none
    ELSE IF key = k1 THEN c % 3 ELSE (2 * c + 1) % 3
===============================================================================
