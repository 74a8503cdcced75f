------------------------------ MODULE MCWebLogin ------------------------------
(* The login route of one tab. *)
EXTENDS WebLogin

CONSTANT a

OneTab == {a}
===============================================================================
