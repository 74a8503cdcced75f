----------------------------- MODULE MCHotpWorkers -----------------------------
(* Two workers, which are interchangeable. *)
EXTENDS HotpWorkers, TLC

WorkerSymmetry == Permutations(Workers)
===============================================================================
