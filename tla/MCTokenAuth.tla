------------------------------ MODULE MCTokenAuth ------------------------------
(* Two tokens of one user under a few configurations. *)
EXTENDS TokenAuth, TLC

Plain == [falsePin |-> FALSE, pinOnly |-> FALSE, onChallenge |-> FALSE, force |-> FALSE,
          resetAll |-> FALSE, noCount |-> TRUE, defaultReset |-> FALSE, clearTimeout |-> 1]

\* Every counting switch on
Strict == [Plain EXCEPT !.falsePin = TRUE, !.pinOnly = TRUE, !.onChallenge = TRUE,
                        !.resetAll = TRUE, !.defaultReset = TRUE]

\* Challenges only, and the fail counter is never cleared by itself
Forced == [Plain EXCEPT !.force = TRUE, !.clearTimeout = 0]

Counting == [Plain EXCEPT !.noCount = FALSE]

GuessConfigs == {Plain, Strict, Forced}
CountConfigs == {Counting}

\* Tokens with the same properties are interchangeable.
TokenSymmetry == Permutations(Tokens)
===============================================================================
