------------------------------ MODULE OneTimeUse ------------------------------
(***************************************************************************)
(* What every counter based one time password of privacyIDEA promises,     *)
(* whatever the token type: the counters of the OTP values a token lets    *)
(* through only grow, so no OTP value position is let through twice under  *)
(* one secret.  "If the authentication succeeds an OTP counter needs to be *)
(* increased, i.e. the OTP value that was used for this authentication is  *)
(* invalidated!" (lib/tokenclass.py, TokenClass.authenticate).             *)
(***************************************************************************)
EXTENDS Integers, Sequences

VARIABLES
    next,      \* the smallest counter that may still be accepted
    accepted   \* the counters accepted since the secret was set, in order

abstractVars == <<next, accepted>>

AbstractInit ==
    /\ next = 0
    /\ accepted = <<>>

\* One OTP value is let through: its counter was not passed yet, and is now, with
\* counters given up behind it.
Accept ==
    /\ accepted' # <<>>
    /\ LET c == accepted'[Len(accepted')] IN
         /\ accepted' = Append(accepted, c)
         /\ c >= next
         /\ next' > c

\* A resynchronisation lets two successive OTP values through at once.
AcceptPair ==
    /\ Len(accepted') > 1
    /\ LET c == accepted'[Len(accepted') - 1] IN
         /\ accepted' = Append(Append(accepted, c), c + 1)
         /\ c >= next
         /\ next' = c + 2

\* Counters are given up without being accepted.
Skip ==
    /\ accepted' = accepted
    /\ next' >= next

\* A new secret: its OTP values are other ones.
NewSecret ==
    /\ accepted' = <<>>
    /\ next' = 0

AbstractNext == Accept \/ AcceptPair \/ Skip \/ NewSecret

AbstractSpec == AbstractInit /\ [][AbstractNext]_abstractVars
===============================================================================
