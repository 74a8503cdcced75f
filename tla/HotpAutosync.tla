----------------------------- MODULE HotpAutosync -----------------------------
(***************************************************************************)
(* HotpToken with a history of the OTP values the user presented lately,   *)
(* to say what the automatic resynchronisation asks for: "Now the user     *)
(* needs to authenticate a second time within the time-interval given in   *)
(* Auto resync timeout with the next successive OTP value"                 *)
(* (doc/configuration/system_config.rst, autosync).                        *)
(***************************************************************************)
EXTENDS HotpToken

VARIABLES
    heard    \* history: [key, val, at] of the values presented lately

autosyncVars == <<hotpVars, heard>>

Recent(h, t) == t < h.at + SyncTimeout

AutosyncInit == Init /\ heard = {}

\* A value presented again counts from then on.
Hear(v) ==
    {h \in heard : <<h.key, h.val>> # <<secret, v>>}
        \cup {[key |-> secret, val |-> v, at |-> now]}

AutosyncNext ==
    \/ \E v \in Values :
         /\ PresentOtp(v)
         /\ heard' = Hear(v)
    \/ /\ Tick
       /\ heard' = {h \in heard : Recent(h, now')}
    \/ /\ \/ \E v \in Values : FindByOtp(v)
          \/ \E v1, v2 \in Values : Resync(v1, v2)
          \/ \E key \in Keys : Reenroll(key)
          \/ Revoke
       /\ UNCHANGED heard

AutosyncSpec == AutosyncInit /\ [][AutosyncNext]_autosyncVars

-----------------------------------------------------------------------------
\* The step lets one counter through that neither the counter window nor the
\* window of a search by OTP value reaches.
AheadOfWindow ==
    /\ Len(accepted') = Len(accepted) + 1
    /\ accepted'[Len(accepted')] >= count + CountWindow
    /\ accepted'[Len(accepted')] >= count + FindWindow

PredecessorHeard(c) ==
    \E h \in heard : h.val = Hotp(h.key, c - 1) /\ Recent(h, now)

\* An OTP value beyond the counter window is let through only if the value of
\* the preceding counter was presented within AutoResyncTimeout, to whichever
\* secret the token had then; one far OTP value alone never gets in, whatever
\* requests, searches, resynchronisations and clock steps come in between
\* (HotpTokenClass._autosync).
AutosyncNeedsPredecessor ==
    [][AheadOfWindow => PredecessorHeard(accepted'[Len(accepted')])]_autosyncVars
===============================================================================
