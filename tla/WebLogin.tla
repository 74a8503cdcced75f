------------------------------- MODULE WebLogin -------------------------------
(***************************************************************************)
(* The login route of the Angular web user interface, composed with the    *)
(* session of WebSession: LoginComponent (components/login/                *)
(* login.component.ts) with the push polling and WebAuthn calls of         *)
(* ValidateService.  A request for a session is under way until its answer *)
(* comes, which the component it was sent from handles even when the user  *)
(* reset the form or left the route.  An instance of the component is      *)
(* created whenever the route is entered; the instances are numbered.  The *)
(* server and the phone are external: what they may answer is taken from   *)
(* the calls.                                                              *)
(***************************************************************************)
EXTENDS WebSession

CONSTANTS
    Tab,          \* the tab; nothing happens in others
    MaxUser,      \* bound of the requests by the user's clicks under way
    MaxInst,      \* bound of the LoginComponent instances
    MaxTx         \* bound of the transactions the server opens

ASSUME LoginAssumption ==
    /\ Tab \in Tabs
    /\ MaxUser \in Nat
    /\ MaxInst \in Nat \ {0}
    /\ MaxTx \in Nat
    /\ MaxUser + MaxInst <= MaxPending

VARIABLES
    inst,         \* the number of instances created; the last is the shown one
    comp,         \* comp[i]: the fields of instance i
    reqs,         \* the authentication requests under way
    lastTx,       \* the number of transactions opened
    pushTx,       \* the transactions with a push challenge
    openTx,       \* the transactions the server still knows
    confirmed     \* the transactions confirmed on the phone

serverVars == <<lastTx, pushTx, openTx, confirmed>>
loginVars == <<sessionVars, inst, comp, reqs, serverVars>>

NoTx == 0
NoPoll == -1

\* transactionId, showOtpField, pushTriggered, the transaction whose sign
\* request is in webAuthnTriggered, pollingSubscription, the transaction whose
\* poll request is under way, and a history: the OTP field was opened by a challenge
\* without a list while there was no transaction, and is open since
Fresh == [tx |-> NoTx, otp |-> FALSE, push |-> FALSE, sign |-> NoTx,
          poll |-> FALSE, polled |-> NoPoll, unlisted |-> FALSE]

Insts == 1 .. MaxInst
Shown == page[Tab] = Login

LoginInit ==
    /\ Init
    /\ inst = 1
    /\ comp = [i \in Insts |-> Fresh]
    /\ reqs = {}
    /\ lastTx = 0
    /\ pushTx = {}
    /\ openTx = {}
    /\ confirmed = {}

-----------------------------------------------------------------------------
(* The component *)

StopPolling(c) == [c EXCEPT !.poll = FALSE, !.polled = NoPoll]

\* Mutant: the polling goes on.
ResetChallengeKeepsPolling(c) == [c EXCEPT !.push = FALSE, !.sign = NoTx, !.tx = NoTx]

\* Mutant: the transaction is unset instead of emptied.
ResetChallengeUnset(c) == [StopPolling(c) EXCEPT !.push = FALSE, !.sign = NoTx, !.tx = NoPoll]

\* resetChallengeState
ResetChallenge(c) == [StopPolling(c) EXCEPT !.push = FALSE, !.sign = NoTx, !.tx = NoTx]

\* The challenge branch of evaluateResponse, with the list multi_challenge.
Challenged(c, ctx, tx, push, webauthn) ==
    [c EXCEPT !.tx = tx,
              !.push = push,
              !.sign = IF webauthn THEN tx ELSE @,
              !.poll = push \/ @,
              !.polled = IF push THEN NoPoll ELSE @,
              !.otp = @ \/ ctx = "password",
              !.unlisted = FALSE]

\* The same branch without the list, as the tests of the component have it: the
\* transaction of a former challenge stays, and the OTP field is shown.
ChallengedUnlisted(c, ctx) ==
    IF ctx = "password"
      THEN [c EXCEPT !.otp = TRUE, !.unlisted = c.unlisted \/ (~c.otp /\ c.tx = NoTx)]
      ELSE c

\* showOtpField.set(false)
CloseField(c) == [c EXCEPT !.otp = FALSE, !.unlisted = FALSE]

\* Leaving the login route destroys the instance shown (ngOnDestroy), entering
\* it creates one; after is what the step itself makes of the components.
Lifecycle(after) ==
    CASE Shown /\ page'[Tab] # Login ->
           /\ comp' = [after EXCEPT ![inst] = StopPolling(@)]
           /\ inst' = inst
      [] ~Shown /\ page'[Tab] = Login ->
           /\ inst < MaxInst
           /\ comp' = after
           /\ inst' = inst + 1
      [] OTHER -> comp' = after /\ inst' = inst

\* A request of instance i in the first slot that is free.
Request(i, ctx, tx, slots) ==
    \E n \in slots \ {r.slot : r \in reqs} :
      /\ \A m \in slots : m < n => \E r \in reqs : r.slot = m
      /\ Send(Tab)
      /\ reqs' = reqs \cup {[slot |-> n, inst |-> i, ctx |-> ctx, tx |-> tx]}

UserSlots == 1 .. MaxUser
PollSlot(i) == MaxUser + i

\* onSubmit: the answer to the challenges, or a new login.
Submit ==
    /\ Shown
    /\ comp' = [comp EXCEPT ![inst] = IF @.otp THEN StopPolling(@) ELSE ResetChallenge(@)]
    /\ Request(inst, "password", comp'[inst].tx, UserSlots)
    /\ UNCHANGED <<inst, serverVars>>

WebAuthnLogin ==
    /\ Shown
    /\ comp[inst].sign # NoTx
    /\ Request(inst, "webauthn", comp[inst].tx, UserSlots)
    /\ UNCHANGED <<inst, comp, serverVars>>

\* The button is there as long as no OTP value is asked for.
PasskeyLogin ==
    /\ Shown
    /\ ~comp[inst].otp
    /\ Request(inst, "passkey", NoTx, UserSlots)
    /\ UNCHANGED <<inst, comp, serverVars>>

\* Mutant: the challenge is reset, the OTP field stays.
ResetLoginKeepsField ==
    /\ Shown
    /\ comp[inst].otp
    /\ comp' = [comp EXCEPT ![inst] = ResetChallenge(@)]
    /\ UNCHANGED <<sessionVars, inst, reqs, serverVars>>

ResetLogin ==
    /\ Shown
    /\ comp[inst].otp
    /\ comp' = [comp EXCEPT ![inst] = CloseField(ResetChallenge(@))]
    /\ UNCHANGED <<sessionVars, inst, reqs, serverVars>>

\* The timer of startPushPolling asks for the transaction of this moment and
\* drops the request before, if it is not answered yet (switchMap).
PollTick(i) ==
    /\ comp[i].poll
    /\ comp' = [comp EXCEPT ![i].polled = comp[i].tx]
    /\ UNCHANGED <<sessionVars, inst, reqs, serverVars>>

\* pollTransaction says no: the polling goes on.
PollNotYet(i) ==
    /\ comp[i].polled # NoPoll
    /\ comp[i].polled \notin confirmed
    /\ comp' = [comp EXCEPT ![i].polled = NoPoll]
    /\ UNCHANGED <<sessionVars, inst, reqs, serverVars>>

\* Mutant: the polling goes on after a yes (no take(1)).
PollSuccessGoesOn(i) ==
    /\ comp[i].polled # NoPoll
    /\ comp[i].polled \in confirmed
    /\ comp' = [comp EXCEPT ![i].polled = NoPoll]
    /\ Request(i, "password", comp[i].tx, {PollSlot(i)})
    /\ UNCHANGED <<inst, serverVars>>

\* Mutant: a yes opens the session, no login is asked for.
PollSuccessLogsIn(i) ==
    /\ comp[i].polled # NoPoll
    /\ comp[i].polled \in confirmed
    /\ LoggedIn(Tab, 0)
    /\ Lifecycle([comp EXCEPT ![i] = StopPolling(@)])
    /\ UNCHANGED <<pending, reqs, serverVars>>

\* pollTransaction says yes: take(1), then a login with the transaction that is
\* the current one now.
PollSuccess(i) ==
    /\ comp[i].polled # NoPoll
    /\ comp[i].polled \in confirmed
    /\ comp' = [comp EXCEPT ![i] = StopPolling(@)]
    /\ Request(i, "password", comp[i].tx, {PollSlot(i)})
    /\ UNCHANGED <<inst, serverVars>>

\* A poll request fails, or PUSH_POLLING_TIMEOUT_MS is over: the stream ends.
PollEnds(i) ==
    /\ comp[i].poll
    /\ comp' = [comp EXCEPT ![i] = StopPolling(@)]
    /\ UNCHANGED <<sessionVars, inst, reqs, serverVars>>

-----------------------------------------------------------------------------
(* Answers *)

\* What the server lets through: a password or passkey, or an answer to the
\* challenges of a transaction it knows; a push challenge when confirmed.
Acceptable(r) ==
    /\ r.slot \in UserSlots \/ r.tx \in confirmed
    /\ r.tx = NoTx \/ r.tx \in openTx

\* evaluateResponse of a session.
SessionAnswer(r, logout) ==
    /\ Acceptable(r)
    /\ reqs' = reqs \ {r}
    /\ openTx' = openTx \ {r.tx}
    /\ Accepted(Tab, logout)
    /\ Lifecycle([comp EXCEPT ![r.inst] = CloseField(@)])
    /\ UNCHANGED <<lastTx, pushTx, confirmed>>

\* evaluateResponse of (further) challenges; a passkey login has none.
ChallengeAnswer(r, push, webauthn) ==
    LET tx == lastTx + 1 IN
      /\ Acceptable(r)
      /\ r.ctx # "passkey"
      /\ tx <= MaxTx
      /\ lastTx' = tx
      /\ openTx' = (openTx \ {r.tx}) \cup {tx}
      /\ pushTx' = IF push THEN pushTx \cup {tx} ELSE pushTx
      /\ reqs' = reqs \ {r}
      /\ Refused(Tab)
      /\ comp' = [comp EXCEPT ![r.inst] = Challenged(@, r.ctx, tx, push, webauthn)]
      /\ UNCHANGED <<inst, confirmed>>

\* evaluateResponse of a challenge that is not listed.
UnlistedAnswer(r) ==
    /\ Acceptable(r)
    /\ r.ctx # "passkey"
    /\ openTx' = openTx \ {r.tx}
    /\ reqs' = reqs \ {r}
    /\ Refused(Tab)
    /\ comp' = [comp EXCEPT ![r.inst] = ChallengedUnlisted(@, r.ctx)]
    /\ UNCHANGED <<inst, lastTx, pushTx, confirmed>>

\* A failed login or an error: only messages and input fields change.
RefusalAnswer(r) ==
    /\ reqs' = reqs \ {r}
    /\ Refused(Tab)
    /\ UNCHANGED <<inst, comp, serverVars>>

Confirm(tx) ==
    /\ tx \in openTx \cap pushTx
    /\ confirmed' = confirmed \cup {tx}
    /\ UNCHANGED <<sessionVars, inst, comp, reqs, lastTx, pushTx, openTx>>

-----------------------------------------------------------------------------
\* The steps of WebSession the component only sees as leaving or entering the
\* route.
Moves ==
    /\ Move(Tab) \/ Tick
    /\ Lifecycle(comp)
    /\ UNCHANGED <<reqs, serverVars>>

\* A reload leaves nothing of the instances and their requests.
LoginReload ==
    /\ Reload(Tab)
    /\ inst' = 1
    /\ comp' = [i \in Insts |-> Fresh]
    /\ reqs' = {}
    /\ UNCHANGED serverVars

LoginNext ==
    \/ Submit
    \/ WebAuthnLogin
    \/ PasskeyLogin
    \/ ResetLogin
    \/ \E i \in Insts : PollTick(i) \/ PollNotYet(i) \/ PollSuccess(i) \/ PollEnds(i)
    \/ \E r \in reqs :
         \/ \E logout \in LogoutTimes : SessionAnswer(r, logout)
         \/ \E push, webauthn \in BOOLEAN : ChallengeAnswer(r, push, webauthn)
         \/ UnlistedAnswer(r)
         \/ RefusalAnswer(r)
    \/ \E tx \in 1 .. MaxTx : Confirm(tx)
    \/ Moves
    \/ LoginReload

LoginSpec == LoginInit /\ [][LoginNext]_loginVars

\* The browser calls the poll timer; a poll is answered at some time, before
\* the next one replaces it; so is a request for a session.
LoginFairness ==
    /\ \A i \in Insts : WF_loginVars(PollTick(i) /\ comp[i].polled = NoPoll)
    /\ \A i \in Insts : WF_loginVars(PollNotYet(i) \/ PollSuccess(i))
    /\ \A n \in 1 .. MaxPending : WF_loginVars(\E r \in reqs : r.slot = n /\ RefusalAnswer(r))

LoginFairSpec == LoginSpec /\ LoginFairness

-----------------------------------------------------------------------------
(* Properties *)

LoginTypeOK ==
    /\ inst \in Insts
    /\ comp \in [Insts -> [tx : 0 .. lastTx, otp : BOOLEAN, push : BOOLEAN, sign : 0 .. lastTx,
                           poll : BOOLEAN, polled : {NoPoll} \cup (0 .. lastTx),
                           unlisted : BOOLEAN]]
    /\ reqs \subseteq [slot : 1 .. MaxPending, inst : 1 .. inst, tx : 0 .. lastTx,
                       ctx : {"password", "webauthn", "passkey"}]
    /\ pending[Tab] = Cardinality(reqs)
    /\ confirmed \subseteq pushTx

\* Polling is always about a transaction, in whatever order answers, resets and
\* submissions of an instance come (startPushPolling reads transactionId at
\* every tick; resetChallengeState empties it).
PollingHasTransaction ==
    \A i \in Insts : comp[i].poll => comp[i].tx # NoTx

\* An OTP value that is asked for after a list of challenges is asked for, and
\* sent, as the answer to a transaction, whatever answers, resets and submissions
\* come in between: without one the server would take the OTP value for a password
\* (onSubmit).  Only a field that opened without a list and without a transaction
\* may be without one.
OtpFieldHasTransaction ==
    \A i \in Insts : comp[i].otp /\ ~comp[i].unlisted => comp[i].tx # NoTx

\* A push challenge that is confirmed while its transaction is polled is
\* noticed: the polling ends, with the login it asks for unless something else
\* ended it, or another challenge takes its place (startPushPolling).
ConfirmedPushNoticed ==
    \A i \in Insts :
      (comp[i].poll /\ comp[i].tx \in confirmed) 
        ~> ~(comp[i].poll /\ comp[i].tx \in confirmed)

\* The login route takes part in no other session steps than those of
\* WebSession: nothing but an accepted answer opens a session.
ImplementsSession == Spec
===============================================================================
