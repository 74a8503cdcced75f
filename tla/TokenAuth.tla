------------------------------- MODULE TokenAuth -------------------------------
(***************************************************************************)
(* Authentication over the list of tokens of one user, the function        *)
(* check_token_list of lib/token.py with the checks, counters and          *)
(* challenges of lib/tokenclass.py and the administrator's operations on   *)
(* the fail counter.  Whether a password or a response fits a token is the *)
(* environment's choice; what the server does with the verdicts of all     *)
(* tokens of the list is the subject.  Each action is one whole request.   *)
(***************************************************************************)
EXTENDS Integers, Sequences, FiniteSets

CONSTANTS
    Tokens,       \* the tokens of the user
    Configs,      \* the system configurations and policies considered
    OutOfBand,    \* tokens with is_outofband(), such as push
    MultiStep,    \* tokens for which has_further_challenge may hold
    InitMaxFail,  \* maxfail at enrolment
    MaxFails,     \* values of set_max_failcount
    FailCounts,   \* values of set_failcounter
    CountMax,     \* count_auth_max, 0 for none
    SuccessMax,   \* count_auth_success_max, 0 for none
    Validity,     \* DefaultChallengeValidityTime
    MaxTx,        \* bound of the transactions started
    MaxTime       \* bound of the clock

ConfigType == [falsePin     : BOOLEAN,   \* IncFailCountOnFalsePin
               pinOnly      : BOOLEAN,   \* RESET_FAILCOUNTER_ON_PIN_ONLY
               onChallenge  : BOOLEAN,   \* policy increase_failcounter_on_challenge
               force        : BOOLEAN,   \* policy force_challenge_response
               resetAll     : BOOLEAN,   \* policy reset_all_user_tokens
               noCount      : BOOLEAN,   \* no_auth_counter
               defaultReset : BOOLEAN,   \* DefaultResetFailCount
               clearTimeout : Nat]       \* failcounter_clear_timeout, 0 for never

ASSUME AuthAssumption ==
    /\ Configs \subseteq ConfigType
    /\ Configs # {}
    /\ IsFiniteSet(Tokens)
    /\ OutOfBand \subseteq Tokens
    /\ MultiStep \subseteq Tokens
    /\ InitMaxFail \in Nat \ {0}
    /\ MaxFails \subseteq Nat \ {0}
    /\ FailCounts \subseteq Nat
    /\ CountMax \in Nat
    /\ SuccessMax \in Nat
    /\ Validity \in Nat
    /\ MaxTx \in Nat
    /\ MaxTime \in Nat

VARIABLES
    config,      \* the configuration, fixed
    token,       \* the token rows and their tokeninfo
    challenges,  \* the challenge table
    lastTx,      \* the newest transaction id
    now,         \* the clock
    guessed,     \* history: times of failed guesses since the last reset
    answered,    \* history: transactions answered with success
    passed       \* history: the tokens the last step let in

authVars == <<config, token, challenges, lastTx, now, guessed, answered, passed>>

Absent == -1   \* no tokeninfo "failcounter_exceeded"

Verdicts == {"valid", "pin", "request", "invalid"}

-----------------------------------------------------------------------------
(* Operations on one token row *)

\* Mutant: the clock is not compared with the timestamp.
ClearDueAlways(r) ==
    /\ config.clearTimeout # 0
    /\ r.failcount = r.maxfail
    /\ r.exceeded # Absent

ClearDue(r) ==
    /\ config.clearTimeout # 0
    /\ r.failcount = r.maxfail
    /\ r.exceeded # Absent
    /\ now > r.exceeded + config.clearTimeout

SetFailcount(r, n) ==
    [r EXCEPT !.failcount = n, !.exceeded = IF n = 0 THEN Absent ELSE @]

Reset(r) == IF r.failcount # 0 THEN SetFailcount(r, 0) ELSE r

CheckResetFailcount(r) == IF ClearDue(r) THEN Reset(r) ELSE r

\* Mutant: the timestamp is written one failure too late, that is never.
IncFailcountLateStamp(r) ==
    IF r.failcount < r.maxfail
      THEN [r EXCEPT !.failcount = @ + 1,
                     !.exceeded = IF r.failcount = r.maxfail THEN now ELSE @]
      ELSE r

IncFailcount(r) ==
    IF r.failcount < r.maxfail
      THEN [r EXCEPT !.failcount = @ + 1,
                     !.exceeded = IF r.failcount + 1 = r.maxfail THEN now ELSE @]
      ELSE r

IncCountAuth(r, n) == IF config.noCount THEN r ELSE [r EXCEPT !.countAuth = @ + n]

IncCountSuccess(r) ==
    IF config.noCount THEN r
      ELSE [r EXCEPT !.countSuccess = @ + 1, !.countAuth = @ + 1]

\* Mutant: the maximum itself still passes.
CheckAuthCounterInclusive(r) ==
    /\ CountMax # 0 => r.countAuth <= CountMax
    /\ SuccessMax # 0 => r.countSuccess <= SuccessMax

CheckAuthCounter(r) ==
    /\ CountMax # 0 => r.countAuth < CountMax
    /\ SuccessMax # 0 => r.countSuccess < SuccessMax

\* Mutant: the fail counter is not looked at.
CheckAllButFailcount(r) == CheckAuthCounter(r) /\ r.active

\* check_all; the validity period and the rollout state are always in order here.
CheckAll(r) == CheckAuthCounter(r) /\ r.active /\ r.failcount < r.maxfail

-----------------------------------------------------------------------------
(* Challenges *)

Valid(ch) == now < ch.expires

\* challenge_janitor of each of the tokens
Janitor(chs, tokens) == {ch \in chs : ~(ch.token \in tokens /\ ch.expires < now)}

\* create_challenges_from_tokens: one new transaction for the tokens that pass
\* check_all, given their rows.
Challenged(rows, tokens) == {t \in tokens : CheckAll(rows[t])}

NewChallenges(tokens) ==
    {[tx |-> lastTx + 1, token |-> t, expires |-> now + Validity] : t \in tokens}

\* Mutant: the next transaction gets the same id.
NextTxSame(tokens) == lastTx

NextTx(tokens) == IF tokens = {} THEN lastTx ELSE lastTx + 1

-----------------------------------------------------------------------------
(* What every request starts with: revoked tokens are taken from the list, fail *)
(* counters past their timeout are cleared, unfit tokens are passed over.       *)

Listed == {t \in Tokens : ~token[t].revoked}

Seen == [t \in Tokens |-> IF t \in Listed THEN CheckResetFailcount(token[t]) ELSE token[t]]

Fit == {t \in Listed : CheckAll(Seen[t])}

\* A request on a list of revoked tokens raises.
Attempt == Listed # {}

\* The failed guesses of this request, one for each token.
Guess(tokens) ==
    guessed' = [t \in Tokens |-> IF t \in tokens THEN Append(guessed[t], now) ELSE guessed[t]]

\* reset_all_user_tokens after a success: reset raises on locked tokens.
ResetTokens(rows, tokens) == [t \in Tokens |-> IF t \in tokens THEN Reset(rows[t]) ELSE rows[t]]

\* The tokens a success of the given ones resets.
ResetBy(tokens) == IF config.resetAll THEN Listed ELSE tokens

Succeed(rows, tokens) ==
    /\ token' = ResetTokens(rows, ResetBy(tokens))
    /\ guessed' = [t \in Tokens |-> IF t \in ResetBy(tokens) THEN <<>> ELSE guessed[t]]
    /\ passed' = tokens

Update(rows, tokens, Change(_)) == [t \in Tokens |-> IF t \in tokens THEN Change(rows[t]) ELSE rows[t]]

-----------------------------------------------------------------------------
Init ==
    /\ config \in Configs
    /\ token = [t \in Tokens |-> [failcount |-> 0, maxfail |-> InitMaxFail, exceeded |-> Absent,
                                  active |-> TRUE, revoked |-> FALSE,
                                  countAuth |-> 0, countSuccess |-> 0]]
    /\ challenges = {}
    /\ lastTx = 0
    /\ now = 0
    /\ guessed = [t \in Tokens |-> <<>>]
    /\ answered = {}
    /\ passed = {}

\* The lists check_token_list sorts a password into.  With the policy
\* force_challenge_response nothing but a challenge request is tried.
ValidTokens(verdict) == {t \in Fit : verdict[t] = "valid" /\ ~config.force}
RequestTokens(verdict) == {t \in Fit : verdict[t] = "request"}
PinTokens(verdict) == {t \in Fit : verdict[t] = "pin" /\ ~config.force}

\* PIN and OTP value of some tokens are right.
SingleShot(verdict) ==
    /\ Attempt
    /\ ValidTokens(verdict) # {}
    /\ Succeed(Update(Seen, ValidTokens(verdict), IncCountSuccess), ValidTokens(verdict))
    /\ UNCHANGED <<config, challenges, lastTx, now, answered>>

\* The PIN alone starts a challenge for all tokens it belongs to.
TriggerChallenge(verdict) ==
    LET requests == RequestTokens(verdict)
        rows     == IF config.onChallenge
                      THEN Update(Seen, requests, IncFailcount) ELSE Seen
        created  == Challenged(rows, requests)
    IN  /\ Attempt
        /\ ValidTokens(verdict) = {}
        /\ requests # {}
        /\ lastTx < MaxTx
        /\ token' = rows
        /\ challenges' = Janitor(challenges, created) \cup NewChallenges(created)
        /\ lastTx' = NextTx(created)
        /\ passed' = {}
        /\ UNCHANGED <<config, now, guessed, answered>>

\* The PIN of some tokens is right and the OTP value is not.  Their
\* authentication counters are raised once for every token in the list.
WrongOtp(verdict) ==
    LET tokens == PinTokens(verdict)
        Failed(r) == LET f == IncFailcount(r) IN
                       IncCountAuth(IF config.pinOnly THEN CheckResetFailcount(f) ELSE f,
                                    Cardinality(tokens))
    IN  /\ Attempt
        /\ ValidTokens(verdict) = {}
        /\ RequestTokens(verdict) = {}
        /\ tokens # {}
        /\ token' = Update(Seen, tokens, Failed)
        /\ Guess(tokens)
        /\ passed' = {}
        /\ UNCHANGED <<config, challenges, lastTx, now, answered>>

\* IncFailCountOnFalsePin for the tokens that did not match at all
WrongPinRows(tokens) ==
    LET Failed(r) == IncCountAuth(IncFailcount(r), 1) IN
      IF config.falsePin THEN Update(Seen, tokens, Failed) ELSE Seen

\* Nothing matches, or no token is fit.
Refuse(verdict) ==
    /\ Attempt
    /\ ValidTokens(verdict) \cup RequestTokens(verdict) \cup PinTokens(verdict) = {}
    /\ token' = WrongPinRows(Fit)
    /\ passed' = {}
    /\ UNCHANGED <<config, challenges, lastTx, now, guessed, answered>>

-----------------------------------------------------------------------------
(* Requests with a transaction id *)

\* has_db_challenge_response: the challenge may have expired.
Responders(tx) == {t \in Fit : \E ch \in challenges : ch.tx = tx /\ ch.token = t}

\* check_challenge_response finds a valid challenge and the response is right.
Matching(tx, right) ==
    {t \in Responders(tx) \cap right :
        \E ch \in challenges : ch.tx = tx /\ ch.token = t /\ Valid(ch)}

\* Mutant: only the challenge of the token that answered is deleted.
WithoutOwnChallenge(chs, tx, t) == {ch \in chs : ~(ch.tx = tx /\ ch.token = t)}

\* The challenges left after token t answered transaction tx.
WithoutTransaction(chs, tx, t) == {ch \in chs : ch.tx # tx}

\* The response fits token t; tokens before it in the list were tried in vain.
Answer(tx, right, t, before) ==
    LET rows == Update(Seen, {t}, IncCountSuccess) IN
      /\ t \in Matching(tx, right)
      /\ before \subseteq Responders(tx) \ Matching(tx, right)
      /\ Succeed(rows, {t})
      /\ challenges' = WithoutTransaction(Janitor(challenges, before \cup {t}), tx, t)
      /\ answered' = answered \cup {tx}
      /\ UNCHANGED <<config, lastTx, now>>

\* The response fits a token that then asks for another one.
AnswerStep(tx, right, t, before) ==
    LET rows    == Update(Seen, {t}, IncCountSuccess)
        created == Challenged(rows, {t})
    IN  /\ t \in Matching(tx, right) \cap MultiStep
        /\ before \subseteq Responders(tx) \ Matching(tx, right)
        /\ lastTx < MaxTx
        /\ token' = rows
        /\ challenges' = WithoutTransaction(Janitor(challenges, before \cup {t})
                                              \cup NewChallenges(created), tx, t)
        /\ lastTx' = NextTx(created)
        /\ answered' = answered \cup {tx}
        /\ passed' = {}
        /\ UNCHANGED <<config, now, guessed>>

\* The response fits no challenge of the transaction.
WrongResponse(tx, right) ==
    LET counted == Responders(tx) \ OutOfBand IN
      /\ Responders(tx) # {}
      /\ Matching(tx, right) = {}
      /\ token' = Update(Seen, counted, IncFailcount)
      /\ challenges' = Janitor(challenges, Responders(tx))
      /\ Guess({t \in counted : \E ch \in challenges : ch.tx = tx /\ ch.token = t /\ Valid(ch)})
      /\ passed' = {}
      /\ UNCHANGED <<config, lastTx, now, answered>>

\* The transaction is unknown, answered, cleaned up or not for these tokens.
UnknownTransaction(tx) ==
    /\ Attempt
    /\ Responders(tx) = {}
    /\ token' = WrongPinRows(Fit)
    /\ passed' = {}
    /\ UNCHANGED <<config, challenges, lastTx, now, guessed, answered>>
-----------------------------------------------------------------------------
(* Around the requests; a revoked token is locked and every setter raises. *)

AdminRest == UNCHANGED <<config, challenges, lastTx, now, answered>>

\* reset_token by the administrator
ResetToken(t) ==
    /\ ~token[t].revoked
    /\ token' = [token EXCEPT ![t] = Reset(@)]
    /\ guessed' = [guessed EXCEPT ![t] = <<>>]
    /\ passed' = {}
    /\ AdminRest

\* set_failcounter, and the token event handler's "set failcounter"
SetFailcounter(t, n) ==
    /\ ~token[t].revoked
    /\ token' = [token EXCEPT ![t] = SetFailcount(@, n)]
    /\ guessed' = [guessed EXCEPT ![t] = <<>>]
    /\ passed' = {}
    /\ AdminRest

\* inc_otp_counter after a resynchronisation or a search by OTP value
IncOtpCounterResets(t) ==
    /\ config.defaultReset
    /\ ~token[t].revoked
    /\ token[t].active
    /\ token[t].failcount < token[t].maxfail
    /\ token' = [token EXCEPT ![t] = SetFailcount(@, 0)]
    /\ guessed' = [guessed EXCEPT ![t] = <<>>]
    /\ passed' = {}
    /\ AdminRest

\* set_max_failcount
SetMaxfail(t, n) ==
    /\ ~token[t].revoked
    /\ token' = [token EXCEPT ![t].maxfail = n]
    /\ passed' = {}
    /\ UNCHANGED guessed
    /\ AdminRest

\* enable_token
Enable(t, enable) ==
    /\ ~token[t].revoked
    /\ token' = [token EXCEPT ![t].active = enable]
    /\ passed' = {}
    /\ UNCHANGED guessed
    /\ AdminRest

\* TokenClass.revoke
Revoke(t) ==
    /\ token' = [token EXCEPT ![t].revoked = TRUE, ![t].active = FALSE]
    /\ passed' = {}
    /\ UNCHANGED guessed
    /\ AdminRest

\* The guesses of a history, which is in order, within the clear timeout at a time.
Within(times, time) ==
    LET Recent(i) == config.clearTimeout = 0 \/ time <= times[i] + config.clearTimeout
        first == CHOOSE i \in 1 .. Len(times) + 1 :
                   /\ \A j \in i .. Len(times) : Recent(j)
                   /\ i = 1 \/ ~Recent(i - 1)
    IN  SubSeq(times, first, Len(times))

\* A guess older than the clear timeout is forgotten in the history.
Tick ==
    /\ now < MaxTime
    /\ now' = now + 1
    /\ guessed' = [t \in Tokens |-> Within(guessed[t], now')]
    /\ passed' = {}
    /\ UNCHANGED <<config, token, challenges, lastTx, answered>>

Request ==
    \/ \E verdict \in [Tokens -> Verdicts] :
         SingleShot(verdict) \/ TriggerChallenge(verdict) \/ WrongOtp(verdict) \/ Refuse(verdict)
    \/ \E tx \in 1 .. lastTx, right \in SUBSET Tokens :
         \/ \E t \in Tokens, before \in SUBSET Tokens :
              Answer(tx, right, t, before) \/ AnswerStep(tx, right, t, before)
         \/ WrongResponse(tx, right)
    \/ \E tx \in 0 .. lastTx : UnknownTransaction(tx)

Admin ==
    \E t \in Tokens :
      \/ ResetToken(t)
      \/ IncOtpCounterResets(t)
      \/ \E n \in FailCounts : SetFailcounter(t, n)
      \/ \E n \in MaxFails : SetMaxfail(t, n)
      \/ \E enable \in BOOLEAN : Enable(t, enable)
      \/ Revoke(t)

Next == Request \/ Admin \/ Tick

Spec == Init /\ [][Next]_authVars

-----------------------------------------------------------------------------
(* Properties *)

TypeOK ==
    /\ config \in Configs
    /\ token \in [Tokens -> [failcount : Nat, maxfail : Nat \ {0}, exceeded : Nat \cup {Absent},
                             active : BOOLEAN, revoked : BOOLEAN,
                             countAuth : Nat, countSuccess : Nat]]
    /\ lastTx \in Nat
    /\ challenges \subseteq [tx : 1 .. lastTx, token : Tokens, expires : Nat]
    /\ now \in Nat
    /\ guessed \in [Tokens -> Seq(Nat)]
    /\ answered \subseteq 1 .. lastTx
    /\ passed \subseteq Tokens

\* The limit on guessing: since a token was last reset, the failed guesses of the
\* last failcounter_clear_timeout (of all time, without one) are all in its fail
\* counter, so nobody gets more than maxfail guesses in that time, however
\* passwords, responses, expired challenges and clearing are mixed
\* (check_token_list with inc_failcount and check_reset_failcount).
GuessesCounted ==
    \A t \in Tokens : /\ Len(guessed[t]) <= token[t].failcount
                      /\ token[t].failcount <= token[t].maxfail

\* After maxfail failed guesses within the clear timeout not even the right
\* password, nor the right response to a challenge started before, lets the
\* token in.
LockoutHolds ==
    [][\A t \in passed' : Len(guessed[t]) < token[t].maxfail]_authVars

\* A transaction that was answered is gone for all tokens that shared it: its
\* id buys a second login for none of them.
ChallengeUsedOnce ==
    \A ch \in challenges : ch.tx \notin answered

\* "When the failcounter reaches the maximum, the token gets a timestamp of the
\* time the max fail count was reached": without it check_reset_failcount never
\* clears the counter again.
ReachedHasTimestamp ==
    \A t \in Tokens : token[t].failcount >= token[t].maxfail => token[t].exceeded # Absent

\* count_auth_success_max: the token lets in at most that often, whether with
\* PIN and OTP value or through challenges of several steps.
SuccessesBounded ==
    SuccessMax # 0 => \A t \in Tokens : token[t].countSuccess <= SuccessMax
===============================================================================
