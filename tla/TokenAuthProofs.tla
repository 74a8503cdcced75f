---------------------------- MODULE TokenAuthProofs ----------------------------
(***************************************************************************)
(* Proofs about TokenAuth for any finite set of tokens, any configurations *)
(* and any validity time: an answered transaction stays answered, the      *)
(* success counter stays within its maximum, and as long as nobody changes *)
(* maxfail, so do the guesses, and a full fail counter locks the token.    *)
(***************************************************************************)
EXTENDS TokenAuth, FiniteSetTheorems, WellFoundedInduction, TLAPS

\* The ids in the challenge table and in the history were given out before.
TxInv ==
    /\ lastTx \in Nat
    /\ answered \subseteq 1 .. lastTx
    /\ \A ch \in challenges : ch.tx \in 1 .. lastTx

ChallengeInv == TxInv /\ ChallengeUsedOnce

\* Neither the table nor the history grew, and the ids did not start again.
LEMMA InvKeptByShrinking ==
    ASSUME ChallengeInv, challenges' \subseteq challenges, answered' = answered, lastTx' = lastTx
    PROVE  ChallengeInv'
BY DEF ChallengeInv, TxInv, ChallengeUsedOnce

\* A transaction is answered and its challenges are gone.
LEMMA InvKeptByAnswer ==
    ASSUME ChallengeInv, NEW tx \in 1 .. lastTx,
           \A ch \in challenges' : ch \in challenges /\ ch.tx # tx,
           answered' = answered \cup {tx}, lastTx' = lastTx
    PROVE  ChallengeInv'
BY DEF ChallengeInv, TxInv, ChallengeUsedOnce

\* create_challenges_from_tokens: new challenges carry a new id.
LEMMA NewChallengesAreNew ==
    ASSUME lastTx \in Nat, NEW tokens
    PROVE  /\ NextTx(tokens) \in Nat
           /\ lastTx <= NextTx(tokens)
           /\ \A ch \in NewChallenges(tokens) : ch.tx = lastTx + 1 /\ ch.tx = NextTx(tokens)
BY DEF NextTx, NewChallenges

\* A new transaction starts, and perhaps an old one is answered by it.
LEMMA InvKeptByCreating ==
    ASSUME ChallengeInv, NEW tokens,
           \A ch \in challenges' : \/ ch \in challenges /\ ch.tx \notin answered'
                                   \/ ch \in NewChallenges(tokens),
           answered' \subseteq 1 .. lastTx,
           lastTx' = NextTx(tokens)
    PROVE  ChallengeInv'
<1>1. /\ lastTx \in Nat
      /\ NextTx(tokens) \in Nat
      /\ lastTx <= NextTx(tokens)
      /\ \A ch \in NewChallenges(tokens) : ch.tx = lastTx + 1 /\ ch.tx = NextTx(tokens)
  BY NewChallengesAreNew DEF ChallengeInv, TxInv
<1>2. \A ch \in challenges : ch.tx \in 1 .. lastTx
  BY DEF ChallengeInv, TxInv
<1>3. \A ch \in challenges' : ch.tx \in 1 .. lastTx' /\ ch.tx \notin answered'
  <2>1. ASSUME NEW ch \in challenges', ch \in challenges, ch.tx \notin answered'
        PROVE  ch.tx \in 1 .. lastTx' /\ ch.tx \notin answered'
    BY <1>1, <1>2, <2>1
  <2>2. ASSUME NEW ch \in challenges', ch \in NewChallenges(tokens)
        PROVE  ch.tx \in 1 .. lastTx' /\ ch.tx \notin answered'
    BY <1>1, <2>2
  <2>3. QED BY <2>1, <2>2
<1>4. lastTx' \in Nat /\ answered' \subseteq 1 .. lastTx'
  BY <1>1
<1>5. QED BY <1>3, <1>4 DEF ChallengeInv, TxInv, ChallengeUsedOnce

\* Every request and every administrator's operation keeps the invariant.
LEMMA ChallengeStep == ChallengeInv /\ [Next]_authVars => ChallengeInv'
<1> SUFFICES ASSUME ChallengeInv, [Next]_authVars PROVE ChallengeInv'
  OBVIOUS
<1>1. ASSUME NEW verdict \in [Tokens -> Verdicts],
             SingleShot(verdict) \/ WrongOtp(verdict) \/ Refuse(verdict)
      PROVE  ChallengeInv'
  BY <1>1, InvKeptByShrinking DEF SingleShot, WrongOtp, Refuse
<1>2. ASSUME NEW verdict \in [Tokens -> Verdicts], TriggerChallenge(verdict)
      PROVE  ChallengeInv'
  <2>1. PICK created :
          /\ challenges' = Janitor(challenges, created) \cup NewChallenges(created)
          /\ lastTx' = NextTx(created)
          /\ answered' = answered
    BY <1>2 DEF TriggerChallenge
  <2>2. \A ch \in challenges' : \/ ch \in challenges /\ ch.tx \notin answered'
                                \/ ch \in NewChallenges(created)
    BY <2>1 DEF Janitor, ChallengeInv, ChallengeUsedOnce
  <2>3. QED BY <2>1, <2>2, InvKeptByCreating DEF ChallengeInv, TxInv
<1>3. ASSUME NEW tx \in 1 .. lastTx, NEW right, NEW t, NEW before, Answer(tx, right, t, before)
      PROVE  ChallengeInv'
  <2>1. /\ \A ch \in challenges' : ch \in challenges /\ ch.tx # tx
        /\ answered' = answered \cup {tx} /\ lastTx' = lastTx
    BY <1>3 DEF Answer, WithoutTransaction, Janitor
  <2>2. QED BY <2>1, InvKeptByAnswer
<1>4. ASSUME NEW tx \in 1 .. lastTx, NEW right, NEW t, NEW before, AnswerStep(tx, right, t, before)
      PROVE  ChallengeInv'
  <2>1. PICK created :
          /\ challenges' = WithoutTransaction(Janitor(challenges, before \cup {t})
                                                \cup NewChallenges(created), tx, t)
          /\ lastTx' = NextTx(created)
          /\ answered' = answered \cup {tx}
    BY <1>4 DEF AnswerStep
  <2>2. \A ch \in challenges' : \/ ch \in challenges /\ ch.tx \notin answered'
                                \/ ch \in NewChallenges(created)
    BY <2>1 DEF WithoutTransaction, Janitor, ChallengeInv, ChallengeUsedOnce
  <2>3. answered' \subseteq 1 .. lastTx
    BY <2>1 DEF ChallengeInv, TxInv
  <2>4. QED BY <2>1, <2>2, <2>3, InvKeptByCreating
<1>5. ASSUME NEW tx, NEW right, WrongResponse(tx, right) PROVE ChallengeInv'
  <2>1. challenges' \subseteq challenges /\ answered' = answered /\ lastTx' = lastTx
    BY <1>5 DEF WrongResponse, Janitor
  <2>2. QED BY <2>1, InvKeptByShrinking
<1>6. ASSUME NEW tx, UnknownTransaction(tx) PROVE ChallengeInv'
  BY <1>6, InvKeptByShrinking DEF UnknownTransaction
<1>7. CASE Admin \/ Tick
  <2>1. UNCHANGED <<challenges, answered, lastTx>>
    BY <1>7 DEF Admin, Tick, ResetToken, IncOtpCounterResets, SetFailcounter, SetMaxfail,
                Enable, Revoke, AdminRest
  <2>2. QED BY <2>1, InvKeptByShrinking
<1>8. CASE UNCHANGED authVars
  BY <1>8, InvKeptByShrinking DEF authVars
<1>9. QED BY <1>1, <1>2, <1>3, <1>4, <1>5, <1>6, <1>7, <1>8 DEF Next, Request

\* Every challenge of an answered transaction is gone and no later one gets its id:
\* of all tokens that shared the transaction one is let in once.
THEOREM ChallengesUsedOnce == Spec => []ChallengeUsedOnce
<1>1. Init => ChallengeInv
  BY DEF Init, ChallengeInv, TxInv, ChallengeUsedOnce
<1>2. ChallengeInv => ChallengeUsedOnce
  BY DEF ChallengeInv
<1>3. QED BY <1>1, <1>2, ChallengeStep, PTL DEF Spec

-----------------------------------------------------------------------------
(* What the operations on a token row do to its fields *)

Row == [failcount : Nat, maxfail : Nat \ {0}, exceeded : Nat \cup {Absent},
        active : BOOLEAN, revoked : BOOLEAN, countAuth : Nat, countSuccess : Nat]

RowTypes ==
    /\ config \in Configs
    /\ token \in [Tokens -> Row]
    /\ now \in Nat
    /\ guessed \in [Tokens -> Seq(Nat)]

LEMMA ConfigTypes == RowTypes => config.clearTimeout \in Nat
BY AuthAssumption DEF RowTypes, ConfigType

\* set_failcount
LEMMA SetFailcountRow ==
    ASSUME NEW r \in Row, NEW n \in Nat
    PROVE  /\ SetFailcount(r, n) \in Row
           /\ SetFailcount(r, n).failcount = n
           /\ SetFailcount(r, n).maxfail = r.maxfail
           /\ SetFailcount(r, n).countSuccess = r.countSuccess
           /\ SetFailcount(r, n).exceeded = IF n = 0 THEN Absent ELSE r.exceeded
BY DEF SetFailcount, Row

\* reset
LEMMA ResetRow ==
    ASSUME NEW r \in Row
    PROVE  /\ Reset(r) \in Row
           /\ Reset(r).failcount = 0
           /\ Reset(r).maxfail = r.maxfail
           /\ Reset(r).countSuccess = r.countSuccess
<1>1. CASE r.failcount # 0
  BY <1>1, SetFailcountRow DEF Reset
<1>2. CASE r.failcount = 0
  BY <1>2 DEF Reset
<1>3. QED BY <1>1, <1>2

\* check_reset_failcount
LEMMA CheckResetRow ==
    ASSUME NEW r \in Row
    PROVE  /\ CheckResetFailcount(r) \in Row
           /\ CheckResetFailcount(r).maxfail = r.maxfail
           /\ CheckResetFailcount(r).countSuccess = r.countSuccess
           /\ \/ CheckResetFailcount(r) = r
              \/ ClearDue(r) /\ CheckResetFailcount(r).failcount = 0
BY ResetRow DEF CheckResetFailcount

\* inc_failcount of a token that passes check_all
LEMMA IncFailcountRow ==
    ASSUME NEW r \in Row, r.failcount < r.maxfail, now \in Nat
    PROVE  /\ IncFailcount(r) \in Row
           /\ IncFailcount(r).failcount = r.failcount + 1
           /\ IncFailcount(r).maxfail = r.maxfail
           /\ IncFailcount(r).countSuccess = r.countSuccess
           /\ IncFailcount(r).failcount = r.maxfail => IncFailcount(r).exceeded = now
           /\ IncFailcount(r).failcount # r.maxfail => IncFailcount(r).exceeded = r.exceeded
<1> DEFINE stamp == IF r.failcount + 1 = r.maxfail THEN now ELSE r.exceeded
<1>1. IncFailcount(r) = [r EXCEPT !.failcount = r.failcount + 1, !.exceeded = stamp]
  BY DEF IncFailcount, Row
<1>2. r.failcount + 1 \in Nat /\ stamp \in Nat \cup {Absent}
  BY DEF Row
<1> HIDE DEF stamp
<1>3. /\ [r EXCEPT !.failcount = r.failcount + 1, !.exceeded = stamp] \in Row
      /\ [r EXCEPT !.failcount = r.failcount + 1, !.exceeded = stamp].failcount = r.failcount + 1
      /\ [r EXCEPT !.failcount = r.failcount + 1, !.exceeded = stamp].maxfail = r.maxfail
      /\ [r EXCEPT !.failcount = r.failcount + 1, !.exceeded = stamp].countSuccess = r.countSuccess
      /\ [r EXCEPT !.failcount = r.failcount + 1, !.exceeded = stamp].exceeded = stamp
  BY <1>2 DEF Row
<1>4. QED BY <1>1, <1>3 DEF stamp

\* inc_count_auth changes the authentication counter only.
LEMMA IncCountAuthRow ==
    ASSUME NEW r \in Row, NEW n \in Nat
    PROVE  /\ IncCountAuth(r, n) \in Row
           /\ IncCountAuth(r, n).failcount = r.failcount
           /\ IncCountAuth(r, n).maxfail = r.maxfail
           /\ IncCountAuth(r, n).exceeded = r.exceeded
           /\ IncCountAuth(r, n).countSuccess = r.countSuccess
BY DEF IncCountAuth, Row

\* inc_count_auth_success changes the two authentication counters only.
LEMMA IncCountSuccessRow ==
    ASSUME NEW r \in Row
    PROVE  /\ IncCountSuccess(r) \in Row
           /\ IncCountSuccess(r).failcount = r.failcount
           /\ IncCountSuccess(r).maxfail = r.maxfail
           /\ IncCountSuccess(r).exceeded = r.exceeded
           /\ IncCountSuccess(r).countSuccess \in {r.countSuccess, r.countSuccess + 1}
<1>1. CASE config.noCount
  BY <1>1 DEF IncCountSuccess, Row
<1>2. CASE ~config.noCount
  <2> DEFINE c == r.countSuccess + 1
             d == r.countAuth + 1
  <2>1. IncCountSuccess(r) = [r EXCEPT !.countSuccess = c, !.countAuth = d]
    BY <1>2 DEF IncCountSuccess, Row
  <2>2. c \in Nat /\ d \in Nat
    BY DEF Row
  <2>3. QED BY <2>1, <2>2 DEF Row
<1>3. QED BY <1>1, <1>2

\* A failure that reaches the maximum is not cleared in the request that counts it,
\* although check_token_list calls check_reset_failcount once more.
LEMMA FreshStampKept ==
    ASSUME RowTypes, NEW r \in Row, r.failcount < r.maxfail
    PROVE  CheckResetFailcount(IncFailcount(r)) = IncFailcount(r)
<1>1. config.clearTimeout \in Nat /\ now \in Nat
  BY ConfigTypes DEF RowTypes
<1>2. IncFailcount(r).failcount = IncFailcount(r).maxfail => IncFailcount(r).exceeded = now
  BY <1>1, IncFailcountRow
<1>3. ~ClearDue(IncFailcount(r))
  BY <1>1, <1>2 DEF ClearDue
<1>4. QED BY <1>3 DEF CheckResetFailcount

-----------------------------------------------------------------------------
(* What a step does to a row and the guesses at it *)

\* A request: nothing but the clearing, a success, a reset by a success, a failure.
RequestStep(t) ==
    \/ token'[t] = Seen[t] /\ guessed'[t] = guessed[t]
    \/ t \in Fit /\ token'[t] = IncCountSuccess(Seen[t]) /\ guessed'[t] = guessed[t]
    \/ t \in Fit /\ token'[t] = Reset(IncCountSuccess(Seen[t])) /\ guessed'[t] = <<>>
    \/ t \in Listed /\ token'[t] = Reset(Seen[t]) /\ guessed'[t] = <<>>
    \/ /\ t \in Fit
       /\ \/ token'[t] = IncFailcount(Seen[t])
          \/ \E n \in Nat : token'[t] = IncCountAuth(IncFailcount(Seen[t]), n)
       /\ guessed'[t] \in {guessed[t], Append(guessed[t], now)}

\* An administrator: another field, a reset, another fail counter, another maximum.
AdminStep(t) ==
    \/ /\ token'[t] \in Row /\ guessed'[t] = guessed[t]
       /\ token'[t].failcount = token[t].failcount /\ token'[t].maxfail = token[t].maxfail
       /\ token'[t].exceeded = token[t].exceeded
       /\ token'[t].countSuccess = token[t].countSuccess
    \/ token'[t] = Reset(token[t]) /\ guessed'[t] = <<>>
    \/ \E n \in FailCounts \cup {0} :
         token'[t] = SetFailcount(token[t], n) /\ guessed'[t] = <<>>
    \/ \E n \in MaxFails :
         token'[t] = [token[t] EXCEPT !.maxfail = n] /\ guessed'[t] = guessed[t]

\* The rows a request works on are well typed, and those of fit tokens below the
\* limit of failures and of successes.
LEMMA SeenRow ==
    ASSUME RowTypes, NEW t \in Tokens
    PROVE  /\ Seen[t] \in Row
           /\ Seen[t] = token[t] \/ Seen[t] = CheckResetFailcount(token[t])
           /\ t \in Fit => /\ Seen[t].failcount < Seen[t].maxfail
                           /\ SuccessMax # 0 => Seen[t].countSuccess < SuccessMax
BY CheckResetRow DEF RowTypes, Seen, Fit, CheckAll, CheckAuthCounter

LEMMA SucceedStep ==
    ASSUME NEW tokens \in SUBSET Fit, Succeed(Update(Seen, tokens, IncCountSuccess), tokens),
           NEW t \in Tokens
    PROVE  RequestStep(t)
<1>1. t \in ResetBy(tokens) => t \in Listed
  BY DEF ResetBy, Fit
<1>2. tokens \subseteq ResetBy(tokens)
  BY DEF ResetBy, Fit
<1>3. CASE t \in tokens
  BY <1>2, <1>3 DEF Succeed, ResetTokens, Update, RequestStep
<1>4. CASE t \in ResetBy(tokens) \ tokens
  BY <1>1, <1>4 DEF Succeed, ResetTokens, Update, RequestStep
<1>5. CASE t \notin ResetBy(tokens)
  BY <1>2, <1>5 DEF Succeed, ResetTokens, Update, RequestStep
<1>6. QED BY <1>3, <1>4, <1>5

LEMMA WrongPinStep ==
    ASSUME token' = WrongPinRows(Fit), guessed' = guessed, NEW t \in Tokens
    PROVE  RequestStep(t)
<1>1. token'[t] = Seen[t] \/ (t \in Fit /\ token'[t] = IncCountAuth(IncFailcount(Seen[t]), 1))
  BY DEF WrongPinRows, Update
<1>2. QED BY <1>1 DEF RequestStep

LEMMA RequestSteps ==
    ASSUME RowTypes, Request, NEW t \in Tokens
    PROVE  RequestStep(t)
<1>1. ASSUME NEW verdict \in [Tokens -> Verdicts], SingleShot(verdict)
      PROVE  RequestStep(t)
  BY <1>1, SucceedStep DEF SingleShot, ValidTokens
<1>2. ASSUME NEW verdict \in [Tokens -> Verdicts], TriggerChallenge(verdict)
      PROVE  RequestStep(t)
  <2>1. RequestTokens(verdict) \subseteq Fit /\ guessed' = guessed
    BY <1>2 DEF TriggerChallenge, RequestTokens
  <2>2. token' = Seen \/ token' = Update(Seen, RequestTokens(verdict), IncFailcount)
    BY <1>2 DEF TriggerChallenge
  <2>3. token'[t] = Seen[t] \/ (t \in Fit /\ token'[t] = IncFailcount(Seen[t]))
    BY <2>1, <2>2 DEF Update
  <2>4. QED BY <2>1, <2>3 DEF RequestStep
<1>3. ASSUME NEW verdict \in [Tokens -> Verdicts], WrongOtp(verdict)
      PROVE  RequestStep(t)
  <2> DEFINE tokens == PinTokens(verdict)
             r == Seen[t]
  <2>1. tokens \subseteq Fit /\ Fit \subseteq Tokens /\ Cardinality(tokens) \in Nat
    <3>1. tokens \subseteq Fit /\ Fit \subseteq Tokens
      BY DEF PinTokens, Fit, Listed
    <3>2. QED BY <3>1, AuthAssumption, FS_Subset, FS_CardinalityType
  <2>2. guessed'[t] = IF t \in tokens THEN Append(guessed[t], now) ELSE guessed[t]
    BY <1>3 DEF WrongOtp, Guess
  <2>3. CASE t \in tokens
    <3>1. r \in Row /\ r.failcount < r.maxfail /\ t \in Fit
      BY <2>1, <2>3, SeenRow
    <3>2. token'[t] = IncCountAuth(IF config.pinOnly THEN CheckResetFailcount(IncFailcount(r))
                                                     ELSE IncFailcount(r), Cardinality(tokens))
      BY <1>3, <2>3 DEF WrongOtp, Update
    <3>3. CheckResetFailcount(IncFailcount(r)) = IncFailcount(r)
      BY <3>1, FreshStampKept
    <3>4. token'[t] = IncCountAuth(IncFailcount(r), Cardinality(tokens))
      BY <3>2, <3>3
    <3>5. QED BY <2>1, <2>2, <2>3, <3>1, <3>4 DEF RequestStep
  <2>4. CASE t \notin tokens
    <3>1. token'[t] = Seen[t]
      BY <1>3, <2>4 DEF WrongOtp, Update
    <3>2. QED BY <2>2, <2>4, <3>1 DEF RequestStep
  <2>5. QED BY <2>3, <2>4
<1>4. ASSUME NEW verdict \in [Tokens -> Verdicts], Refuse(verdict)
      PROVE  RequestStep(t)
  BY <1>4, WrongPinStep DEF Refuse
<1>5. ASSUME NEW tx, NEW right, NEW u \in Tokens, NEW before, Answer(tx, right, u, before)
      PROVE  RequestStep(t)
  <2>1. {u} \subseteq Fit
    BY <1>5 DEF Answer, Matching, Responders
  <2>2. QED BY <1>5, <2>1, SucceedStep DEF Answer
<1>6. ASSUME NEW tx, NEW right, NEW u \in Tokens, NEW before, AnswerStep(tx, right, u, before)
      PROVE  RequestStep(t)
  <2>1. u \in Fit
    BY <1>6 DEF AnswerStep, Matching, Responders
  <2>2. QED BY <1>6, <2>1 DEF AnswerStep, Update, RequestStep
<1>7. ASSUME NEW tx, NEW right, WrongResponse(tx, right)
      PROVE  RequestStep(t)
  <2> DEFINE counted == Responders(tx) \ OutOfBand
             wrong == {u \in counted : \E ch \in challenges : ch.tx = tx /\ ch.token = u /\ Valid(ch)}
  <2>1. counted \subseteq Fit /\ wrong \subseteq counted
    BY DEF Responders
  <2>2. guessed'[t] = IF t \in wrong THEN Append(guessed[t], now) ELSE guessed[t]
    BY <1>7 DEF WrongResponse, Guess
  <2>3. token'[t] = IF t \in counted THEN IncFailcount(Seen[t]) ELSE Seen[t]
    BY <1>7 DEF WrongResponse, Update
  <2> HIDE DEF counted, wrong
  <2>4. QED BY <2>1, <2>2, <2>3 DEF RequestStep
<1>8. ASSUME NEW tx, UnknownTransaction(tx)
      PROVE  RequestStep(t)
  BY <1>8, WrongPinStep DEF UnknownTransaction
<1>9. QED BY <1>1, <1>2, <1>3, <1>4, <1>5, <1>6, <1>7, <1>8 DEF Request

LEMMA AdminSteps ==
    ASSUME RowTypes, Admin, NEW t \in Tokens
    PROVE  AdminStep(t)
<1>1. /\ token \in [Tokens -> Row] /\ token[t] \in Row
      /\ guessed \in [Tokens -> Seq(Nat)]
  BY DEF RowTypes
<1>2. ASSUME token'[t] = token[t], guessed'[t] = guessed[t]
      PROVE  AdminStep(t)
  BY <1>1, <1>2 DEF AdminStep
<1>3. PICK u \in Tokens :
         \/ ResetToken(u)
         \/ IncOtpCounterResets(u)
         \/ \E n \in FailCounts : SetFailcounter(u, n)
         \/ \E n \in MaxFails : SetMaxfail(u, n)
         \/ \E enable \in BOOLEAN : Enable(u, enable)
         \/ Revoke(u)
  BY DEF Admin
<1>4. CASE ResetToken(u)
  BY <1>1, <1>2, <1>4 DEF ResetToken, AdminStep
<1>5. CASE IncOtpCounterResets(u)
  BY <1>1, <1>2, <1>5 DEF IncOtpCounterResets, AdminStep
<1>6. ASSUME NEW n \in FailCounts, SetFailcounter(u, n) PROVE AdminStep(t)
  BY <1>1, <1>2, <1>6 DEF SetFailcounter, AdminStep
<1>7. ASSUME NEW n \in MaxFails, SetMaxfail(u, n) PROVE AdminStep(t)
  BY <1>1, <1>2, <1>7 DEF SetMaxfail, AdminStep
<1>8. ASSUME NEW enable \in BOOLEAN, Enable(u, enable) PROVE AdminStep(t)
  <2>1. token' = [token EXCEPT ![u].active = enable] /\ guessed' = guessed
    BY <1>8 DEF Enable
  <2>2. CASE u = t
    <3>1. token'[t] = [token[t] EXCEPT !.active = enable]
      BY <1>1, <2>1, <2>2
    <3>2. QED BY <1>1, <2>1, <3>1 DEF AdminStep, Row
  <2>3. QED BY <1>1, <1>2, <2>1, <2>2
<1>9. CASE Revoke(u)
  <2>1. token' = [token EXCEPT ![u].revoked = TRUE, ![u].active = FALSE] /\ guessed' = guessed
    BY <1>9 DEF Revoke
  <2>2. CASE u = t
    <3>1. token'[t] = [token[t] EXCEPT !.revoked = TRUE, !.active = FALSE]
      BY <1>1, <2>1, <2>2
    <3>2. QED BY <1>1, <2>1, <3>1 DEF AdminStep, Row
  <2>3. QED BY <1>1, <1>2, <2>1, <2>2
<1>10. QED BY <1>3, <1>4, <1>5, <1>6, <1>7, <1>8, <1>9

-----------------------------------------------------------------------------
(* The types *)

LEMMA LeastNatural ==
    ASSUME NEW S, S \subseteq Nat, S # {}
    PROVE  \E c \in S : \A d \in S : c <= d
<1>1. PICK R : /\ IsWellFoundedOn(R, Nat)
               /\ \A x, y \in Nat : <<x, y>> \in R <=> x < y
  <2>1. \A x, y \in Nat : <<x, y>> \in OpToRel(<, Nat) <=> x < y
    BY DEF OpToRel
  <2>2. QED BY <2>1, NatLessThanWellFounded
<1>2. PICK c \in S : \A d \in S : ~ (<<d, c>> \in R)
  <2>1. IsWellFoundedOn(R, Nat)
    BY <1>1
  <2>2. QED BY <2>1, WFMin, Zenon
<1>3. \A d \in S : d \in Nat /\ c \in Nat /\ ~ (d < c)
  BY <1>1, <1>2
<1>4. QED BY <1>3

\* What is left of a history is part of it, and within the clear timeout.
LEMMA WithinResult ==
    ASSUME config.clearTimeout \in Nat, NEW times \in Seq(Nat), NEW time \in Nat
    PROVE  /\ Within(times, time) \in Seq(Nat)
           /\ Len(Within(times, time)) <= Len(times)
           /\ \A i \in 1 .. Len(Within(times, time)) :
                /\ \E j \in 1 .. Len(times) : Within(times, time)[i] = times[j]
                /\ config.clearTimeout # 0
                     => time <= Within(times, time)[i] + config.clearTimeout
<1> DEFINE Recent(i) == config.clearTimeout = 0 \/ time <= times[i] + config.clearTimeout
           Tails == {i \in 1 .. Len(times) + 1 : \A j \in i .. Len(times) : Recent(j)}
           Start(i) == /\ \A j \in i .. Len(times) : Recent(j)
                       /\ i = 1 \/ ~Recent(i - 1)
           first == CHOOSE i \in 1 .. Len(times) + 1 : Start(i)
<1>1. Len(times) \in Nat
  OBVIOUS
<1>2. Within(times, time) = SubSeq(times, first, Len(times))
  BY DEF Within
<1>3. \E i \in 1 .. Len(times) + 1 : Start(i)
  <2>1. Tails \subseteq Nat /\ Len(times) + 1 \in Tails
    BY <1>1
  <2> HIDE DEF Recent
  <2>2. PICK i \in Tails : \A d \in Tails : i <= d
    <3> HIDE DEF Tails
    <3>1. QED BY <2>1, LeastNatural
  <2>3. i = 1 \/ ~Recent(i - 1)
    <3> SUFFICES ASSUME i # 1, Recent(i - 1) PROVE FALSE
      OBVIOUS
    <3>1. i - 1 \in 1 .. Len(times) + 1
      BY <1>1, <2>2
    <3>2. \A j \in (i - 1) .. Len(times) : j = i - 1 \/ j \in i .. Len(times)
      BY <1>1, <2>2
    <3>3. i - 1 \in Tails
      BY <2>2, <3>1, <3>2
    <3>4. QED BY <2>2, <3>1, <3>3
  <2>4. QED BY <2>2, <2>3
<1>4. first \in 1 .. Len(times) + 1 /\ \A j \in first .. Len(times) : Recent(j)
  <2> HIDE DEF Recent
  <2>1. first \in 1 .. Len(times) + 1 /\ Start(first)
    BY <1>3
  <2>2. QED BY <2>1
<1> HIDE DEF first, Recent
<1>5. /\ SubSeq(times, first, Len(times)) \in Seq(Nat)
      /\ Len(SubSeq(times, first, Len(times))) = Len(times) - first + 1
      /\ \A i \in 1 .. Len(times) - first + 1 :
           /\ SubSeq(times, first, Len(times))[i] = times[first + i - 1]
           /\ first + i - 1 \in first .. Len(times)
  BY <1>1, <1>4
<1>6. \A i \in 1 .. Len(times) - first + 1 : Recent(first + i - 1)
  BY <1>4, <1>5
<1>7. QED BY <1>1, <1>2, <1>4, <1>5, <1>6 DEF Recent

\* The rows and histories stay functions on the tokens.
LEMMA StillFunctions ==
    ASSUME RowTypes, Next
    PROVE  /\ token' = [t \in Tokens |-> token'[t]]
           /\ guessed' = [t \in Tokens |-> guessed'[t]]
           /\ now' \in Nat /\ config' \in Configs
<1>1. /\ token = [t \in Tokens |-> token[t]] /\ guessed = [t \in Tokens |-> guessed[t]]
      /\ Seen = [t \in Tokens |-> Seen[t]] /\ now \in Nat /\ config \in Configs
  BY DEF RowTypes, Seen
<1>2. CASE Request
  <2>1. now' = now /\ config' = config
    BY <1>2 DEF Request, SingleShot, TriggerChallenge, WrongOtp, Refuse, Answer, AnswerStep,
                WrongResponse, UnknownTransaction
  <2>2. \A rows, tokens : Succeed(rows, tokens) =>
           /\ token' = [t \in Tokens |-> token'[t]]
           /\ guessed' = [t \in Tokens |-> guessed'[t]]
    BY DEF Succeed, ResetTokens
  <2>3. \A tokens : Guess(tokens) => guessed' = [t \in Tokens |-> guessed'[t]]
    BY DEF Guess
  <2>4. token' = WrongPinRows(Fit) => token' = [t \in Tokens |-> token'[t]]
    BY <1>1 DEF WrongPinRows, Update
  <2>5. QED BY <1>1, <1>2, <2>1, <2>2, <2>3, <2>4
            DEF Request, SingleShot, TriggerChallenge, WrongOtp, Refuse, Answer, AnswerStep,
                WrongResponse, UnknownTransaction, Update
<1>3. CASE Admin
  BY <1>1, <1>3 DEF Admin, ResetToken, IncOtpCounterResets, SetFailcounter, SetMaxfail,
                    Enable, Revoke, AdminRest
<1>4. CASE Tick
  BY <1>1, <1>4 DEF Tick
<1>5. QED BY <1>2, <1>3, <1>4 DEF Next

LEMMA RowTypesNext == RowTypes /\ [Next]_authVars => RowTypes'
<1> SUFFICES ASSUME RowTypes, [Next]_authVars PROVE RowTypes'
  OBVIOUS
<1>1. CASE UNCHANGED authVars
  BY <1>1 DEF authVars, RowTypes
<1>2. CASE Next
  <2>1. /\ token' = [t \in Tokens |-> token'[t]]
        /\ guessed' = [t \in Tokens |-> guessed'[t]]
        /\ now' \in Nat /\ config' \in Configs
    BY <1>2, StillFunctions
  <2>2. \A t \in Tokens : token[t] \in Row /\ guessed[t] \in Seq(Nat)
    BY DEF RowTypes
  <2>3. now \in Nat /\ config.clearTimeout \in Nat
    BY ConfigTypes DEF RowTypes
  <2>4. ASSUME NEW t \in Tokens PROVE token'[t] \in Row /\ guessed'[t] \in Seq(Nat)
    <3>1. CASE Request
      <4>1. RequestStep(t)
        BY <3>1, RequestSteps
      <4>2. guessed'[t] \in Seq(Nat)
        <5>1. guessed'[t] \in {guessed[t], Append(guessed[t], now), <<>>}
          BY <4>1 DEF RequestStep
        <5>2. <<>> \in Seq(Nat) /\ Append(guessed[t], now) \in Seq(Nat)
          BY <2>2, <2>3, <2>4
        <5>3. QED BY <2>2, <2>4, <5>1, <5>2
      <4>3. Seen[t] \in Row /\ (t \in Fit => Seen[t].failcount < Seen[t].maxfail)
        BY <2>4, SeenRow
      <4>4. token'[t] \in Row
        BY <2>3, <4>1, <4>3, IncCountSuccessRow, ResetRow, IncFailcountRow, IncCountAuthRow
           DEF RequestStep
      <4>5. QED BY <4>2, <4>4
    <3>2. CASE Admin
      <4>1. AdminStep(t)
        BY <3>2, <2>4, AdminSteps
      <4>2. guessed'[t] \in Seq(Nat)
        <5>1. guessed'[t] \in {guessed[t], <<>>}
          BY <4>1 DEF AdminStep
        <5>2. <<>> \in Seq(Nat)
          OBVIOUS
        <5>3. QED BY <2>2, <2>4, <5>1, <5>2
      <4>3. \A n \in FailCounts \cup {0} : n \in Nat
        BY AuthAssumption
      <4>4. ASSUME NEW n \in MaxFails, token'[t] = [token[t] EXCEPT !.maxfail = n]
            PROVE  token'[t] \in Row
        BY <4>4, <2>2, <2>4, AuthAssumption DEF Row
      <4>5. token'[t] \in Row
        <5>1. \/ token'[t] \in Row
              \/ token'[t] = Reset(token[t])
              \/ \E n \in Nat : token'[t] = SetFailcount(token[t], n)
          BY <4>1, <4>3, <4>4 DEF AdminStep
        <5>2. token[t] \in Row
          BY <2>2, <2>4
        <5>3. QED BY <5>1, <5>2, ResetRow, SetFailcountRow
      <4>6. QED BY <4>2, <4>5
    <3>3. CASE Tick
      <4>1. token' = token /\ guessed'[t] = Within(guessed[t], now') /\ now' \in Nat
        BY <3>3, <2>1, <2>4 DEF Tick
      <4>2. QED BY <4>1, <2>2, <2>3, <2>4, WithinResult
    <3>4. QED BY <1>2, <3>1, <3>2, <3>3 DEF Next
  <2>5. QED BY <2>1, <2>4 DEF RowTypes
<1>3. QED BY <1>1, <1>2

\* The types of the challenge table and of the transactions.
TxTypes ==
    /\ lastTx \in Nat
    /\ challenges \subseteq [tx : 1 .. lastTx, token : Tokens, expires : Nat]
    /\ answered \subseteq 1 .. lastTx
    /\ passed \subseteq Tokens

\* Old challenges and new ones of a transaction, under the newest id.
LEMMA ChallengeTableTypes ==
    ASSUME TxTypes, now \in Nat, NEW tokens \in SUBSET Tokens
    PROVE  /\ NextTx(tokens) \in Nat
           /\ challenges \cup NewChallenges(tokens)
                \subseteq [tx : 1 .. NextTx(tokens), token : Tokens, expires : Nat]
           /\ 1 .. lastTx \subseteq 1 .. NextTx(tokens)
<1>1. /\ NextTx(tokens) \in Nat /\ lastTx <= NextTx(tokens) /\ lastTx \in Nat
      /\ tokens # {} => NextTx(tokens) = lastTx + 1
  BY DEF TxTypes, NextTx
<1>2. 1 .. lastTx \subseteq 1 .. NextTx(tokens)
  BY <1>1
<1>3. challenges \subseteq [tx : 1 .. NextTx(tokens), token : Tokens, expires : Nat]
  BY <1>2 DEF TxTypes
<1>4. now + Validity \in Nat /\ \A t \in tokens : lastTx + 1 \in 1 .. NextTx(tokens)
  BY <1>1, AuthAssumption
<1>5. NewChallenges(tokens) \subseteq [tx : 1 .. NextTx(tokens), token : Tokens, expires : Nat]
  BY <1>4 DEF NewChallenges
<1>6. QED BY <1>1, <1>2, <1>3, <1>5

LEMMA TxTypesNext == RowTypes /\ TxTypes /\ [Next]_authVars => TxTypes'
<1> SUFFICES ASSUME RowTypes, TxTypes, [Next]_authVars PROVE TxTypes'
  OBVIOUS
<1>1. Fit \subseteq Tokens /\ now \in Nat
  BY DEF Fit, Listed, RowTypes
\* No challenge is created.
<1>2. ASSUME lastTx' = lastTx, challenges' \subseteq challenges, passed' \subseteq Tokens,
             answered' \subseteq 1 .. lastTx
      PROVE  TxTypes'
  BY <1>2 DEF TxTypes
\* Challenges of one new transaction are.
<1>3. ASSUME NEW created \in SUBSET Tokens, lastTx' = NextTx(created), passed' = {},
             challenges' \subseteq challenges \cup NewChallenges(created),
             answered' \subseteq 1 .. lastTx
      PROVE  TxTypes'
  BY <1>1, <1>3, ChallengeTableTypes DEF TxTypes
<1>4. ASSUME NEW verdict \in [Tokens -> Verdicts],
             SingleShot(verdict) \/ WrongOtp(verdict) \/ Refuse(verdict)
      PROVE  TxTypes'
  <2>1. ValidTokens(verdict) \subseteq Tokens
    BY <1>1 DEF ValidTokens
  <2>2. lastTx' = lastTx /\ challenges' = challenges /\ answered' = answered
    BY <1>4 DEF SingleShot, WrongOtp, Refuse
  <2>3. passed' \subseteq Tokens
    BY <1>4, <2>1 DEF SingleShot, WrongOtp, Refuse, Succeed
  <2>4. QED BY <1>2, <2>2, <2>3 DEF TxTypes
<1>5. ASSUME NEW verdict \in [Tokens -> Verdicts], TriggerChallenge(verdict)
      PROVE  TxTypes'
  <2>1. PICK created :
          /\ created \subseteq RequestTokens(verdict)
          /\ challenges' = Janitor(challenges, created) \cup NewChallenges(created)
          /\ lastTx' = NextTx(created)
    BY <1>5 DEF TriggerChallenge, Challenged
  <2>2. created \in SUBSET Tokens
    BY <1>1, <2>1 DEF RequestTokens
  <2>3. passed' = {} /\ answered' = answered
    BY <1>5 DEF TriggerChallenge
  <2>4. QED BY <1>3, <2>1, <2>2, <2>3 DEF Janitor, TxTypes
<1>6. ASSUME NEW tx \in 1 .. lastTx, NEW right, NEW t \in Tokens, NEW before,
             Answer(tx, right, t, before)
      PROVE  TxTypes'
  <2>1. lastTx' = lastTx /\ answered' \subseteq 1 .. lastTx /\ challenges' \subseteq challenges
    BY <1>6 DEF Answer, WithoutTransaction, Janitor, TxTypes
  <2>2. passed' = {t}
    BY <1>6 DEF Answer, Succeed
  <2>3. QED BY <1>2, <2>1, <2>2
<1>7. ASSUME NEW tx \in 1 .. lastTx, NEW right, NEW t \in Tokens, NEW before,
             AnswerStep(tx, right, t, before)
      PROVE  TxTypes'
  <2>1. PICK created :
          /\ created \subseteq {t}
          /\ challenges' = WithoutTransaction(Janitor(challenges, before \cup {t})
                                                \cup NewChallenges(created), tx, t)
          /\ lastTx' = NextTx(created)
    BY <1>7 DEF AnswerStep, Challenged
  <2>2. created \in SUBSET Tokens
    BY <2>1
  <2>3. challenges' \subseteq challenges \cup NewChallenges(created)
    BY <2>1 DEF WithoutTransaction, Janitor
  <2>4. passed' = {} /\ answered' \subseteq 1 .. lastTx
    BY <1>7 DEF AnswerStep, TxTypes
  <2>5. QED BY <1>3, <2>1, <2>2, <2>3, <2>4
<1>8. ASSUME NEW tx, NEW right, WrongResponse(tx, right) PROVE TxTypes'
  <2>1. /\ lastTx' = lastTx /\ answered' = answered /\ challenges' \subseteq challenges
        /\ passed' = {}
    BY <1>8 DEF WrongResponse, Janitor
  <2>2. QED BY <1>2, <2>1 DEF TxTypes
<1>9. ASSUME NEW tx, UnknownTransaction(tx) PROVE TxTypes'
  BY <1>2, <1>9 DEF UnknownTransaction, TxTypes
<1>10. CASE Admin \/ Tick
  <2>1. UNCHANGED <<challenges, answered, lastTx>> /\ passed' = {}
    BY <1>10 DEF Admin, Tick, ResetToken, IncOtpCounterResets, SetFailcounter, SetMaxfail,
                 Enable, Revoke, AdminRest
  <2>2. QED BY <1>2, <2>1 DEF TxTypes
<1>11. CASE UNCHANGED authVars
  BY <1>2, <1>11 DEF authVars, TxTypes
<1>12. QED BY <1>4, <1>5, <1>6, <1>7, <1>8, <1>9, <1>10, <1>11 DEF Next, Request

LEMMA TypesInit == Init => RowTypes /\ TxTypes
<1> SUFFICES ASSUME Init PROVE RowTypes /\ TxTypes
  OBVIOUS
<1>1. token \in [Tokens -> Row]
  BY AuthAssumption DEF Init, Row, Absent
<1>2. guessed \in [Tokens -> Seq(Nat)]
  BY DEF Init
<1>3. QED BY <1>1, <1>2 DEF Init, RowTypes, TxTypes

LEMMA RowTypesInvariant == Spec => []RowTypes
<1>1. Init => RowTypes
  BY TypesInit
<1>2. QED BY <1>1, RowTypesNext, PTL DEF Spec

\* The token rows, the challenge table and the histories are well typed: no request
\* of check_token_list and no setter leaves a negative counter, a maximum of 0, or
\* a challenge whose transaction was never started.
THEOREM AuthTypeCorrect == Spec => []TypeOK
<1>1. Init => RowTypes /\ TxTypes
  BY TypesInit
<1>2. RowTypes /\ TxTypes /\ [Next]_authVars => (RowTypes /\ TxTypes)'
  BY RowTypesNext, TxTypesNext
<1>3. RowTypes /\ TxTypes => TypeOK
  BY DEF RowTypes, TxTypes, TypeOK, Row
<1>4. QED BY <1>1, <1>2, <1>3, PTL DEF Spec

-----------------------------------------------------------------------------
(* The limit of successes *)

LEMMA SuccessesInit == Init => SuccessesBounded
BY AuthAssumption DEF Init, SuccessesBounded

LEMMA SuccessesNext ==
    RowTypes /\ SuccessesBounded /\ [Next]_authVars => SuccessesBounded'
<1> SUFFICES ASSUME RowTypes, SuccessesBounded, [Next]_authVars, SuccessMax # 0,
                    NEW t \in Tokens
             PROVE  token'[t].countSuccess <= SuccessMax
  BY DEF SuccessesBounded
<1>1. /\ token[t] \in Row /\ token[t].countSuccess \in Nat /\ SuccessMax \in Nat
      /\ token[t].countSuccess <= SuccessMax /\ now \in Nat
  BY AuthAssumption DEF RowTypes, Row, SuccessesBounded
<1>2. CASE UNCHANGED token
  BY <1>1, <1>2
<1>3. CASE Request
  <2> DEFINE s == Seen[t]
  <2>1. RequestStep(t)
    BY <1>3, RequestSteps
  <2>2. /\ s \in Row /\ s.countSuccess = token[t].countSuccess
        /\ t \in Fit => s.failcount < s.maxfail /\ s.countSuccess < SuccessMax
    BY <1>1, SeenRow, CheckResetRow
  <2> HIDE DEF s
  <2>3. \/ token'[t].countSuccess = s.countSuccess
        \/ t \in Fit /\ token'[t].countSuccess = s.countSuccess + 1
    <3>1. CASE token'[t] = s
      BY <3>1
    <3>2. CASE t \in Fit /\ token'[t] \in {IncCountSuccess(s), Reset(IncCountSuccess(s))}
      BY <2>2, <3>2, IncCountSuccessRow, ResetRow
    <3>3. CASE token'[t] = Reset(s)
      BY <2>2, <3>3, ResetRow
    <3>4. CASE t \in Fit /\ \/ token'[t] = IncFailcount(s)
                            \/ \E n \in Nat : token'[t] = IncCountAuth(IncFailcount(s), n)
      <4>1. IncFailcount(s) \in Row /\ IncFailcount(s).countSuccess = s.countSuccess
        BY <1>1, <2>2, <3>4, IncFailcountRow
      <4>2. ASSUME NEW n \in Nat, token'[t] = IncCountAuth(IncFailcount(s), n)
            PROVE  token'[t].countSuccess = s.countSuccess
        BY <4>1, <4>2, IncCountAuthRow
      <4>3. QED BY <3>4, <4>1, <4>2
    <3>5. QED BY <2>1, <3>1, <3>2, <3>3, <3>4 DEF RequestStep, s
  <2>4. QED BY <1>1, <2>2, <2>3
<1>4. CASE Admin
  <2>1. AdminStep(t)
    BY <1>4, AdminSteps
  <2>2. \A n \in FailCounts \cup {0} : n \in Nat
    BY AuthAssumption
  <2>3. ASSUME NEW n, token'[t] = [token[t] EXCEPT !.maxfail = n]
        PROVE  token'[t].countSuccess = token[t].countSuccess
    BY <1>1, <2>3 DEF Row
  <2>4. token'[t].countSuccess = token[t].countSuccess
    <3>1. ASSUME NEW n \in Nat, token'[t] = SetFailcount(token[t], n)
          PROVE  token'[t].countSuccess = token[t].countSuccess
      <4>1. SetFailcount(token[t], n).countSuccess = token[t].countSuccess
        BY <1>1, SetFailcountRow
      <4>2. QED BY <3>1, <4>1
    <3>2. Reset(token[t]).countSuccess = token[t].countSuccess
      BY <1>1, ResetRow
    <3>3. QED BY <2>1, <2>2, <2>3, <3>1, <3>2 DEF AdminStep
  <2>5. QED BY <1>1, <2>4
<1>5. QED BY <1>2, <1>3, <1>4 DEF Next, Tick, authVars

\* check_auth_counter with count_auth_success_max: a token lets in at most that
\* often, with PIN and OTP value, challenges of several steps, or out of band,
\* whatever the administrator resets in between.
THEOREM SuccessLimit == Spec => []SuccessesBounded
<1>1. QED BY SuccessesInit, SuccessesNext, RowTypesInvariant, PTL DEF Spec

-----------------------------------------------------------------------------
(* The limit of guesses *)

\* Nobody changes the maximum of a token, as set_max_failcount does: lowered to the
\* fail counter it may make an old timestamp count for new guesses.
MaxfailKept == MaxFails \subseteq {InitMaxFail}

\* The guesses at a row are in its fail counter, none is older than the clear
\* timeout, and none came after the timestamp of a counter at its maximum: when
\* this is cleared, no guess is left.
GuessRow(r, times) ==
    /\ r.maxfail = InitMaxFail
    /\ Len(times) <= r.failcount
    /\ \A i \in 1 .. Len(times) :
         /\ times[i] <= now
         /\ config.clearTimeout # 0 => now <= times[i] + config.clearTimeout
         /\ r.failcount = r.maxfail /\ r.exceeded # Absent => times[i] <= r.exceeded

GuessInv == \A t \in Tokens : GuessRow(token[t], guessed[t])

\* Clearing a fail counter forgets no guess, because none is left.
LEMMA GuessesSeen ==
    ASSUME RowTypes, NEW t \in Tokens, GuessRow(token[t], guessed[t])
    PROVE  GuessRow(Seen[t], guessed[t]) /\ (Seen[t] # token[t] => Len(guessed[t]) = 0)
<1> DEFINE r == token[t]
           g == guessed[t]
<1>1. /\ r \in Row /\ g \in Seq(Nat) /\ now \in Nat /\ config.clearTimeout \in Nat
  BY ConfigTypes DEF RowTypes
<1>2. Seen[t] = r \/ Seen[t] = CheckResetFailcount(r)
  BY SeenRow
<1>3. ASSUME ClearDue(r) PROVE Len(g) = 0
  <2> SUFFICES ASSUME Len(g) # 0 PROVE FALSE
    OBVIOUS
  <2>1. 1 \in 1 .. Len(g) /\ g[1] \in Nat
    BY <1>1
  <2>2. g[1] <= r.exceeded /\ now <= g[1] + config.clearTimeout
    BY <1>3, <2>1 DEF GuessRow, ClearDue
  <2>3. r.exceeded \in Nat /\ now > r.exceeded + config.clearTimeout
    BY <1>1, <1>3 DEF ClearDue, Row
  <2>4. QED BY <1>1, <2>1, <2>2, <2>3
<1>4. CASE Seen[t] = r
  BY <1>4
<1>5. CASE Seen[t] = CheckResetFailcount(r) /\ Seen[t] # r
  <2>1. ClearDue(r) /\ Seen[t].failcount = 0 /\ Seen[t].maxfail = r.maxfail
    BY <1>1, <1>5, CheckResetRow
  <2>2. Len(g) = 0
    BY <1>3, <2>1
  <2>3. QED BY <2>1, <2>2 DEF GuessRow
<1>6. QED BY <1>2, <1>4, <1>5

\* A failure of a fit token counts, and makes room for one guess more.
LEMMA GuessesFailed ==
    ASSUME RowTypes, NEW s \in Row, s.failcount < s.maxfail,
           NEW times \in Seq(Nat), GuessRow(s, times),
           NEW r, r.failcount = IncFailcount(s).failcount, r.maxfail = IncFailcount(s).maxfail,
           r.exceeded = IncFailcount(s).exceeded,
           NEW more, more \in {times, Append(times, now)}
    PROVE  GuessRow(r, more)
<1>1. now \in Nat /\ config.clearTimeout \in Nat /\ s.failcount \in Nat /\ s.maxfail \in Nat
  BY ConfigTypes DEF RowTypes, Row
<1>2. /\ r.failcount = s.failcount + 1 /\ r.maxfail = s.maxfail
      /\ r.failcount = r.maxfail => r.exceeded = now
  BY <1>1, IncFailcountRow
<1>3. /\ Len(more) <= Len(times) + 1
      /\ \A i \in 1 .. Len(more) : more[i] = now \/ (i \in 1 .. Len(times) /\ more[i] = times[i])
  <2>1. CASE more = times
    BY <2>1
  <2>2. CASE more = Append(times, now)
    BY <2>2
  <2>3. QED BY <2>1, <2>2
<1>4. s.maxfail = InitMaxFail /\ Len(times) <= s.failcount /\ Len(times) \in Nat
  BY DEF GuessRow
<1>5. Len(more) \in Nat
  BY <1>1
<1>6. ASSUME NEW i \in 1 .. Len(more)
      PROVE  /\ more[i] <= now
             /\ config.clearTimeout # 0 => now <= more[i] + config.clearTimeout
  <2>1. CASE more[i] = now
    BY <1>1, <2>1
  <2>2. CASE i \in 1 .. Len(times) /\ more[i] = times[i]
    BY <2>2 DEF GuessRow
  <2>3. QED BY <1>3, <1>6, <2>1, <2>2
<1>7. Len(more) <= r.failcount
  BY <1>1, <1>2, <1>3, <1>4, <1>5
<1>8. QED BY <1>2, <1>4, <1>6, <1>7 DEF GuessRow

LEMMA GuessesInit == Init => GuessInv
BY DEF Init, GuessInv, GuessRow

LEMMA GuessesNext ==
    MaxfailKept /\ RowTypes /\ GuessInv /\ [Next]_authVars => GuessInv'
<1> SUFFICES ASSUME MaxfailKept, RowTypes, GuessInv, [Next]_authVars, NEW t \in Tokens
             PROVE  GuessRow(token[t], guessed[t])'
  BY DEF GuessInv
<1> DEFINE r == token[t]
           s == Seen[t]
           g == guessed[t]
<1>1. /\ r \in Row /\ g \in Seq(Nat) /\ now \in Nat /\ config.clearTimeout \in Nat
      /\ GuessRow(r, g)
  BY ConfigTypes DEF RowTypes, GuessInv
<1>2. \A times : now' = now /\ config' = config /\ guessed'[t] = times
                   => (GuessRow(token[t], guessed[t])' <=> GuessRow(token'[t], times))
  BY DEF GuessRow
<1>3. \A row : row.maxfail = InitMaxFail /\ row.failcount \in Nat => GuessRow(row, <<>>)
  BY DEF GuessRow
<1>4. CASE UNCHANGED authVars
  BY <1>1, <1>2, <1>4 DEF authVars
<1>5. CASE Request
  <2>1. RequestStep(t) /\ now' = now /\ config' = config
    BY <1>5, RequestSteps
       DEF Request, SingleShot, TriggerChallenge, WrongOtp, Refuse, Answer, AnswerStep,
           WrongResponse, UnknownTransaction
  <2>2. /\ s \in Row /\ GuessRow(s, g) /\ s.maxfail = InitMaxFail
        /\ t \in Fit => s.failcount < s.maxfail
    BY <1>1, SeenRow, GuessesSeen DEF GuessRow
  <2> HIDE DEF s
  <2>3. CASE token'[t] = s /\ guessed'[t] = g
    BY <1>2, <2>1, <2>2, <2>3
  <2>4. CASE token'[t] = IncCountSuccess(s) /\ guessed'[t] = g
    <3>1. GuessRow(IncCountSuccess(s), g)
      BY <2>2, IncCountSuccessRow DEF GuessRow
    <3>2. QED BY <1>2, <2>1, <2>4, <3>1
  <2>5. CASE token'[t] \in {Reset(s), Reset(IncCountSuccess(s))} /\ guessed'[t] = <<>>
    <3>1. token'[t].maxfail = InitMaxFail /\ token'[t].failcount \in Nat
      BY <2>2, <2>5, IncCountSuccessRow, ResetRow
    <3>2. QED BY <1>2, <1>3, <2>1, <2>5, <3>1
  <2>6. CASE /\ t \in Fit
             /\ \/ token'[t] = IncFailcount(s)
                \/ \E n \in Nat : token'[t] = IncCountAuth(IncFailcount(s), n)
             /\ guessed'[t] \in {g, Append(g, now)}
    <3>1. IncFailcount(s) \in Row
      BY <1>1, <2>2, <2>6, IncFailcountRow
    <3>2. /\ token'[t].failcount = IncFailcount(s).failcount
          /\ token'[t].maxfail = IncFailcount(s).maxfail
          /\ token'[t].exceeded = IncFailcount(s).exceeded
      BY <2>6, <3>1, IncCountAuthRow
    <3>3. GuessRow(token'[t], guessed'[t])
      BY <1>1, <2>2, <2>6, <3>2, GuessesFailed
    <3>4. QED BY <1>2, <2>1, <3>3
  <2>7. QED BY <2>1, <2>3, <2>4, <2>5, <2>6 DEF RequestStep, s
<1>6. CASE Admin
  <2>1. AdminStep(t) /\ now' = now /\ config' = config
    BY <1>6, AdminSteps DEF Admin, ResetToken, IncOtpCounterResets, SetFailcounter, SetMaxfail,
                            Enable, Revoke, AdminRest
  <2>2. r.maxfail = InitMaxFail
    BY <1>1 DEF GuessRow
  <2>3. CASE /\ guessed'[t] = g /\ token'[t].failcount = r.failcount
             /\ token'[t].maxfail = r.maxfail /\ token'[t].exceeded = r.exceeded
    <3>1. GuessRow(token'[t], g)
      BY <1>1, <2>3 DEF GuessRow
    <3>2. QED BY <1>2, <2>1, <2>3, <3>1
  <2>4. ASSUME NEW n \in MaxFails, token'[t] = [r EXCEPT !.maxfail = n], guessed'[t] = g
        PROVE  GuessRow(token[t], guessed[t])'
    <3>1. n = InitMaxFail
      BY <2>4 DEF MaxfailKept
    <3>2. token'[t] = r
      BY <1>1, <2>2, <2>4, <3>1 DEF Row
    <3>3. QED BY <1>1, <1>2, <2>1, <2>4, <3>2
  <2>5. ASSUME guessed'[t] = <<>>, NEW n \in Nat,
               token'[t] = Reset(r) \/ token'[t] = SetFailcount(r, n)
        PROVE  GuessRow(token[t], guessed[t])'
    <3>1. token'[t].maxfail = InitMaxFail /\ token'[t].failcount \in Nat
      BY <1>1, <2>2, <2>5, ResetRow, SetFailcountRow
    <3>2. QED BY <1>2, <1>3, <2>1, <2>5, <3>1
  <2>6. \A n \in FailCounts \cup {0} : n \in Nat
    BY AuthAssumption
  <2>7. QED BY <2>1, <2>3, <2>4, <2>5, <2>6 DEF AdminStep
<1>7. CASE Tick
  <2> DEFINE w == Within(g, now')
  <2>1. /\ now' = now + 1 /\ token' = token /\ config' = config /\ guessed'[t] = w
        /\ now' \in Nat
    BY <1>1, <1>7 DEF Tick
  <2>2. /\ w \in Seq(Nat) /\ Len(w) <= Len(g)
        /\ \A i \in 1 .. Len(w) :
             /\ \E j \in 1 .. Len(g) : w[i] = g[j]
             /\ config.clearTimeout # 0 => now' <= w[i] + config.clearTimeout
    BY <1>1, <2>1, WithinResult
  <2> HIDE DEF w
  <2>3. r.failcount \in Nat /\ Len(g) <= r.failcount /\ Len(g) \in Nat /\ Len(w) \in Nat
    BY <1>1, <2>2 DEF GuessRow, Row
  <2>4. ASSUME NEW i \in 1 .. Len(w)
        PROVE  /\ w[i] <= now'
               /\ r.failcount = r.maxfail /\ r.exceeded # Absent => w[i] <= r.exceeded
    <3>1. PICK j \in 1 .. Len(g) : w[i] = g[j]
      BY <2>2, <2>4
    <3>2. g[j] \in Nat /\ g[j] <= now
      BY <1>1 DEF GuessRow
    <3>3. QED BY <1>1, <2>1, <3>1, <3>2 DEF GuessRow
  <2>5. Len(w) <= r.failcount
    BY <2>2, <2>3
  <2>6. r.maxfail = InitMaxFail
    BY <1>1 DEF GuessRow
  <2>7. QED BY <2>1, <2>2, <2>4, <2>5, <2>6 DEF GuessRow
<1>8. QED BY <1>4, <1>5, <1>6, <1>7 DEF Next

\* The administrator sets no fail counter above the maximum, or none up to it.
CountsWithinMax == FailCounts \subseteq 0 .. InitMaxFail
CountsBelowMax == FailCounts \subseteq 0 .. InitMaxFail - 1

\* No row counts more failures than its maximum.
AtMostMax == \A t \in Tokens : token[t].failcount <= token[t].maxfail

LEMMA AtMostMaxNext ==
    MaxfailKept /\ CountsWithinMax /\ RowTypes /\ GuessInv /\ AtMostMax /\ [Next]_authVars
      => AtMostMax'
<1> SUFFICES ASSUME MaxfailKept, CountsWithinMax, RowTypes, GuessInv, AtMostMax,
                    [Next]_authVars, NEW t \in Tokens
             PROVE  token'[t].failcount <= token'[t].maxfail
  BY DEF AtMostMax
<1> DEFINE r == token[t]
           s == Seen[t]
<1>1. /\ r \in Row /\ r.failcount \in Nat /\ r.maxfail = InitMaxFail
      /\ InitMaxFail \in Nat \ {0} /\ r.failcount <= r.maxfail /\ now \in Nat
  BY AuthAssumption DEF RowTypes, Row, GuessInv, GuessRow, AtMostMax
<1>2. CASE UNCHANGED token
  BY <1>1, <1>2
<1>3. CASE Request
  <2>1. RequestStep(t)
    BY <1>3, RequestSteps
  <2>2. /\ s \in Row /\ s.failcount <= s.maxfail /\ s.failcount \in Nat /\ s.maxfail \in Nat
        /\ t \in Fit => s.failcount < s.maxfail
    <3>1. s = r \/ (s.failcount = 0 /\ s.maxfail = r.maxfail)
      BY <1>1, SeenRow, CheckResetRow
    <3>2. s \in Row /\ (t \in Fit => s.failcount < s.maxfail)
      BY SeenRow
    <3>3. QED BY <1>1, <3>1, <3>2 DEF Row
  <2> HIDE DEF s
  <2>3. CASE token'[t] \in {s, IncCountSuccess(s)}
    BY <2>2, <2>3, IncCountSuccessRow
  <2>4. CASE token'[t] \in {Reset(s), Reset(IncCountSuccess(s))}
    <3>1. token'[t].failcount = 0 /\ token'[t].maxfail = s.maxfail
      BY <2>2, <2>4, IncCountSuccessRow, ResetRow
    <3>2. QED BY <2>2, <3>1
  <2>5. CASE t \in Fit /\ \/ token'[t] = IncFailcount(s)
                          \/ \E n \in Nat : token'[t] = IncCountAuth(IncFailcount(s), n)
    <3>1. /\ IncFailcount(s) \in Row /\ IncFailcount(s).failcount = s.failcount + 1
          /\ IncFailcount(s).maxfail = s.maxfail
      BY <1>1, <2>2, <2>5, IncFailcountRow
    <3>2. token'[t].failcount = s.failcount + 1 /\ token'[t].maxfail = s.maxfail
      BY <2>5, <3>1, IncCountAuthRow
    <3>3. QED BY <2>2, <2>5, <3>2
  <2>6. QED BY <2>1, <2>3, <2>4, <2>5 DEF RequestStep, s
<1>4. CASE Admin
  <2>1. AdminStep(t)
    BY <1>4, AdminSteps
  <2>2. ASSUME NEW n \in MaxFails, token'[t] = [r EXCEPT !.maxfail = n]
        PROVE  token'[t].failcount <= token'[t].maxfail
    <3>1. n = InitMaxFail
      BY <2>2 DEF MaxfailKept
    <3>2. token'[t] = r
      BY <1>1, <2>2, <3>1 DEF Row
    <3>3. QED BY <1>1, <3>2
  <2>3. ASSUME NEW n \in FailCounts \cup {0}, token'[t] = SetFailcount(r, n)
        PROVE  token'[t].failcount <= token'[t].maxfail
    <3>1. n \in Nat /\ n <= InitMaxFail
      BY <1>1, <2>3 DEF CountsWithinMax
    <3>2. SetFailcount(r, n).failcount = n /\ SetFailcount(r, n).maxfail = InitMaxFail
      BY <1>1, <3>1, SetFailcountRow
    <3>3. QED BY <2>3, <3>1, <3>2
  <2>4. CASE token'[t] = Reset(r)
    BY <1>1, <2>4, ResetRow
  <2>5. CASE token'[t].failcount = r.failcount /\ token'[t].maxfail = r.maxfail
    BY <1>1, <2>5
  <2> HIDE DEF r
  <2>6. QED BY <2>1, <2>2, <2>3, <2>4, <2>5 DEF AdminStep, r
<1>5. QED BY <1>2, <1>3, <1>4 DEF Next, Tick, authVars

LEMMA StampsNext ==
    MaxfailKept /\ CountsBelowMax /\ RowTypes /\ GuessInv /\ ReachedHasTimestamp
      /\ [Next]_authVars => ReachedHasTimestamp'
<1> SUFFICES ASSUME MaxfailKept, CountsBelowMax, RowTypes, GuessInv, ReachedHasTimestamp,
                    [Next]_authVars, NEW t \in Tokens,
                    token'[t].failcount >= token'[t].maxfail
             PROVE  token'[t].exceeded # Absent
  BY DEF ReachedHasTimestamp
<1> DEFINE r == token[t]
           s == Seen[t]
           Stamped(row) == row.failcount >= row.maxfail => row.exceeded # Absent
<1>1. /\ r \in Row /\ r.failcount \in Nat /\ r.maxfail = InitMaxFail
      /\ InitMaxFail \in Nat \ {0} /\ Stamped(r) /\ now \in Nat
  BY AuthAssumption DEF RowTypes, Row, GuessInv, GuessRow, ReachedHasTimestamp
<1>2. CASE UNCHANGED token
  BY <1>1, <1>2
<1>3. CASE Request
  <2>1. RequestStep(t)
    BY <1>3, RequestSteps
  <2>2. /\ s \in Row /\ Stamped(s) /\ s.failcount \in Nat /\ s.maxfail = InitMaxFail
        /\ t \in Fit => s.failcount < s.maxfail
    <3>1. s = r \/ (s.failcount = 0 /\ s.maxfail = r.maxfail)
      BY <1>1, SeenRow, CheckResetRow
    <3>2. s \in Row /\ (t \in Fit => s.failcount < s.maxfail)
      BY SeenRow
    <3>3. QED BY <1>1, <3>1, <3>2 DEF Row
  <2> HIDE DEF s
  <2>3. CASE token'[t] \in {s, IncCountSuccess(s)}
    BY <2>2, <2>3, IncCountSuccessRow
  <2>4. CASE token'[t] \in {Reset(s), Reset(IncCountSuccess(s))}
    <3>1. token'[t].failcount = 0 /\ token'[t].maxfail = s.maxfail
      BY <2>2, <2>4, IncCountSuccessRow, ResetRow
    <3>2. QED BY <1>1, <2>2, <3>1
  <2>5. CASE t \in Fit /\ \/ token'[t] = IncFailcount(s)
                          \/ \E n \in Nat : token'[t] = IncCountAuth(IncFailcount(s), n)
    <3>1. /\ IncFailcount(s) \in Row /\ IncFailcount(s).failcount = s.failcount + 1
          /\ IncFailcount(s).maxfail = s.maxfail
          /\ IncFailcount(s).failcount = s.maxfail => IncFailcount(s).exceeded = now
      BY <1>1, <2>2, <2>5, IncFailcountRow
    <3>2. /\ token'[t].failcount = s.failcount + 1 /\ token'[t].maxfail = s.maxfail
          /\ token'[t].exceeded = IncFailcount(s).exceeded
      BY <2>5, <3>1, IncCountAuthRow
    <3>3. token'[t].exceeded = now
      BY <1>1, <2>2, <2>5, <3>1, <3>2
    <3>4. QED BY <1>1, <3>3 DEF Absent
  <2>6. QED BY <2>1, <2>3, <2>4, <2>5 DEF RequestStep, s
<1>4. CASE Admin
  <2>1. AdminStep(t)
    BY <1>4, AdminSteps
  <2>2. ASSUME NEW n \in MaxFails, token'[t] = [r EXCEPT !.maxfail = n]
        PROVE  token'[t].exceeded # Absent
    <3>1. n = InitMaxFail
      BY <2>2 DEF MaxfailKept
    <3>2. token'[t] = r
      BY <1>1, <2>2, <3>1 DEF Row
    <3>3. QED BY <1>1, <3>2
  <2>3. ASSUME NEW n \in FailCounts \cup {0}, token'[t] = SetFailcount(r, n)
        PROVE  FALSE
    <3>1. n \in Nat /\ n < InitMaxFail
      BY <1>1, <2>3 DEF CountsBelowMax
    <3>2. SetFailcount(r, n).failcount = n /\ SetFailcount(r, n).maxfail = InitMaxFail
      BY <1>1, <3>1, SetFailcountRow
    <3>3. QED BY <1>1, <2>3, <3>1, <3>2
  <2>4. CASE token'[t] = Reset(r)
    <3>1. token'[t].failcount = 0 /\ token'[t].maxfail = InitMaxFail
      BY <1>1, <2>4, ResetRow
    <3>2. QED BY <1>1, <3>1
  <2>5. CASE /\ token'[t].failcount = r.failcount /\ token'[t].maxfail = r.maxfail
             /\ token'[t].exceeded = r.exceeded
    BY <1>1, <2>5
  <2> HIDE DEF r, Stamped
  <2>6. QED BY <2>1, <2>2, <2>3, <2>4, <2>5 DEF AdminStep, r
<1>5. QED BY <1>2, <1>3, <1>4 DEF Next, Tick, authVars

\* A token that is let in was fit, and the failures it was fit with are not fewer
\* than the guesses at it.
LEMMA LockoutStep ==
    RowTypes /\ GuessInv /\ [Next]_authVars
      => [\A t \in passed' : Len(guessed[t]) < token[t].maxfail]_authVars
<1> SUFFICES ASSUME RowTypes, GuessInv, Next, NEW t \in passed'
             PROVE  Len(guessed[t]) < token[t].maxfail
  OBVIOUS
<1>1. t \in Fit
  <2>1. CASE Request
    <3>1. ASSUME NEW verdict, SingleShot(verdict) PROVE t \in Fit
      <4>1. passed' = ValidTokens(verdict)
        BY <3>1 DEF SingleShot, Succeed
      <4>2. QED BY <4>1 DEF ValidTokens
    <3>2. ASSUME NEW tx, NEW right, NEW u, NEW before, Answer(tx, right, u, before)
          PROVE  t \in Fit
      <4>1. passed' = {u} /\ u \in Fit
        BY <3>2 DEF Answer, Succeed, Matching, Responders
      <4>2. QED BY <4>1
    <3>3. ASSUME NEW verdict, TriggerChallenge(verdict) \/ WrongOtp(verdict) \/ Refuse(verdict)
          PROVE  t \in Fit
      BY <3>3 DEF TriggerChallenge, WrongOtp, Refuse
    <3>4. ASSUME NEW tx, NEW right, NEW u, NEW before,
                 \/ AnswerStep(tx, right, u, before)
                 \/ WrongResponse(tx, right)
                 \/ UnknownTransaction(tx)
          PROVE  t \in Fit
      BY <3>4 DEF AnswerStep, WrongResponse, UnknownTransaction
    <3>5. QED BY <2>1, <3>1, <3>2, <3>3, <3>4 DEF Request
  <2>2. CASE Admin
    BY <2>2 DEF Admin, ResetToken, IncOtpCounterResets, SetFailcounter, SetMaxfail,
                Enable, Revoke
  <2>3. CASE Tick
    BY <2>3 DEF Tick
  <2>4. QED BY <2>1, <2>2, <2>3 DEF Next
<1>2. t \in Tokens
  BY <1>1 DEF Fit, Listed
<1>3. /\ token[t] \in Row /\ guessed[t] \in Seq(Nat) /\ GuessRow(token[t], guessed[t])
      /\ token[t].failcount \in Nat /\ token[t].maxfail \in Nat \ {0}
  BY <1>2 DEF RowTypes, GuessInv, Row
<1>4. CASE Seen[t] # token[t]
  BY <1>2, <1>3, <1>4, GuessesSeen
<1>5. CASE Seen[t] = token[t]
  <2>1. token[t].failcount < token[t].maxfail
    BY <1>1, <1>2, <1>5, SeenRow
  <2>2. Len(guessed[t]) <= token[t].failcount /\ Len(guessed[t]) \in Nat
    BY <1>3 DEF GuessRow
  <2>3. QED BY <1>3, <2>1, <2>2
<1>6. QED BY <1>4, <1>5

LEMMA GuessesInvariant == MaxfailKept /\ Spec => []GuessInv
<1>1. MaxfailKept => []MaxfailKept
  OBVIOUS
<1>2. QED BY <1>1, GuessesInit, GuessesNext, RowTypesInvariant, PTL DEF Spec

\* While nobody changes the maximum or sets a fail counter above it: nobody gets
\* more guesses at a token within the clear timeout than its maximum, however
\* passwords, responses, expired challenges and clearing are mixed
\* (check_token_list, inc_failcount, check_reset_failcount).
THEOREM GuessLimit == MaxfailKept /\ CountsWithinMax /\ Spec => []GuessesCounted
<1>1. MaxfailKept /\ CountsWithinMax => [](MaxfailKept /\ CountsWithinMax)
  OBVIOUS
<1>2. Init => AtMostMax
  BY AuthAssumption DEF Init, AtMostMax
<1>3. GuessInv /\ AtMostMax => GuessesCounted
  BY DEF GuessInv, GuessRow, AtMostMax, GuessesCounted
<1>4. QED BY <1>1, <1>2, <1>3, AtMostMaxNext, GuessesInvariant, RowTypesInvariant, PTL DEF Spec

\* While nobody changes the maximum: a token at which as many guesses failed within
\* the clear timeout lets nobody in, not even with the right password or the right
\* response to a challenge started before.
THEOREM Lockout == MaxfailKept /\ Spec => LockoutHolds
<1>1. QED BY LockoutStep, GuessesInvariant, RowTypesInvariant, PTL DEF Spec, LockoutHolds

\* While nobody changes the maximum or sets a fail counter to it: a counter that
\* reached the maximum has the time it did, so that check_reset_failcount can
\* clear it.
THEOREM ReachedStamped == MaxfailKept /\ CountsBelowMax /\ Spec => []ReachedHasTimestamp
<1>1. MaxfailKept /\ CountsBelowMax => [](MaxfailKept /\ CountsBelowMax)
  OBVIOUS
<1>2. Init => ReachedHasTimestamp
  BY AuthAssumption DEF Init, ReachedHasTimestamp
<1>3. QED BY <1>1, <1>2, StampsNext, GuessesInvariant, RowTypesInvariant, PTL DEF Spec
===============================================================================
