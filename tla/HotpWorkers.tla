----------------------------- MODULE HotpWorkers -----------------------------
(***************************************************************************)
(* Several threads or processes of the server authenticate with one HOTP   *)
(* token at the same time.  "You should run several processes and threads" *)
(* (doc/faq/performance.rst).  A request works on the token row its        *)
(* database session loaded; what it writes are absolute values computed    *)
(* from that copy, and a commit makes the next access load the row again   *)
(* (lib/token.py check_token_list, lib/tokenclass.py, models/utils.py).    *)
(* The PIN is right in every request, an OTP value is its counter,         *)
(* AutoResync is off and the fail counter is not cleared by time.          *)
(***************************************************************************)
EXTENDS Integers, FiniteSets

CONSTANTS
    Workers,      \* requests served at the same time
    CountWindow,  \* token.count_window
    MaxFail,      \* token.maxfail
    MaxCounter    \* OTP values up to this counter are presented

ASSUME WorkersAssumption ==
    /\ CountWindow \in Nat
    /\ MaxFail \in Nat \ {0}
    /\ MaxCounter \in Nat

VARIABLES
    count,      \* the committed token.count
    failcount,  \* the committed token.failcount
    job,        \* per worker: the request and its copy of the row
    accepted,   \* history: OTP values that logged somebody in
    replayed,   \* history: those that did it again for a later request
    regressed,  \* history: count was set back by a commit
    guesses     \* history: failed guesses since the counter was last reset

workerVars == <<count, failcount, job, accepted, replayed, regressed, guesses>>

Idle == [step |-> "idle"]

\* A value that belongs to no counter of the token
WrongOtp == MaxCounter + 1

-----------------------------------------------------------------------------
Init ==
    /\ count = 0
    /\ failcount = 0
    /\ job = [w \in Workers |-> Idle]
    /\ accepted = {}
    /\ replayed = {}
    /\ regressed = FALSE
    /\ guesses = 0

\* The session loads the row; check_all refuses on a full fail counter.
Load(w, otp) ==
    /\ job[w] = Idle
    /\ failcount < MaxFail
    /\ job' = [job EXCEPT ![w] = [step |-> "check", otp |-> otp, count |-> count,
                                  failcount |-> failcount, used |-> otp \in accepted]]
    /\ UNCHANGED <<count, failcount, accepted, replayed, regressed, guesses>>

\* Mutant: the window is not searched from the counter but from the start.
FoundFromZero(w) == job[w].otp # WrongOtp

\* HmacOtp.checkOtp in the window of the copy
Found(w) ==
    /\ job[w].otp # WrongOtp
    /\ job[w].otp \in job[w].count .. job[w].count + CountWindow - 1

\* check_otp finds the value in the copy's window and commits the new count.
CheckOtp(w) ==
    /\ job[w].step = "check"
    /\ Found(w)
    /\ count' = job[w].otp + 1
    /\ regressed' = (regressed \/ count' < count)
    /\ job' = [job EXCEPT ![w] = [step |-> "finish", otp |-> job[w].otp, used |-> job[w].used]]
    /\ UNCHANGED <<failcount, accepted, replayed, guesses>>

\* Mutant: a wrong value is refused and not counted.
WrongGuessUncounted(w) ==
    /\ job[w].step = "check"
    /\ ~Found(w)
    /\ guesses' = guesses + 1
    /\ job' = [job EXCEPT ![w] = Idle]
    /\ UNCHANGED <<count, failcount, accepted, replayed, regressed>>

\* Mutant: the database adds one, and the limit is not looked at again.
WrongGuessAdds(w) ==
    /\ job[w].step = "check"
    /\ ~Found(w)
    /\ failcount' = failcount + 1
    /\ guesses' = guesses + 1
    /\ job' = [job EXCEPT ![w] = Idle]
    /\ UNCHANGED <<count, accepted, replayed, regressed>>

\* Nothing was committed since the row was loaded: inc_failcount adds one to
\* the copy's fail counter.
WrongGuess(w) ==
    /\ job[w].step = "check"
    /\ ~Found(w)
    /\ failcount' = job[w].failcount + 1
    /\ guesses' = guesses + 1
    /\ job' = [job EXCEPT ![w] = Idle]
    /\ UNCHANGED <<count, accepted, replayed, regressed>>

\* The second check_all sees the row as it is now.
CheckAgain(w) ==
    /\ job[w].step = "finish"
    /\ job' = [job EXCEPT ![w] = IF failcount < MaxFail THEN [@ EXCEPT !.step = "reset"] ELSE Idle]
    /\ UNCHANGED <<count, failcount, accepted, replayed, regressed, guesses>>

\* inc_count_auth_success has committed, so reset loads the row once more.
Finish(w) ==
    /\ job[w].step = "reset"
    /\ accepted' = accepted \cup {job[w].otp}
    /\ replayed' = IF job[w].used THEN replayed \cup {job[w].otp} ELSE replayed
    /\ failcount' = 0
    /\ guesses' = 0
    /\ job' = [job EXCEPT ![w] = Idle]
    /\ UNCHANGED <<count, regressed>>

\* The worker dies or its database connection does.
Abort(w) ==
    /\ job[w] # Idle
    /\ job' = [job EXCEPT ![w] = Idle]
    /\ UNCHANGED <<count, failcount, accepted, replayed, regressed, guesses>>

\* reset_token by the administrator
ResetToken ==
    /\ failcount' = 0
    /\ guesses' = 0
    /\ UNCHANGED <<count, job, accepted, replayed, regressed>>

Next ==
    \/ ResetToken
    \/ \E w \in Workers :
         \/ \E otp \in 0 .. WrongOtp : Load(w, otp)
         \/ CheckOtp(w)
         \/ WrongGuess(w)
         \/ CheckAgain(w)
         \/ Finish(w)
         \/ Abort(w)

Spec == Init /\ [][Next]_workerVars

-----------------------------------------------------------------------------
(* Properties *)

TypeOK ==
    /\ count \in 0 .. MaxCounter + 1
    /\ failcount \in 0 .. MaxFail
    /\ job \in [Workers -> {Idle}
                  \cup [step : {"check"}, otp : 0 .. WrongOtp, count : Nat,
                        failcount : 0 .. MaxFail - 1, used : BOOLEAN]
                  \cup [step : {"finish", "reset"}, otp : 0 .. MaxCounter, used : BOOLEAN]]
    /\ accepted \subseteq 0 .. MaxCounter
    /\ replayed \subseteq accepted
    /\ regressed \in BOOLEAN
    /\ guesses \in Nat

\* "The OTP value that was used for this authentication is invalidated"
\* (TokenClass.authenticate) does not hold for overlapping requests: a value that
\* logged somebody in may log in somebody whose request comes later.  The only
\* way to such a replay is a commit of set_otp_count that overwrote a larger
\* count; were the count only ever raised in the database, there would be none.
ReplayOnlyAfterRegress == replayed # {} => regressed

\* Lost updates of the fail counter allow more guesses than "the maximum number a
\* failed authentication is allowed" (set_max_failcount), but not any number: two workers
\* get no more than the sum of what is left each time the slower one sets the
\* counter back.
GuessesStayBounded == guesses <= (MaxFail * (MaxFail + 3)) \div 2
===============================================================================
