-------------------------- MODULE HotpWorkersProofs --------------------------
(***************************************************************************)
(* Proofs about HotpWorkers for any window and any maxfail: with any       *)
(* number of workers a later replay takes a commit that sets the counter   *)
(* back, and two workers get no more guesses than the bound of             *)
(* GuessesStayBounded.                                                     *)
(***************************************************************************)
EXTENDS HotpWorkers, TLAPS

\* As long as no commit set the counter back, everything that logged somebody in
\* lies behind it, and so does what a request has just committed.
NoRegressInv ==
    ~regressed =>
      /\ replayed = {}
      /\ \A a \in accepted : a < count
      /\ \A w \in Workers :
           /\ job[w].step = "check" => (job[w].used => job[w].otp < job[w].count)
           /\ job[w].step \in {"finish", "reset"} => (~job[w].used /\ job[w].otp < count)

WorkersInv == TypeOK /\ NoRegressInv

\* What TypeOK says of one job, by its step.
LEMMA JobTypes ==
    ASSUME TypeOK, NEW w \in Workers
    PROVE  /\ job[w] = Idle => job[w].step = "idle"
           /\ job[w].step \in {"idle", "check", "finish", "reset"}
           /\ job[w].step = "check" =>
                job[w] \in [step : {"check"}, otp : 0 .. WrongOtp, count : Nat,
                            failcount : 0 .. MaxFail - 1, used : BOOLEAN]
           /\ job[w].step \in {"finish", "reset"} =>
                job[w] \in [step : {"finish", "reset"}, otp : 0 .. MaxCounter, used : BOOLEAN]
<1>1. CASE job[w] = Idle
  BY <1>1 DEF Idle
<1>2. CASE job[w] \in [step : {"check"}, otp : 0 .. WrongOtp, count : Nat,
                       failcount : 0 .. MaxFail - 1, used : BOOLEAN]
  <2>1. job[w].step = "check"
    BY <1>2
  <2>2. job[w] # Idle
    BY <2>1 DEF Idle
  <2>3. QED BY <1>2, <2>1, <2>2
<1>3. CASE job[w] \in [step : {"finish", "reset"}, otp : 0 .. MaxCounter, used : BOOLEAN]
  <2>1. job[w].step \in {"finish", "reset"}
    BY <1>3
  <2>2. job[w] # Idle
    BY <2>1 DEF Idle
  <2>3. QED BY <1>3, <2>1, <2>2
<1>4. QED BY <1>1, <1>2, <1>3 DEF TypeOK

\* The invariant holds before the first request.
LEMMA WorkersInit == Init => WorkersInv
<1> SUFFICES ASSUME Init PROVE WorkersInv
  OBVIOUS
<1>1. TypeOK
  <2>1. job \in [Workers -> {Idle}]
    BY DEF Init
  <2>2. count \in 0 .. MaxCounter + 1 /\ failcount \in 0 .. MaxFail /\ guesses \in Nat
    BY WorkersAssumption DEF Init
  <2>3. regressed \in BOOLEAN
    BY DEF Init
  <2>4. accepted = {} /\ replayed = {}
    BY DEF Init
  <2>5. QED BY <2>1, <2>2, <2>3, <2>4 DEF TypeOK
<1>2. NoRegressInv
  BY DEF Init, NoRegressInv, Idle
<1>3. QED BY <1>1, <1>2 DEF WorkersInv

\* The row a request loads is well typed.
LEMMA LoadTypeOK ==
    ASSUME TypeOK, NEW w \in Workers, NEW otp \in 0 .. WrongOtp, Load(w, otp)
    PROVE  TypeOK'
<1> DEFINE row == [step |-> "check", otp |-> otp, count |-> count,
                   failcount |-> failcount, used |-> otp \in accepted]
<1>1. row \in [step : {"check"}, otp : 0 .. WrongOtp, count : Nat,
               failcount : 0 .. MaxFail - 1, used : BOOLEAN]
  <2>1. count \in Nat /\ failcount \in 0 .. MaxFail - 1
    BY WorkersAssumption DEF TypeOK, Load
  <2>2. (otp \in accepted) \in BOOLEAN
    OBVIOUS
  <2>3. QED BY <2>1, <2>2
<1>2. job' = [job EXCEPT ![w] = row]
  BY DEF Load
<1> HIDE DEF row
<1>3. QED BY <1>1, <1>2 DEF TypeOK, Load

\* Every step keeps the types.
LEMMA TypeStep == TypeOK /\ [Next]_workerVars => TypeOK'
<1> SUFFICES ASSUME TypeOK, [Next]_workerVars PROVE TypeOK'
  OBVIOUS
<1>1. ASSUME NEW w \in Workers, NEW otp \in 0 .. WrongOtp, Load(w, otp) PROVE TypeOK'
  BY <1>1, LoadTypeOK
<1>2. ASSUME NEW w \in Workers, CheckOtp(w) PROVE TypeOK'
  <2>1. job[w].otp \in 0 .. MaxCounter /\ job[w].used \in BOOLEAN
    BY <1>2, JobTypes, WorkersAssumption DEF CheckOtp, Found, WrongOtp
  <2>2. [step |-> "finish", otp |-> job[w].otp, used |-> job[w].used]
          \in [step : {"finish", "reset"}, otp : 0 .. MaxCounter, used : BOOLEAN]
    BY <2>1
  <2>3. job' \in [Workers -> {Idle}
                  \cup [step : {"check"}, otp : 0 .. WrongOtp, count : Nat,
                        failcount : 0 .. MaxFail - 1, used : BOOLEAN]
                  \cup [step : {"finish", "reset"}, otp : 0 .. MaxCounter, used : BOOLEAN]]
    BY <1>2, <2>2 DEF CheckOtp, TypeOK
  <2>4. count' \in 0 .. MaxCounter + 1
    BY <1>2, <2>1, WorkersAssumption DEF CheckOtp
  <2>5. regressed' \in BOOLEAN
    <3>1. (count' < count) \in BOOLEAN
      OBVIOUS
    <3>2. regressed' = (regressed \/ count' < count)
      BY <1>2 DEF CheckOtp
    <3>3. QED BY <3>1, <3>2 DEF TypeOK
  <2>6. UNCHANGED <<failcount, accepted, replayed, guesses>>
    BY <1>2 DEF CheckOtp
  <2>7. QED BY <2>3, <2>4, <2>5, <2>6 DEF TypeOK
<1>3. ASSUME NEW w \in Workers, WrongGuess(w) PROVE TypeOK'
  <2>1. job[w].failcount \in 0 .. MaxFail - 1
    BY <1>3, JobTypes DEF WrongGuess
  <2>2. failcount' \in 0 .. MaxFail
    BY <1>3, <2>1, WorkersAssumption DEF WrongGuess
  <2>3. QED BY <1>3, <2>2 DEF WrongGuess, TypeOK
<1>4. ASSUME NEW w \in Workers, CheckAgain(w) PROVE TypeOK'
  <2>1. [job[w] EXCEPT !.step = "reset"]
          \in [step : {"finish", "reset"}, otp : 0 .. MaxCounter, used : BOOLEAN]
    BY <1>4, JobTypes DEF CheckAgain
  <2>2. QED BY <1>4, <2>1 DEF CheckAgain, TypeOK
<1>5. ASSUME NEW w \in Workers, Finish(w) PROVE TypeOK'
  <2>1. job[w].otp \in 0 .. MaxCounter
    BY <1>5, JobTypes DEF Finish
  <2>2. failcount' \in 0 .. MaxFail /\ guesses' \in Nat
    BY <1>5, WorkersAssumption DEF Finish
  <2>3. accepted' \subseteq 0 .. MaxCounter /\ replayed' \subseteq accepted'
    BY <1>5, <2>1 DEF Finish, TypeOK
  <2>4. job' \in [Workers -> {Idle}
                  \cup [step : {"check"}, otp : 0 .. WrongOtp, count : Nat,
                        failcount : 0 .. MaxFail - 1, used : BOOLEAN]
                  \cup [step : {"finish", "reset"}, otp : 0 .. MaxCounter, used : BOOLEAN]]
    BY <1>5 DEF Finish, TypeOK
  <2>5. UNCHANGED <<count, regressed>>
    BY <1>5 DEF Finish
  <2>6. QED BY <2>2, <2>3, <2>4, <2>5 DEF TypeOK
<1>6. ASSUME NEW w \in Workers, Abort(w) PROVE TypeOK'
  BY <1>6 DEF Abort, TypeOK
<1>7. CASE ResetToken
  BY <1>7, WorkersAssumption DEF ResetToken, TypeOK
<1>8. CASE UNCHANGED workerVars
  BY <1>8 DEF workerVars, TypeOK
<1>9. QED BY <1>1, <1>2, <1>3, <1>4, <1>5, <1>6, <1>7, <1>8 DEF Next

\* Every step keeps the used values behind the counter, or sets it back.
LEMMA NoRegressStep == WorkersInv /\ [Next]_workerVars => NoRegressInv'
<1> SUFFICES ASSUME TypeOK, NoRegressInv, [Next]_workerVars, ~regressed' PROVE
      /\ replayed' = {}
      /\ \A a \in accepted' : a < count'
      /\ \A w \in Workers :
           /\ job'[w].step = "check" => (job'[w].used => job'[w].otp < job'[w].count)
           /\ job'[w].step \in {"finish", "reset"} => (~job'[w].used /\ job'[w].otp < count')
  BY DEF WorkersInv, NoRegressInv
<1>1. ~regressed
  BY DEF Next, workerVars, Load, CheckOtp, WrongGuess, CheckAgain, Finish, Abort, ResetToken
<1>2. /\ replayed = {}
      /\ \A a \in accepted : a < count
      /\ \A w \in Workers :
           /\ job[w].step = "check" => (job[w].used => job[w].otp < job[w].count)
           /\ job[w].step \in {"finish", "reset"} => (~job[w].used /\ job[w].otp < count)
  BY <1>1 DEF NoRegressInv
<1>3. ASSUME NEW w \in Workers, NEW otp \in 0 .. WrongOtp, Load(w, otp)
      PROVE  /\ job'[w].step = "check"
             /\ job'[w].used => job'[w].otp < job'[w].count
             /\ \A u \in Workers : u # w => job'[u] = job[u]
             /\ UNCHANGED <<count, accepted, replayed>>
  BY <1>2, <1>3 DEF Load, TypeOK
<1>4. ASSUME NEW w \in Workers, CheckOtp(w)
      PROVE  /\ job'[w].step = "finish" /\ ~job'[w].used /\ job'[w].otp < count'
             /\ \A u \in Workers : u # w => job'[u] = job[u]
             /\ count' \in Nat /\ count <= count'
             /\ UNCHANGED <<accepted, replayed>>
  <2>1. /\ job[w].otp \in 0 .. MaxCounter
        /\ job[w].count \in Nat
        /\ job[w].count <= job[w].otp
    BY <1>4, JobTypes, WorkersAssumption DEF CheckOtp, Found, WrongOtp
  <2>2. job[w].step = "check" /\ ~job[w].used
    BY <1>2, <1>4, <2>1 DEF CheckOtp
  <2>3. job'[w] = [step |-> "finish", otp |-> job[w].otp, used |-> job[w].used]
    BY <1>4 DEF CheckOtp, TypeOK
  <2>4. count' = job[w].otp + 1 /\ ~(count' < count)
    BY <1>4 DEF CheckOtp
  <2>5. count' \in Nat /\ count <= count' /\ job[w].otp < count'
    BY <2>1, <2>4, WorkersAssumption DEF TypeOK
  <2>6. \A u \in Workers : u # w => job'[u] = job[u]
    BY <1>4 DEF CheckOtp, TypeOK
  <2>7. QED BY <1>4, <2>2, <2>3, <2>5, <2>6 DEF CheckOtp
<1>5. ASSUME NEW w \in Workers, WrongGuess(w) \/ Abort(w)
      PROVE  /\ job'[w].step = "idle"
             /\ \A u \in Workers : u # w => job'[u] = job[u]
             /\ UNCHANGED <<count, accepted, replayed>>
  BY <1>5 DEF WrongGuess, Abort, TypeOK, Idle
<1>6. ASSUME NEW w \in Workers, CheckAgain(w)
      PROVE  /\ job'[w].step \in {"idle", "reset"}
             /\ job'[w].step = "reset" => (~job'[w].used /\ job'[w].otp < count')
             /\ \A u \in Workers : u # w => job'[u] = job[u]
             /\ UNCHANGED <<count, accepted, replayed>>
  <2>1. job[w] \in [step : {"finish", "reset"}, otp : 0 .. MaxCounter, used : BOOLEAN]
    BY <1>6, JobTypes DEF CheckAgain
  <2>2. ~job[w].used /\ job[w].otp < count
    BY <1>2, <1>6 DEF CheckAgain
  <2>3. job'[w] = IF failcount < MaxFail THEN [job[w] EXCEPT !.step = "reset"] ELSE Idle
    BY <1>6 DEF CheckAgain, TypeOK
  <2>4. \A u \in Workers : u # w => job'[u] = job[u]
    BY <1>6 DEF CheckAgain, TypeOK
  <2>5. UNCHANGED <<count, accepted, replayed>>
    BY <1>6 DEF CheckAgain
  <2>6. QED BY <2>1, <2>2, <2>3, <2>4, <2>5 DEF Idle
<1>7. ASSUME NEW w \in Workers, Finish(w)
      PROVE  /\ job'[w].step = "idle"
             /\ \A u \in Workers : u # w => job'[u] = job[u]
             /\ replayed' = {} /\ count' = count
             /\ \A a \in accepted' : a < count
  <2>1. ~job[w].used /\ job[w].otp < count
    BY <1>2, <1>7 DEF Finish
  <2>2. QED BY <1>2, <1>7, <2>1 DEF Finish, TypeOK, Idle
<1>8. CASE UNCHANGED <<count, job, accepted, replayed>>
  BY <1>2, <1>8
<1>9. ASSUME NEW w \in Workers, NEW otp \in 0 .. WrongOtp, Load(w, otp) PROVE
      /\ replayed' = {}
      /\ \A a \in accepted' : a < count'
      /\ \A u \in Workers :
           /\ job'[u].step = "check" => (job'[u].used => job'[u].otp < job'[u].count)
           /\ job'[u].step \in {"finish", "reset"} => (~job'[u].used /\ job'[u].otp < count')
  BY <1>2, <1>3, <1>9
<1>10. ASSUME NEW w \in Workers, CheckOtp(w) PROVE
      /\ replayed' = {}
      /\ \A a \in accepted' : a < count'
      /\ \A u \in Workers :
           /\ job'[u].step = "check" => (job'[u].used => job'[u].otp < job'[u].count)
           /\ job'[u].step \in {"finish", "reset"} => (~job'[u].used /\ job'[u].otp < count')
  <2>1. /\ job'[w].step = "finish" /\ ~job'[w].used /\ job'[w].otp < count'
        /\ \A u \in Workers : u # w => job'[u] = job[u]
        /\ count' \in Nat /\ count <= count'
        /\ UNCHANGED <<accepted, replayed>>
    BY <1>4, <1>10
  <2>2. count \in Nat /\ accepted \subseteq Nat
    BY WorkersAssumption DEF TypeOK
  <2>3. \A u \in Workers : job[u].step \in {"finish", "reset"} => job[u].otp \in Nat
    BY JobTypes, WorkersAssumption
  <2>4. \A a \in accepted' : a < count'
    BY <1>2, <2>1, <2>2
  <2>5. ASSUME NEW u \in Workers PROVE
           /\ job'[u].step = "check" => (job'[u].used => job'[u].otp < job'[u].count)
           /\ job'[u].step \in {"finish", "reset"} => (~job'[u].used /\ job'[u].otp < count')
    <3>1. CASE u = w
      BY <2>1, <3>1
    <3>2. CASE u # w
      BY <1>2, <2>1, <2>2, <2>3, <3>2
    <3>3. QED BY <3>1, <3>2
  <2>6. QED BY <1>2, <2>1, <2>4, <2>5
<1>11. QED
  BY <1>2, <1>5, <1>6, <1>7, <1>8, <1>9, <1>10 DEF Next, workerVars, ResetToken

\* The invariant of every run.
LEMMA WorkersInvariant == Spec => []WorkersInv
<1>1. WorkersInv /\ [Next]_workerVars => WorkersInv'
  BY TypeStep, NoRegressStep DEF WorkersInv
<1>2. QED BY WorkersInit, <1>1, PTL DEF Spec

\* The row, the copies of it and the fail counter stay in their ranges, whatever
\* the requests overwrite of each other.
THEOREM WorkersTypeCorrect == Spec => []TypeOK
<1>1. WorkersInv => TypeOK
  BY DEF WorkersInv
<1>2. QED BY <1>1, WorkersInvariant, PTL

\* With any number of workers an OTP value that logged somebody in logs in a later
\* request only after a commit has set the counter of the token back.
THEOREM ReplayNeedsRegress == Spec => []ReplayOnlyAfterRegress
<1>1. WorkersInv => ReplayOnlyAfterRegress
  BY DEF WorkersInv, NoRegressInv, ReplayOnlyAfterRegress, TypeOK
<1>2. QED BY <1>1, WorkersInvariant, PTL

-----------------------------------------------------------------------------
(* The guesses two workers get out of a token. *)

\* No more than two requests are served at the same time.
AtMostTwo == \E a, b : Workers \subseteq {a, b}

\* The guesses two workers can still make when n are left on the fail counter: one
\* loads the row, the other uses up what is left, the first sets the counter back to
\* one more than it loaded.
GuessesLeft(n) == (n * (n + 3)) \div 2

LEMMA GuessesLeftStep ==
    ASSUME NEW n \in Nat
    PROVE  /\ GuessesLeft(n) \in Nat
           /\ GuessesLeft(n + 1) = GuessesLeft(n) + n + 2
<1>1. (n + 1) * ((n + 1) + 3) = n * (n + 3) + 2 * (n + 2) /\ n * (n + 3) \in Nat
  OBVIOUS
<1> DEFINE p == n * (n + 3)
<1>2. (p + 2 * (n + 2)) \div 2 = (p \div 2) + (n + 2) /\ (p \div 2) \in Nat
  <2>1. p \in Nat
    BY <1>1
  <2> HIDE DEF p
  <2>2. QED BY <2>1
<1>3. QED BY <1>1, <1>2 DEF GuessesLeft

LEMMA GuessesLeftMonotone ==
    ASSUME NEW m \in Nat, NEW n \in Nat, m <= n
    PROVE  GuessesLeft(m) <= GuessesLeft(n)
<1>1. m * (m + 3) <= n * (n + 3) /\ m * (m + 3) \in Nat /\ n * (n + 3) \in Nat
  <2>1. PICK d \in Nat : n = m + d
    <3>1. n - m \in Nat /\ n = m + (n - m)
      OBVIOUS
    <3>2. QED BY <3>1
  <2>2. n * (n + 3) = m * (m + 3) + d * (2 * m + d + 3)
    BY <2>1
  <2>3. d * (2 * m + d + 3) \in Nat /\ m * (m + 3) \in Nat
    BY <2>1
  <2>4. QED BY <2>2, <2>3
<1> DEFINE p == m * (m + 3)
           q == n * (n + 3)
<1>2. p \in Nat /\ q \in Nat /\ p <= q
  BY <1>1
<1> HIDE DEF p, q
<1>3. p \div 2 <= q \div 2
  BY <1>2
<1>4. QED BY <1>3 DEF GuessesLeft, p, q

Checking(w) == job[w].step = "check"

\* What is left of the guesses after those made: from the row as it is; with a copy
\* that is behind it, which the other worker's guesses come before; with two of them,
\* of which the later is used first.
GuessInv ==
    /\ guesses + GuessesLeft(MaxFail - failcount) <= GuessesLeft(MaxFail)
    /\ \A w \in Workers :
         Checking(w) /\ job[w].failcount < failcount =>
           guesses + (MaxFail - failcount) + 1 + GuessesLeft(MaxFail - job[w].failcount - 1)
             <= GuessesLeft(MaxFail)
    /\ \A w, u \in Workers :
         /\ w # u
         /\ Checking(w) /\ Checking(u)
         /\ job[w].failcount <= job[u].failcount
         /\ job[u].failcount < failcount
         => guesses + (MaxFail - job[u].failcount) + 1 + GuessesLeft(MaxFail - job[w].failcount - 1)
              <= GuessesLeft(MaxFail)

\* A reset of the fail counter leaves nothing behind the row.
LEMMA ResetGuesses ==
    ASSUME TypeOK, failcount' = 0, guesses' = 0,
           \A w \in Workers : Checking(w)' => Checking(w) /\ job'[w] = job[w]
    PROVE  GuessInv'
<1>1. \A w \in Workers : Checking(w)' => ~(job'[w].failcount < failcount')
  BY JobTypes, WorkersAssumption DEF Checking
<1>2. GuessesLeft(MaxFail) \in Nat /\ MaxFail - 0 = MaxFail
  BY WorkersAssumption, GuessesLeftStep
<1>3. QED BY <1>1, <1>2 DEF GuessInv

\* A step that neither guesses nor writes the fail counter, and leaves no copy
\* that was not there.
LEMMA QuietGuesses ==
    ASSUME GuessInv, UNCHANGED <<failcount, guesses>>,
           \A w \in Workers : Checking(w)' => Checking(w) /\ job'[w] = job[w]
    PROVE  GuessInv'
  BY DEF GuessInv, Checking

\* A wrong guess of one of two workers sets the row to its copy plus one.
LEMMA WrongGuessKept ==
    ASSUME TypeOK, AtMostTwo, GuessInv, NEW w \in Workers, WrongGuess(w)
    PROVE  GuessInv'
<1> DEFINE c == job[w].failcount
<1>1. /\ c \in 0 .. MaxFail - 1 /\ failcount \in 0 .. MaxFail /\ guesses \in Nat
      /\ Checking(w) /\ MaxFail \in Nat
  BY JobTypes, WorkersAssumption DEF WrongGuess, Checking, TypeOK
<1>2. /\ failcount' = c + 1 /\ guesses' = guesses + 1 /\ job' = [job EXCEPT ![w] = Idle]
      /\ MaxFail - failcount' = MaxFail - c - 1
  BY <1>1 DEF WrongGuess
<1>3. \A u \in Workers : Checking(u)' => u # w /\ Checking(u) /\ job'[u] = job[u]
  BY <1>2 DEF Checking, Idle, TypeOK
<1>4. \A u, v \in Workers : Checking(u)' /\ Checking(v)' => u = v
  BY <1>3 DEF AtMostTwo
\* What is left on the row covers a copy that is not behind it.
<1>5. ASSUME NEW d \in 0 .. MaxFail - 1, failcount <= d
      PROVE  guesses + (MaxFail - d) + 1 + GuessesLeft(MaxFail - d - 1) <= GuessesLeft(MaxFail)
  <2>1. MaxFail - d - 1 \in Nat /\ MaxFail - d = (MaxFail - d - 1) + 1 /\ MaxFail - failcount \in Nat
        /\ MaxFail - d \in Nat /\ MaxFail - d <= MaxFail - failcount
    BY <1>1, <1>5
  <2>2. GuessesLeft(MaxFail - d) = GuessesLeft(MaxFail - d - 1) + (MaxFail - d - 1) + 2
        /\ GuessesLeft(MaxFail - d - 1) \in Nat
    BY <2>1, GuessesLeftStep
  <2>3. GuessesLeft(MaxFail - d) <= GuessesLeft(MaxFail - failcount)
    BY <2>1, GuessesLeftMonotone
  <2>4. GuessesLeft(MaxFail - d) \in Nat /\ GuessesLeft(MaxFail - failcount) \in Nat
        /\ GuessesLeft(MaxFail) \in Nat
    BY <1>1, <2>1, GuessesLeftStep
  <2>5. guesses + GuessesLeft(MaxFail - failcount) <= GuessesLeft(MaxFail)
    BY DEF GuessInv
  <2> DEFINE left == GuessesLeft(MaxFail - d - 1)
             here == GuessesLeft(MaxFail - d)
             row == GuessesLeft(MaxFail - failcount)
             all == GuessesLeft(MaxFail)
  <2>6. left \in Nat /\ here \in Nat /\ row \in Nat /\ all \in Nat
        /\ here = left + (MaxFail - d - 1) + 2 /\ here <= row /\ guesses + row <= all
    BY <2>2, <2>3, <2>4, <2>5
  <2> HIDE DEF left, here, row, all
  <2>7. guesses + (MaxFail - d) + 1 + left <= all
    BY <1>1, <2>6
  <2>8. QED BY <2>7 DEF left, all
<1>6. \A n \in 0 .. MaxFail : GuessesLeft(n) \in Nat
  BY GuessesLeftStep
\* The guess itself, and what its row leaves.
<1>7. guesses + 1 + GuessesLeft(MaxFail - c - 1) <= GuessesLeft(MaxFail)
  <2> DEFINE left == GuessesLeft(MaxFail - c - 1)
             all == GuessesLeft(MaxFail)
  <2>1. left \in Nat /\ all \in Nat
    BY <1>1, <1>6
  <2>2. guesses + 1 + left <= all
    <3>1. CASE failcount <= c
      <4>1. guesses + (MaxFail - c) + 1 + left <= all
        BY <1>1, <1>5, <3>1
      <4> HIDE DEF left, all, c
      <4>2. QED BY <1>1, <2>1, <4>1
    <3>2. CASE c < failcount
      <4>1. guesses + (MaxFail - failcount) + 1 + left <= all
        BY <1>1, <3>2 DEF GuessInv
      <4> HIDE DEF left, all, c
      <4>2. QED BY <1>1, <2>1, <4>1
    <3>3. QED BY <1>1, <3>1, <3>2
  <2>3. QED BY <2>2
\* The copy of the other worker, when it is behind the new row.
<1>8. ASSUME NEW u \in Workers, Checking(u)', job'[u].failcount < failcount'
      PROVE  guesses' + (MaxFail - failcount') + 1 + GuessesLeft(MaxFail - job'[u].failcount - 1)
               <= GuessesLeft(MaxFail)
  <2> DEFINE d == job[u].failcount
             left == GuessesLeft(MaxFail - d - 1)
             all == GuessesLeft(MaxFail)
  <2>1. u # w /\ Checking(u) /\ job'[u] = job[u] /\ d \in 0 .. MaxFail - 1
    BY <1>3, <1>8, JobTypes DEF Checking
  <2>2. d <= c /\ left \in Nat /\ all \in Nat
    BY <1>1, <1>2, <1>6, <1>8, <2>1
  <2>3. guesses + (MaxFail - c) + 1 + left <= all
    <3>1. CASE c < failcount
      BY <1>1, <2>1, <2>2, <3>1 DEF GuessInv
    <3>2. CASE failcount <= c /\ d < failcount
      <4>1. guesses + (MaxFail - failcount) + 1 + left <= all
        BY <2>1, <3>2 DEF GuessInv
      <4> HIDE DEF left, all, c, d
      <4>2. QED BY <1>1, <2>2, <3>2, <4>1
    <3>3. CASE failcount <= d
      <4>1. guesses + (MaxFail - d) + 1 + left <= all
        BY <1>5, <2>1, <3>3
      <4> HIDE DEF left, all, c, d
      <4>2. QED BY <1>1, <2>1, <2>2, <4>1
    <3>4. QED BY <1>1, <2>1, <3>1, <3>2, <3>3
  <2>4. guesses' + (MaxFail - failcount') + 1 + left <= all
    <3> HIDE DEF left, all, c, d
    <3>1. QED BY <1>1, <1>2, <2>2, <2>3
  <2>5. QED BY <2>1, <2>4
<1> HIDE DEF c
<1>9. guesses' + GuessesLeft(MaxFail - failcount') <= GuessesLeft(MaxFail)
  BY <1>2, <1>7
<1>10. QED BY <1>4, <1>8, <1>9 DEF GuessInv

\* Every step of no more than two workers keeps the bound.
LEMMA GuessStep == AtMostTwo /\ TypeOK /\ GuessInv /\ [Next]_workerVars => GuessInv'
<1> SUFFICES ASSUME AtMostTwo, TypeOK, GuessInv, [Next]_workerVars PROVE GuessInv'
  OBVIOUS
<1>1. ASSUME NEW w \in Workers, NEW otp \in 0 .. WrongOtp, Load(w, otp) PROVE GuessInv'
  <2>1. job'[w].failcount = failcount /\ UNCHANGED <<failcount, guesses>>
    BY <1>1 DEF Load, TypeOK
  <2>2. \A u \in Workers : u # w => job'[u] = job[u]
    BY <1>1 DEF Load, TypeOK
  <2>3. \A u \in Workers : Checking(u)' /\ job'[u].failcount < failcount =>
                             u # w /\ Checking(u) /\ job'[u] = job[u]
    BY <2>1, <2>2, WorkersAssumption DEF Checking, TypeOK
  <2>4. \A u, v \in Workers :
          /\ Checking(u)' /\ Checking(v)' /\ job'[v].failcount < failcount
          /\ job'[u].failcount <= job'[v].failcount
          => /\ u # w /\ Checking(u) /\ job'[u] = job[u]
             /\ v # w /\ Checking(v) /\ job'[v] = job[v]
    <3>1. \A v \in Workers : Checking(v) => job[v].failcount \in Int
      BY JobTypes, WorkersAssumption DEF Checking
    <3>2. QED BY <2>1, <2>2, <2>3, <3>1, WorkersAssumption DEF Checking, TypeOK
  <2>5. QED BY <2>1, <2>3, <2>4 DEF GuessInv
<1>2. ASSUME NEW w \in Workers, CheckOtp(w) \/ CheckAgain(w) \/ Abort(w) PROVE GuessInv'
  <2>1. UNCHANGED <<failcount, guesses>>
    BY <1>2 DEF CheckOtp, CheckAgain, Abort
  <2>2. \A u \in Workers : u # w => job'[u] = job[u]
    BY <1>2 DEF CheckOtp, CheckAgain, Abort, TypeOK
  <2>3. ~Checking(w)'
    <3>1. CASE CheckOtp(w)
      BY <3>1 DEF CheckOtp, Checking, TypeOK
    <3>2. CASE CheckAgain(w)
      <4>1. job[w] \in [step : {"finish", "reset"}, otp : 0 .. MaxCounter, used : BOOLEAN]
        BY <3>2, JobTypes DEF CheckAgain
      <4>2. job'[w] = IF failcount < MaxFail THEN [job[w] EXCEPT !.step = "reset"] ELSE Idle
        BY <3>2 DEF CheckAgain, TypeOK
      <4>3. QED BY <4>1, <4>2 DEF Checking, Idle
    <3>3. CASE Abort(w)
      BY <3>3 DEF Abort, Checking, Idle, TypeOK
    <3>4. QED BY <1>2, <3>1, <3>2, <3>3
  <2>4. QED BY <2>1, <2>2, <2>3, QuietGuesses DEF Checking
<1>3. ASSUME NEW w \in Workers, WrongGuess(w) PROVE GuessInv'
  BY <1>3, WrongGuessKept
<1>4. ASSUME NEW w \in Workers, Finish(w) PROVE GuessInv'
  BY <1>4, ResetGuesses DEF Finish, Checking, Idle, TypeOK
<1>5. CASE ResetToken
  BY <1>5, ResetGuesses DEF ResetToken, Checking
<1>6. CASE UNCHANGED workerVars
  BY <1>6, QuietGuesses DEF workerVars, Checking
<1>7. QED BY <1>1, <1>2, <1>3, <1>4, <1>5, <1>6 DEF Next

\* However two workers overwrite each other's fail counter, they get no more than
\* maxfail * (maxfail + 3) / 2 guesses before a login or a reset.
THEOREM GuessBound == AtMostTwo /\ Spec => []GuessesStayBounded
<1> SUFFICES ASSUME AtMostTwo PROVE Spec => []GuessesStayBounded
  OBVIOUS
<1>1. Init => GuessInv
  <2> SUFFICES ASSUME Init PROVE GuessInv
    OBVIOUS
  <2>1. \A w \in Workers : ~Checking(w)
    BY DEF Init, Checking, Idle
  <2>2. GuessesLeft(MaxFail) \in Nat /\ MaxFail - 0 = MaxFail
    BY WorkersAssumption, GuessesLeftStep
  <2>3. QED BY <2>1, <2>2 DEF Init, GuessInv
<1>2. TypeOK /\ GuessInv => GuessesStayBounded
  <2> SUFFICES ASSUME TypeOK, GuessInv PROVE GuessesStayBounded
    OBVIOUS
  <2>1. MaxFail - failcount \in Nat /\ guesses \in Nat
    BY WorkersAssumption DEF TypeOK
  <2> DEFINE row == GuessesLeft(MaxFail - failcount)
             all == GuessesLeft(MaxFail)
  <2>2. row \in Nat /\ all \in Nat /\ guesses + row <= all
    BY <2>1, WorkersAssumption, GuessesLeftStep DEF GuessInv
  <2>3. guesses <= all
    <3> HIDE DEF row, all
    <3>1. QED BY <2>1, <2>2
  <2>4. QED BY <2>3 DEF GuessesStayBounded, GuessesLeft
<1>3. TypeOK /\ GuessInv /\ [Next]_workerVars => GuessInv'
  BY GuessStep
<1>4. QED BY <1>1, <1>2, <1>3, WorkersTypeCorrect, PTL DEF Spec
===============================================================================
