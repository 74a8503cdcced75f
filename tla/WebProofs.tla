------------------------------ MODULE WebProofs -------------------------------
(***************************************************************************)
(* Proofs about WebSession for any number of tabs, any lifetime of the     *)
(* token and any logout_time, from WebAssumption alone; then about         *)
(* WebLogin for any number of instances, requests and transactions, and    *)
(* that it implements WebSession.                                          *)
(***************************************************************************)
EXTENDS WebLogin, FiniteSetTheorems, TLAPS

\* A session has a length above zero for the timer to start with.
HasLength(t) == authed[t] # NoSession => logoutTime[t] # 0

\* A tab no token was issued to shows the login route and has nothing to end.
Untouched(t) ==
    (\A n \in 1 .. issued : owner[n] # t) =>
      /\ page[t] = Login
      /\ dialog[t] = NoTarget
      /\ authed[t] = NoSession
      /\ logoutTime[t] = 0
      /\ timer[t] = NoTimer

TabInv(t) ==
    /\ HasLength(t)
    /\ authed[t] # NoSession => timer[t] # NoTimer
    /\ authed[t] # NoSession /\ ~touched[t] => timer[t] <= jwtLeft[authed[t]]
    /\ page[t] = View => authed[t] # NoSession
    /\ Untouched(t)

WebInv ==
    /\ WebTypeOK
    /\ \A t \in Tabs : TabInv(t)
    /\ OwnToken

\* A function stays in its set when one value is replaced by another of the range.
LEMMA UpdateTyped ==
  ASSUME NEW D, NEW R, NEW f \in [D -> R], NEW x \in D, NEW v \in R
  PROVE  [f EXCEPT ![x] = v] \in [D -> R]
  OBVIOUS

-----------------------------------------------------------------------------
(* Routes *)

\* Wherever a navigation ends, a tab without a session is not let past the login
\* route, and one on the login route gets no dialog.
LEMMA NavigateGuarded ==
  ASSUME WebTypeOK, NEW t \in Tabs, NEW target \in Pages,
         Navigate(t, target) \/ Arrive(t, target)
  PROVE  /\ page' \in [Tabs -> Pages]
         /\ dirty' \in [Tabs -> BOOLEAN]
         /\ dialog' \in [Tabs -> Pages \cup {NoTarget}]
         /\ \A u \in Tabs : u # t => page'[u] = page[u] /\ dialog'[u] = dialog[u]
         /\ page'[t] = View => authed'[t] # NoSession
         /\ page[t] = Login /\ authed'[t] = NoSession =>
              page'[t] = Login /\ dialog'[t] = NoTarget
  <1> USE DEF Pages, Login, View, Edit, NoTarget
  <1>1. CASE Arrive(t, target)
    BY <1>1 DEF Arrive, WebTypeOK
  <1>2. CASE Navigate(t, target) /\ page[t] = Edit /\ dirty[t]
    BY <1>2 DEF Navigate, WebTypeOK
  <1>3. CASE Navigate(t, target) /\ ~(page[t] = Edit /\ dirty[t])
    BY <1>1, <1>3 DEF Navigate
  <1> QED BY <1>1, <1>2, <1>3

\* The length of a session is above zero and at most the life of its token.
LEMMA LengthBounded ==
  ASSUME NEW logout \in LogoutTimes
  PROVE  SessionLength(logout) \in 1 .. JwtTime
  BY WebAssumption DEF SessionLength, Smaller

-----------------------------------------------------------------------------
(* The initial state and each action *)

LEMMA InitInv == Init => WebInv
  BY WebAssumption
  DEF Init, WebInv, WebTypeOK, TabInv, HasLength, Untouched, OwnToken,
      NoSession, NoTimer, Login, View, Edit, Pages, NoTarget

\* Going, discarding, keeping and changing leave the session alone.
LEMMA PageInv ==
  ASSUME WebInv, NEW t \in Tabs,
         \/ \E target \in Links : Go(t, target)
         \/ Discard(t)
         \/ Keep(t)
         \/ \E changed \in BOOLEAN : Change(t, changed)
  PROVE  WebInv'
  <1>1. UNCHANGED <<issued, owner, jwtLeft, stored, authed, logoutTime, timer,
                    touched, pending>>
    BY DEF Go, Discard, Keep, Change, tokenVars
  <1>2. /\ page' \in [Tabs -> Pages]
        /\ dirty' \in [Tabs -> BOOLEAN]
        /\ dialog' \in [Tabs -> Pages \cup {NoTarget}]
        /\ \A u \in Tabs : u # t => page'[u] = page[u] /\ dialog'[u] = dialog[u]
        /\ page'[t] = View => authed[t] # NoSession
        /\ page[t] = Login /\ authed[t] = NoSession /\ dialog[t] = NoTarget =>
             page'[t] = Login /\ dialog'[t] = NoTarget
    <2>1. CASE \E target \in Links : Go(t, target)
      <3>1. Links \subseteq Pages
        BY WebAssumption DEF Pages, Login, View, Edit
      <3> QED BY <1>1, <2>1, <3>1, NavigateGuarded DEF Go, WebInv
    <2>2. CASE Discard(t)
      <3>1. dialog[t] \in Pages
        BY <2>2 DEF Discard, WebInv, WebTypeOK
      <3> QED BY <1>1, <2>2, <3>1, NavigateGuarded DEF Discard, WebInv
    <2>3. CASE Keep(t)
      BY <2>3 DEF Keep, WebInv, WebTypeOK, TabInv
    <2>4. CASE \E changed \in BOOLEAN : Change(t, changed)
      BY <2>4 DEF Change, WebInv, WebTypeOK, TabInv
    <2> QED BY <2>1, <2>2, <2>3, <2>4
  <1>3. WebTypeOK'
    BY <1>1, <1>2 DEF WebInv, WebTypeOK
  <1>4. ASSUME NEW u \in Tabs PROVE TabInv(u)'
    BY <1>1, <1>2 DEF WebInv, TabInv, HasLength, Untouched
  <1>5. OwnToken'
    BY <1>1 DEF WebInv, OwnToken
  <1> QED BY <1>3, <1>4, <1>5 DEF WebInv

LEMMA RequestInv ==
  ASSUME WebInv, NEW t \in Tabs, Send(t) \/ Refused(t)
  PROVE  WebInv'
  <1>1. UNCHANGED <<issued, owner, jwtLeft, stored, authed, logoutTime, timer,
                    touched, page, dirty, dialog>>
    BY DEF Send, Refused, tokenVars, pageVars
  <1>2. pending' \in [Tabs -> 0 .. MaxPending]
    <2>1. pending \in [Tabs -> 0 .. MaxPending] /\ pending[t] \in 0 .. MaxPending
      BY DEF WebInv, WebTypeOK
    <2>2. CASE Send(t)
      <3>1. pending[t] + 1 \in 0 .. MaxPending
        BY <2>1, <2>2, WebAssumption DEF Send
      <3> QED BY <2>1, <2>2, <3>1, UpdateTyped DEF Send
    <2>3. CASE Refused(t)
      <3>1. pending[t] - 1 \in 0 .. MaxPending
        BY <2>1, <2>3, WebAssumption DEF Refused
      <3> QED BY <2>1, <2>3, <3>1, UpdateTyped DEF Refused
    <2> QED BY <2>2, <2>3
  <1> QED BY <1>1, <1>2 DEF WebInv, WebTypeOK, TabInv, HasLength, Untouched, OwnToken

\* A tab that ends its session had a token, so that the removal of the stored one
\* cannot take it from the only tab that ever logged in.
LEMMA EndInv ==
  ASSUME WebInv, NEW t \in Tabs, Logout(t) \/ Timeout(t)
  PROVE  WebInv'
  <1>1. /\ UNCHANGED <<issued, owner, jwtLeft, pending>>
        /\ stored' = NoSession
        /\ authed' = [authed EXCEPT ![t] = NoSession]
        /\ logoutTime' = [logoutTime EXCEPT ![t] = 0]
        /\ touched' = [touched EXCEPT ![t] = FALSE]
        /\ timer' = timer \/ timer' = [timer EXCEPT ![t] = NoTimer]
        /\ Navigate(t, Login)
    BY DEF Logout, Timeout, EndSession, tokenVars
  <1>2. ~\A n \in 1 .. issued : owner[n] # t
    <2>1. page[t] # Login \/ timer[t] = 0
      BY DEF Logout, Timeout
    <2>2. 0 # NoTimer
      BY DEF NoTimer
    <2> QED BY <2>1, <2>2 DEF WebInv, TabInv, Untouched
  <1>3. /\ page' \in [Tabs -> Pages]
        /\ dirty' \in [Tabs -> BOOLEAN]
        /\ dialog' \in [Tabs -> Pages \cup {NoTarget}]
        /\ \A u \in Tabs : u # t => page'[u] = page[u] /\ dialog'[u] = dialog[u]
        /\ page'[t] = View => authed'[t] # NoSession
    BY <1>1, NavigateGuarded DEF WebInv, Pages
  <1>4. WebTypeOK'
    <2>1. NoSession \in 0 .. issued /\ 0 \in Nat
      BY WebAssumption DEF WebInv, WebTypeOK, NoSession
    <2>2. authed' \in [Tabs -> 0 .. issued] /\ stored' \in 0 .. issued
      BY <1>1, <2>1, UpdateTyped DEF WebInv, WebTypeOK
    <2>3. /\ logoutTime' \in [Tabs -> Nat]
          /\ timer' \in [Tabs -> Nat \cup {NoTimer}]
          /\ touched' \in [Tabs -> BOOLEAN]
      BY <1>1, <2>1, UpdateTyped DEF WebInv, WebTypeOK
    <2> QED BY <1>1, <1>3, <2>2, <2>3 DEF WebInv, WebTypeOK
  <1>5. ASSUME NEW u \in Tabs PROVE TabInv(u)'
    <2>1. CASE u = t
      BY <1>1, <1>2, <1>3, <2>1 DEF WebInv, WebTypeOK, TabInv, HasLength, Untouched
    <2>2. CASE u # t
      <3>1. /\ authed'[u] = authed[u]
            /\ logoutTime'[u] = logoutTime[u]
            /\ touched'[u] = touched[u]
            /\ timer'[u] = timer[u]
            /\ page'[u] = page[u]
            /\ dialog'[u] = dialog[u]
        BY <1>1, <1>3, <2>2 DEF WebInv, WebTypeOK
      <3> QED BY <1>1, <3>1 DEF WebInv, TabInv, HasLength, Untouched
    <2> QED BY <2>1, <2>2
  <1>6. OwnToken'
    <2>1. SUFFICES ASSUME NEW u \in Tabs, authed'[u] # NoSession,
                          \A n \in 1 .. issued : owner[n] = u
                   PROVE  FALSE
      BY <1>1 DEF OwnToken
    <2>2. u # t
      BY <1>1, <2>1 DEF WebInv, WebTypeOK
    <2> QED BY <1>2, <2>1, <2>2
  <1> QED BY <1>4, <1>5, <1>6 DEF WebInv

\* A session that was just opened has its length on the timer and the stored
\* token is its own.
LEMMA AcceptedInv ==
  ASSUME WebInv, NEW t \in Tabs, NEW logout \in LogoutTimes, Accepted(t, logout)
  PROVE  WebInv'
  <1> DEFINE n == issued + 1
             length == SessionLength(logout)
  <1>1. /\ n <= MaxLogins
        /\ issued' = n
        /\ owner' = [owner EXCEPT ![n] = t]
        /\ jwtLeft' = [jwtLeft EXCEPT ![n] = JwtTime]
        /\ stored' = n
        /\ authed' = [authed EXCEPT ![t] = n]
        /\ logoutTime' = [logoutTime EXCEPT ![t] = length]
        /\ timer' = [timer EXCEPT ![t] = length]
        /\ touched' = [touched EXCEPT ![t] = FALSE]
        /\ pending' = [pending EXCEPT ![t] = @ - 1]
        /\ pending[t] > 0
        /\ Navigate(t, View)
    BY DEF Accepted, LoggedIn
  <1>2. issued \in Nat /\ n \in 1 .. MaxLogins /\ n # NoSession
    BY <1>1, WebAssumption DEF WebInv, WebTypeOK, NoSession
  <1>3. length \in 1 .. JwtTime /\ JwtTime \in Nat \ {0}
    BY LengthBounded, WebAssumption
  <1>4. /\ page' \in [Tabs -> Pages]
        /\ dirty' \in [Tabs -> BOOLEAN]
        /\ dialog' \in [Tabs -> Pages \cup {NoTarget}]
        /\ \A u \in Tabs : u # t => page'[u] = page[u] /\ dialog'[u] = dialog[u]
    BY <1>1, NavigateGuarded DEF WebInv, Pages
  <1> HIDE DEF length
  <1>5. WebTypeOK'
    <2>1. /\ issued' \in 0 .. MaxLogins
          /\ stored' \in 0 .. issued'
          /\ jwtLeft' \in [1 .. MaxLogins -> 0 .. JwtTime]
          /\ owner' \in [1 .. MaxLogins -> Tabs \cup {NoTarget}]
      BY <1>1, <1>2, <1>3 DEF WebInv, WebTypeOK
    <2>2. authed' \in [Tabs -> 0 .. issued']
      BY <1>1, <1>2 DEF WebInv, WebTypeOK
    <2>3. /\ logoutTime' \in [Tabs -> Nat]
          /\ timer' \in [Tabs -> Nat \cup {NoTimer}]
          /\ touched' \in [Tabs -> BOOLEAN]
      BY <1>1, <1>3 DEF WebInv, WebTypeOK
    <2>4. pending' \in [Tabs -> 0 .. MaxPending]
      BY <1>1, WebAssumption DEF WebInv, WebTypeOK
    <2> QED BY <1>4, <2>1, <2>2, <2>3, <2>4 DEF WebTypeOK
  <1>6. ASSUME NEW u \in Tabs PROVE TabInv(u)'
    <2>1. CASE u = t
      <3>1. /\ authed'[u] = n
            /\ logoutTime'[u] = length
            /\ timer'[u] = length
            /\ jwtLeft'[n] = JwtTime
            /\ owner'[n] = t
            /\ n \in 1 .. issued'
        BY <1>1, <1>2, <2>1 DEF WebInv, WebTypeOK
      <3>2. length # 0 /\ length # NoTimer /\ length <= JwtTime
        BY <1>3 DEF NoTimer
      <3> QED BY <1>2, <2>1, <3>1, <3>2 DEF TabInv, HasLength, Untouched
    <2>2. CASE u # t
      <3>1. /\ authed'[u] = authed[u]
            /\ logoutTime'[u] = logoutTime[u]
            /\ touched'[u] = touched[u]
            /\ timer'[u] = timer[u]
            /\ page'[u] = page[u]
            /\ dialog'[u] = dialog[u]
        BY <1>1, <1>4, <2>2 DEF WebInv, WebTypeOK
      <3>2. authed[u] # NoSession => jwtLeft'[authed[u]] = jwtLeft[authed[u]]
        BY <1>1, <1>2 DEF WebInv, WebTypeOK, NoSession
      <3>3. \A k \in 1 .. issued : k \in 1 .. issued' /\ owner'[k] = owner[k]
        BY <1>1, <1>2 DEF WebInv, WebTypeOK
      <3> QED BY <3>1, <3>2, <3>3 DEF WebInv, TabInv, HasLength, Untouched
    <2> QED BY <2>1, <2>2
  <1>7. OwnToken'
    <2>1. SUFFICES ASSUME NEW u \in Tabs, \A k \in 1 .. issued' : owner'[k] = u
                   PROVE  stored' = authed'[u]
      BY DEF OwnToken
    <2>2. owner'[n] = t /\ n \in 1 .. issued'
      BY <1>1, <1>2 DEF WebInv, WebTypeOK
    <2>3. u = t
      BY <2>1, <2>2
    <2> QED BY <1>1, <2>3 DEF WebInv, WebTypeOK
  <1> QED BY <1>5, <1>6, <1>7 DEF WebInv

LEMMA ActivityInv ==
  ASSUME WebInv, NEW t \in Tabs, Activity(t)
  PROVE  WebInv'
  <1>1. /\ UNCHANGED <<issued, owner, jwtLeft, stored, authed, logoutTime, pending,
                       page, dirty, dialog>>
        /\ timer' = [timer EXCEPT ![t] =
                       IF logoutTime[t] = 0 THEN NoTimer ELSE logoutTime[t]]
        /\ touched' = [touched EXCEPT ![t] = authed[t] # NoSession]
    BY DEF Activity, tokenVars, pageVars
  <1>2. WebTypeOK'
    BY <1>1 DEF WebInv, WebTypeOK
  <1>3. ASSUME NEW u \in Tabs PROVE TabInv(u)'
    <2>1. CASE u = t
      <3>1. /\ timer'[u] = IF logoutTime[u] = 0 THEN NoTimer ELSE logoutTime[u]
            /\ touched'[u] = (authed[u] # NoSession)
            /\ logoutTime[u] \in Nat
        BY <1>1, <2>1 DEF WebInv, WebTypeOK
      <3>2. authed[u] # NoSession => timer'[u] # NoTimer
        BY <3>1 DEF WebInv, TabInv, HasLength, NoTimer
      <3> QED BY <1>1, <3>1, <3>2 DEF WebInv, TabInv, HasLength, Untouched
    <2>2. CASE u # t
      <3>1. timer'[u] = timer[u] /\ touched'[u] = touched[u]
        BY <1>1, <2>2 DEF WebInv, WebTypeOK
      <3> QED BY <1>1, <3>1 DEF WebInv, TabInv, HasLength, Untouched
    <2> QED BY <2>1, <2>2
  <1>4. OwnToken'
    BY <1>1 DEF WebInv, OwnToken
  <1> QED BY <1>2, <1>3, <1>4 DEF WebInv

\* The reload of a tab leaves the token of the others, and of its own last
\* session, in the storage.
LEMMA ReloadInv ==
  ASSUME WebInv, NEW t \in Tabs, Reload(t)
  PROVE  WebInv'
  <1>1. /\ UNCHANGED <<issued, owner, jwtLeft, stored>>
        /\ authed' = [authed EXCEPT ![t] = NoSession]
        /\ logoutTime' = [logoutTime EXCEPT ![t] = 0]
        /\ timer' = [timer EXCEPT ![t] = NoTimer]
        /\ touched' = [touched EXCEPT ![t] = FALSE]
        /\ pending' = [pending EXCEPT ![t] = 0]
        /\ Arrive(t, Login)
    BY DEF Reload, tokenVars
  <1>2. /\ page' \in [Tabs -> Pages]
        /\ dirty' \in [Tabs -> BOOLEAN]
        /\ dialog' \in [Tabs -> Pages \cup {NoTarget}]
        /\ \A u \in Tabs : u # t => page'[u] = page[u] /\ dialog'[u] = dialog[u]
    BY <1>1, NavigateGuarded DEF WebInv, Pages
  <1>3. page'[t] = Login /\ dialog'[t] = NoTarget
    BY <1>1 DEF Arrive, WebInv, WebTypeOK
  <1>4. WebTypeOK'
    <2>1. NoSession \in 0 .. issued /\ 0 \in Nat /\ 0 \in 0 .. MaxPending
      BY WebAssumption DEF WebInv, WebTypeOK, NoSession
    <2>2. authed' \in [Tabs -> 0 .. issued]
      BY <1>1, <2>1, UpdateTyped DEF WebInv, WebTypeOK
    <2>3. /\ logoutTime' \in [Tabs -> Nat]
          /\ timer' \in [Tabs -> Nat \cup {NoTimer}]
          /\ touched' \in [Tabs -> BOOLEAN]
          /\ pending' \in [Tabs -> 0 .. MaxPending]
      BY <1>1, <2>1, UpdateTyped DEF WebInv, WebTypeOK
    <2> QED BY <1>1, <1>2, <2>2, <2>3 DEF WebInv, WebTypeOK
  <1>5. ASSUME NEW u \in Tabs PROVE TabInv(u)'
    <2>1. CASE u = t
      <3>1. authed'[u] = NoSession /\ logoutTime'[u] = 0 /\ timer'[u] = NoTimer
        BY <1>1, <2>1 DEF WebInv, WebTypeOK
      <3> QED BY <1>3, <2>1, <3>1 DEF TabInv, HasLength, Untouched, Login, View
    <2>2. CASE u # t
      <3>1. /\ authed'[u] = authed[u]
            /\ logoutTime'[u] = logoutTime[u]
            /\ touched'[u] = touched[u]
            /\ timer'[u] = timer[u]
            /\ page'[u] = page[u]
            /\ dialog'[u] = dialog[u]
        BY <1>1, <1>2, <2>2 DEF WebInv, WebTypeOK
      <3> QED BY <1>1, <3>1 DEF WebInv, TabInv, HasLength, Untouched
    <2> QED BY <2>1, <2>2
  <1>6. OwnToken'
    BY <1>1 DEF WebInv, WebTypeOK, OwnToken
  <1> QED BY <1>4, <1>5, <1>6 DEF WebInv

\* A second takes one off a timer above zero and off the life of its token, and
\* never stops a timer.
LEMMA TickInv ==
  ASSUME WebInv, Tick
  PROVE  WebInv'
  <1>1. /\ UNCHANGED <<issued, owner, stored, authed, logoutTime, touched, pending,
                       page, dirty, dialog>>
        /\ jwtLeft' = [n \in 1 .. MaxLogins |->
                         IF jwtLeft[n] > 0 THEN jwtLeft[n] - 1 ELSE 0]
        /\ timer' = [t \in Tabs |-> IF timer[t] > 0 THEN timer[t] - 1 ELSE timer[t]]
    BY DEF Tick, pageVars
  <1>2. jwtLeft' \in [1 .. MaxLogins -> 0 .. JwtTime]
    BY <1>1, WebAssumption DEF WebInv, WebTypeOK
  <1>3. timer' \in [Tabs -> Nat \cup {NoTimer}]
    BY <1>1 DEF WebInv, WebTypeOK, NoTimer
  <1>4. WebTypeOK'
    BY <1>1, <1>2, <1>3 DEF WebInv, WebTypeOK
  <1>5. ASSUME NEW u \in Tabs PROVE TabInv(u)'
    <2>1. /\ timer[u] \in Nat \cup {NoTimer}
          /\ timer'[u] = IF timer[u] > 0 THEN timer[u] - 1 ELSE timer[u]
      BY <1>1 DEF WebInv, WebTypeOK
    <2>2. timer'[u] = NoTimer <=> timer[u] = NoTimer
      BY <2>1 DEF NoTimer
    <2>3. ASSUME authed[u] # NoSession, timer[u] # NoTimer,
                 timer[u] <= jwtLeft[authed[u]]
          PROVE  timer'[u] <= jwtLeft'[authed[u]]
      <3>1. authed[u] \in 1 .. MaxLogins
        <4>1. authed[u] \in 0 .. issued /\ issued \in 0 .. MaxLogins
          BY DEF WebInv, WebTypeOK
        <4> QED BY <2>3, <4>1, WebAssumption DEF NoSession
      <3>2. /\ jwtLeft[authed[u]] \in Nat
            /\ jwtLeft'[authed[u]] =
                 IF jwtLeft[authed[u]] > 0 THEN jwtLeft[authed[u]] - 1 ELSE 0
        BY <1>1, <3>1, WebAssumption DEF WebInv, WebTypeOK
      <3> QED BY <2>1, <2>3, <3>2
    <2> QED BY <1>1, <2>2, <2>3 DEF WebInv, TabInv, HasLength, Untouched
  <1>6. OwnToken'
    BY <1>1 DEF WebInv, OwnToken
  <1> QED BY <1>4, <1>5, <1>6 DEF WebInv

LEMMA StutterInv ==
  ASSUME WebInv, UNCHANGED sessionVars
  PROVE  WebInv'
  BY DEF sessionVars, WebInv, WebTypeOK, TabInv, HasLength, Untouched, OwnToken

\* WebInv holds throughout.
LEMMA SpecInv == Spec => []WebInv
  <1>1. WebInv /\ [Next]_sessionVars => WebInv'
    BY PageInv, RequestInv, EndInv, AcceptedInv, ActivityInv, ReloadInv, TickInv,
       StutterInv
    DEF Next, Move
  <1> QED BY InitInv, <1>1, PTL DEF Spec

-----------------------------------------------------------------------------
(* The theorems *)

\* The variables keep their types.
THEOREM WebTypes == Spec => []WebTypeOK
  BY SpecInv, PTL DEF WebInv

\* A session is never without a timeout that ends it (SessionTimerService).
THEOREM SessionTimed == Spec => []SessionHasTimer
  <1>1. WebInv => SessionHasTimer
    BY DEF WebInv, TabInv, SessionHasTimer
  <1> QED BY SpecInv, <1>1, PTL

\* The timeout of an idle session is due no later than its JWT expires
\* (logoutTimeSeconds), in as many tabs as the user opens.
THEOREM IdleOutlived == Spec => []IdleEndsBeforeJwt
  <1>1. WebInv => IdleEndsBeforeJwt
    BY DEF WebInv, TabInv, IdleEndsBeforeJwt
  <1> QED BY SpecInv, <1>1, PTL

\* A user who logs in from one tab only sends the token of the session he sees,
\* however many tabs are open.
THEOREM TokenOfSession == Spec => []OwnToken
  BY SpecInv, PTL DEF WebInv

\* Nobody without a session sees a guarded route that has no unsaved changes
\* (AuthGuard).
THEOREM ViewsGuarded == Spec => []ViewNeedsSession
  <1>1. WebInv => ViewNeedsSession
    BY DEF WebInv, TabInv, ViewNeedsSession
  <1> QED BY SpecInv, <1>1, PTL

-----------------------------------------------------------------------------
(* The login component implements the session *)

LEMMA LoginStepImplements == [LoginNext]_loginVars => [Next]_sessionVars
  <1> SUFFICES ASSUME [LoginNext]_loginVars PROVE [Next]_sessionVars
    OBVIOUS
  <1>1. Tab \in Tabs
    BY LoginAssumption
  <1>2. ASSUME Send(Tab) \/ Refused(Tab) \/ Reload(Tab) \/ Move(Tab) \/ Tick
        PROVE  Next
    BY <1>1, <1>2 DEF Next
  <1>3. CASE Submit \/ WebAuthnLogin \/ PasskeyLogin
    BY <1>2, <1>3 DEF Submit, WebAuthnLogin, PasskeyLogin, Request
  <1>4. CASE ResetLogin
    BY <1>4 DEF ResetLogin
  <1>5. ASSUME NEW i \in Insts, PollTick(i) \/ PollNotYet(i) \/ PollEnds(i)
        PROVE  UNCHANGED sessionVars
    BY <1>5 DEF PollTick, PollNotYet, PollEnds
  <1>6. ASSUME NEW i \in Insts, PollSuccess(i)
        PROVE  Next
    BY <1>2, <1>6 DEF PollSuccess, Request
  <1>7. ASSUME NEW r \in reqs, NEW logout \in LogoutTimes, SessionAnswer(r, logout)
        PROVE  Next
    BY <1>1, <1>7 DEF SessionAnswer, Next
  <1>8. ASSUME NEW r \in reqs, NEW push \in BOOLEAN, NEW webauthn \in BOOLEAN,
               ChallengeAnswer(r, push, webauthn)
        PROVE  Next
    BY <1>2, <1>8 DEF ChallengeAnswer
  <1>9. ASSUME NEW r \in reqs, UnlistedAnswer(r) \/ RefusalAnswer(r)
        PROVE  Next
    BY <1>2, <1>9 DEF UnlistedAnswer, RefusalAnswer
  <1>10. ASSUME NEW tx, Confirm(tx)
         PROVE  UNCHANGED sessionVars
    BY <1>10 DEF Confirm
  <1>11. CASE Moves \/ LoginReload
    BY <1>2, <1>11 DEF Moves, LoginReload
  <1>12. CASE UNCHANGED loginVars
    BY <1>12 DEF loginVars
  <1> QED BY <1>3, <1>4, <1>5, <1>6, <1>7, <1>8, <1>9, <1>10, <1>11, <1>12 DEF LoginNext

\* LoginComponent and the push polling do to the session nothing AuthService and
\* the guards would not do on their own: every step of theirs is one of WebSession
\* or leaves the session alone, so nothing but an accepted answer opens one.
THEOREM LoginImplementsSession == LoginSpec => ImplementsSession
  <1>1. LoginInit => Init
    BY DEF LoginInit
  <1> QED BY <1>1, LoginStepImplements, PTL DEF LoginSpec, Spec, ImplementsSession

\* What holds of the session holds with the login component: no session without a
\* timer, none that idles beyond its JWT, no foreign token, no unguarded view.
THEOREM LoginKeepsSession ==
  LoginSpec => [](SessionHasTimer /\ IdleEndsBeforeJwt /\ OwnToken /\ ViewNeedsSession)
  BY LoginImplementsSession, SessionTimed, IdleOutlived, TokenOfSession, ViewsGuarded, PTL
  DEF ImplementsSession

-----------------------------------------------------------------------------
(* The login component *)

\* The fields of a component while n transactions were opened.
Component(n) ==
  [tx : 0 .. n, otp : BOOLEAN, push : BOOLEAN, sign : 0 .. n,
   poll : BOOLEAN, polled : {NoPoll} \cup (0 .. n), unlisted : BOOLEAN]

\* An instance polls for a transaction only, and asks for an OTP value for one
\* unless its field opened without a list of challenges and a transaction.
ComponentOK(c, n) ==
  /\ c \in Component(n)
  /\ c.poll => c.tx # NoTx
  /\ c.otp /\ ~c.unlisted => c.tx # NoTx

\* The instances not created yet are fresh; a request has a slot of its own.
LoginInv ==
  /\ lastTx \in Nat
  /\ inst \in Insts
  /\ comp = [i \in Insts |-> comp[i]]
  /\ \A i \in Insts : ComponentOK(comp[i], lastTx)
  /\ \A i \in Insts : i > inst => comp[i] = Fresh
  /\ IsFiniteSet(reqs)
  /\ reqs \subseteq [slot : 1 .. MaxPending, inst : 1 .. inst, tx : 0 .. lastTx,
                     ctx : {"password", "webauthn", "passkey"}]
  /\ pending[Tab] = Cardinality(reqs)
  /\ confirmed \subseteq pushTx

LEMMA FreshOK == \A n \in Nat : ComponentOK(Fresh, n)
  BY DEF Fresh, ComponentOK, Component, NoTx, NoPoll

\* stopPolling keeps the transaction.
LEMMA StopPollingOK ==
  ASSUME NEW n \in Nat, NEW c, ComponentOK(c, n)
  PROVE  /\ ComponentOK(StopPolling(c), n) /\ StopPolling(c).tx = c.tx
         /\ ~StopPolling(c).poll /\ (StopPolling(c).otp <=> c.otp)
  BY DEF StopPolling, ComponentOK, Component, NoPoll

\* resetChallengeState is right for an instance without the OTP field, or takes
\* the field away.
LEMMA ResetChallengeOK ==
  ASSUME NEW n \in Nat, NEW c, ComponentOK(c, n)
  PROVE  /\ ~c.otp => ComponentOK(ResetChallenge(c), n)
         /\ ComponentOK(CloseField(ResetChallenge(c)), n)
         /\ ResetChallenge(c).tx = NoTx
  <1> DEFINE d == StopPolling(c)
             e == [d EXCEPT !.push = FALSE, !.sign = NoTx, !.tx = NoTx]
  <1>1. d \in Component(n) /\ ~d.poll /\ (d.otp <=> c.otp)
    BY StopPollingOK DEF ComponentOK
  <1>2. ResetChallenge(c) = e
    BY DEF ResetChallenge
  <1> HIDE DEF d
  <1>3. e \in Component(n) /\ e.tx = NoTx /\ ~e.poll /\ (e.otp <=> c.otp)
    <2> DEFINE f == [d EXCEPT !.push = FALSE]
    <2>1. f \in Component(n) /\ ~f.poll /\ (f.otp <=> d.otp)
      BY <1>1 DEF Component
    <2> DEFINE g == [f EXCEPT !.sign = NoTx]
    <2>2. e = [g EXCEPT !.tx = NoTx]
      OBVIOUS
    <2> HIDE DEF f, e
    <2>3. g \in Component(n) /\ ~g.poll /\ (g.otp <=> f.otp)
      BY <2>1 DEF Component, NoTx
    <2> HIDE DEF g
    <2>4. e \in Component(n) /\ e.tx = NoTx
      BY <2>2, <2>3 DEF Component, NoTx
    <2>5. ~e.poll /\ (e.otp <=> g.otp)
      BY <2>2, <2>3 DEF Component
    <2> QED BY <1>1, <2>1, <2>3, <2>4, <2>5
  <1> HIDE DEF e
  <1>4. CloseField(e) \in Component(n) /\ ~CloseField(e).poll /\ ~CloseField(e).otp
    BY <1>3 DEF Component, CloseField
  <1> QED BY <1>2, <1>3, <1>4 DEF ComponentOK

\* A challenge names its transaction.
LEMMA ChallengedOK ==
  ASSUME NEW n \in Nat, NEW c, ComponentOK(c, n), NEW ctx,
         NEW push \in BOOLEAN, NEW webauthn \in BOOLEAN
  PROVE  ComponentOK(Challenged(c, ctx, n + 1, push, webauthn), n + 1)
  <1> DEFINE tx == n + 1
             sign == IF webauthn THEN tx ELSE c.sign
             poll == push \/ c.poll
             polled == IF push THEN NoPoll ELSE c.polled
             otp == c.otp \/ ctx = "password"
             d == [c EXCEPT !.tx = tx, !.push = push, !.sign = sign, !.poll = poll,
                            !.polled = polled, !.otp = otp, !.unlisted = FALSE]
  <1>1. 0 .. n \subseteq 0 .. n + 1 /\ tx \in 0 .. n + 1 /\ tx # NoTx
    BY DEF NoTx
  <1>2. c \in Component(n + 1)
    BY <1>1 DEF ComponentOK, Component
  <1>3. sign \in 0 .. n + 1 /\ polled \in {NoPoll} \cup 0 .. n + 1
    BY <1>1, <1>2 DEF Component
  <1>4. poll \in BOOLEAN /\ otp \in BOOLEAN
    OBVIOUS
  <1>5. Challenged(c, ctx, tx, push, webauthn) = d
    BY DEF Challenged
  <1> HIDE DEF tx, sign, poll, polled, otp
  <1>6. d \in Component(n + 1) /\ d.tx = tx
    BY <1>1, <1>2, <1>3, <1>4 DEF Component
  <1> HIDE DEF d
  <1>7. ComponentOK(d, n + 1)
    BY <1>1, <1>6 DEF ComponentOK
  <1> QED BY <1>5, <1>7 DEF tx

\* A challenge that is not listed leaves the transaction and opens the OTP field.
LEMMA UnlistedOK ==
  ASSUME NEW n \in Nat, NEW c, ComponentOK(c, n), NEW ctx
  PROVE  ComponentOK(ChallengedUnlisted(c, ctx), n)
  <1> DEFINE bare == c.unlisted \/ (~c.otp /\ c.tx = NoTx)
             d    == [c EXCEPT !.otp = TRUE, !.unlisted = bare]
  <1>1. /\ c \in Component(n) /\ bare \in BOOLEAN /\ (~bare => c.tx # NoTx)
        /\ (c.poll => c.tx # NoTx)
    BY DEF ComponentOK, Component
  <1> HIDE DEF bare
  <1>2. d \in Component(n) /\ d.tx = c.tx /\ (d.poll <=> c.poll) /\ (d.unlisted <=> bare)
    BY <1>1 DEF Component
  <1> HIDE DEF d
  <1>3. ComponentOK(d, n)
    BY <1>1, <1>2 DEF ComponentOK
  <1> QED BY <1>3 DEF ChallengedUnlisted, d, bare

LEMMA MoreTransactions ==
  ASSUME NEW n \in Nat, NEW c, ComponentOK(c, n)
  PROVE  ComponentOK(c, n + 1)
  <1>1. 0 .. n \subseteq 0 .. n + 1
    OBVIOUS
  <1> QED BY <1>1 DEF ComponentOK, Component

LEMMA LoginInitInv == LoginInit => LoginInv
  <1> SUFFICES ASSUME LoginInit PROVE LoginInv
    OBVIOUS
  <1>1. Cardinality({}) = 0 /\ IsFiniteSet({})
    BY FS_EmptySet
  <1>2. ComponentOK(Fresh, 0)
    BY FreshOK
  <1>3. 1 \in Insts /\ pending[Tab] = 0
    BY LoginAssumption DEF LoginInit, Init, Insts
  <1> QED BY <1>1, <1>2, <1>3 DEF LoginInit, LoginInv

\* A step that sends nothing and takes no answer, after which the components are
\* right, keeps the invariant.
LEMMA QuietKept ==
  ASSUME LoginInv, UNCHANGED <<reqs, serverVars>>, pending'[Tab] = pending[Tab],
         inst' \in Insts, inst <= inst', inst \in Nat, inst' \in Nat,
         comp' = [i \in Insts |-> comp'[i]],
         \A i \in Insts : ComponentOK(comp'[i], lastTx),
         \A i \in Insts : i > inst' => comp'[i] = Fresh
  PROVE  LoginInv'
  <1>1. reqs \subseteq [slot : 1 .. MaxPending, inst : 1 .. inst', tx : 0 .. lastTx,
                        ctx : {"password", "webauthn", "passkey"}]
    <2>1. 1 .. inst \subseteq 1 .. inst'
      OBVIOUS
    <2> QED BY <2>1 DEF LoginInv
  <1> QED BY <1>1 DEF LoginInv, serverVars

\* Entering and leaving the route creates a fresh instance, or stops the polling.
LEMMA LifecycleOK ==
  ASSUME LoginInv, NEW after, Lifecycle(after),
         after = [i \in Insts |-> after[i]],
         \A i \in Insts : ComponentOK(after[i], lastTx),
         \A i \in Insts : i > inst => after[i] = Fresh
  PROVE  /\ inst \in Nat /\ inst' \in Nat /\ inst' \in Insts /\ inst <= inst'
         /\ comp' = [i \in Insts |-> comp'[i]]
         /\ \A i \in Insts : ComponentOK(comp'[i], lastTx)
         /\ \A i \in Insts : i > inst' => comp'[i] = Fresh
  <1>1. inst \in Insts /\ inst \in Nat /\ lastTx \in Nat /\ MaxInst \in Nat
    BY LoginAssumption DEF LoginInv, Insts
  <1>2. CASE Shown /\ page'[Tab] # Login
    <2>1. comp' = [after EXCEPT ![inst] = StopPolling(@)] /\ inst' = inst
      BY <1>2 DEF Lifecycle
    <2>2. ComponentOK(StopPolling(after[inst]), lastTx)
      BY <1>1, StopPollingOK
    <2>3. \A i \in Insts : comp'[i] = IF i = inst THEN StopPolling(after[inst]) ELSE after[i]
      BY <2>1
    <2> QED BY <1>1, <2>1, <2>2, <2>3 DEF Insts
  <1>3. CASE ~Shown /\ page'[Tab] = Login
    <2>1. inst < MaxInst /\ comp' = after /\ inst' = inst + 1
      BY <1>3 DEF Lifecycle
    <2>2. inst' \in Insts
      BY <1>1, <2>1 DEF Insts
    <2> QED BY <1>1, <2>1, <2>2 DEF Insts
  <1>4. CASE ~(Shown /\ page'[Tab] # Login) /\ ~(~Shown /\ page'[Tab] = Login)
    BY <1>1, <1>4 DEF Lifecycle
  <1> QED BY <1>2, <1>3, <1>4

\* A new request takes a free slot and is counted.
LEMMA RequestKept ==
  ASSUME LoginInv, pending \in [Tabs -> Nat], NEW i \in 1 .. inst,
         NEW ctx \in {"password", "webauthn", "passkey"}, NEW tx \in 0 .. lastTx,
         NEW slots \in SUBSET (1 .. MaxPending), Request(i, ctx, tx, slots),
         UNCHANGED <<inst, serverVars>>,
         comp' = [j \in Insts |-> comp'[j]],
         \A j \in Insts : ComponentOK(comp'[j], lastTx),
         \A j \in Insts : j > inst => comp'[j] = Fresh
  PROVE  LoginInv'
  <1>1. PICK n \in slots \ {r.slot : r \in reqs} :
           reqs' = reqs \cup {[slot |-> n, inst |-> i, ctx |-> ctx, tx |-> tx]}
    BY DEF Request
  <1>2. [slot |-> n, inst |-> i, ctx |-> ctx, tx |-> tx] \notin reqs
    BY <1>1
  <1>3. pending'[Tab] = pending[Tab] + 1
    BY LoginAssumption DEF Request, Send
  <1>4. IsFiniteSet(reqs') /\ Cardinality(reqs') = Cardinality(reqs) + 1
    BY <1>1, <1>2, FS_AddElement DEF LoginInv
  <1>5. reqs' \subseteq [slot : 1 .. MaxPending, inst : 1 .. inst, tx : 0 .. lastTx,
                         ctx : {"password", "webauthn", "passkey"}]
    BY <1>1 DEF LoginInv
  <1> QED BY <1>3, <1>4, <1>5 DEF LoginInv, serverVars

\* An answer takes its request away.
LEMMA AnswerCounted ==
  ASSUME LoginInv, pending \in [Tabs -> Nat], NEW r \in reqs, reqs' = reqs \ {r},
         pending' = [pending EXCEPT ![Tab] = @ - 1]
  PROVE  IsFiniteSet(reqs') /\ pending'[Tab] = Cardinality(reqs') /\ reqs' \subseteq reqs
  <1>1. IsFiniteSet(reqs') /\ Cardinality(reqs') = Cardinality(reqs) - 1
    BY FS_RemoveElement DEF LoginInv
  <1>2. pending'[Tab] = pending[Tab] - 1
    BY LoginAssumption
  <1> QED BY <1>1, <1>2 DEF LoginInv

\* One component changes: all are right when the new value is.
LEMMA OneChanged ==
  ASSUME inst \in Nat, 1 .. inst \subseteq Insts, NEW n, NEW f, NEW i \in 1 .. inst, NEW c,
         comp = [j \in Insts |-> comp[j]],
         f = [comp EXCEPT ![i] = c], ComponentOK(c, n),
         \A j \in Insts : ComponentOK(comp[j], n),
         \A j \in Insts : j > inst => comp[j] = Fresh
  PROVE  /\ f = [j \in Insts |-> f[j]]
         /\ \A j \in Insts : ComponentOK(f[j], n)
         /\ \A j \in Insts : j > inst => f[j] = Fresh
         /\ f[i] = c
  <1>1. f = [j \in Insts |-> IF j = i THEN c ELSE comp[j]] /\ i \in Insts
    OBVIOUS
  <1>2. \A j \in Insts : f[j] = IF j = i THEN c ELSE comp[j]
    BY <1>1
  <1>3. f = [j \in Insts |-> f[j]]
    BY <1>1, <1>2
  <1>4. ASSUME NEW j \in Insts PROVE ComponentOK(f[j], n)
    <2>1. CASE j = i
      BY <1>2, <2>1
    <2>2. CASE j # i
      BY <1>2, <2>2
    <2> QED BY <2>1, <2>2
  <1>5. ASSUME NEW j \in Insts, j > inst PROVE f[j] = Fresh
    <2>1. j # i
      BY <1>5 DEF Insts
    <2> QED BY <1>2, <1>5, <2>1
  <1> QED BY <1>1, <1>2, <1>3, <1>4, <1>5

\* Closing the OTP field is always right.
LEMMA FieldClosedOK ==
  ASSUME NEW n \in Nat, NEW c, ComponentOK(c, n)
  PROVE  ComponentOK(CloseField(c), n)
  <1> DEFINE d == CloseField(c)
  <1>1. c \in Component(n)
    BY DEF ComponentOK
  <1>2. d \in Component(n) /\ d.tx = c.tx /\ (d.poll <=> c.poll) /\ ~d.otp
    BY <1>1 DEF Component, CloseField
  <1> HIDE DEF d
  <1>3. ComponentOK(d, n)
    BY <1>2 DEF ComponentOK
  <1> QED BY <1>3 DEF d

LEMMA LoginNextInv ==
  LoginInv /\ WebTypeOK /\ [LoginNext]_loginVars => LoginInv'
  <1> SUFFICES ASSUME LoginInv, WebTypeOK, [LoginNext]_loginVars PROVE LoginInv'
    OBVIOUS
  <1>1. /\ Tab \in Tabs /\ MaxInst \in Nat /\ MaxUser \in Nat /\ MaxPending \in Nat
        /\ MaxUser + MaxInst <= MaxPending /\ pending \in [Tabs -> Nat]
    BY LoginAssumption, WebAssumption DEF WebTypeOK
  <1>2. /\ lastTx \in Nat /\ inst \in Insts /\ inst \in Nat /\ 1 .. inst \subseteq Insts
        /\ comp = [i \in Insts |-> comp[i]]
        /\ \A i \in Insts : ComponentOK(comp[i], lastTx) /\ (i > inst => comp[i] = Fresh)
    BY <1>1 DEF LoginInv, Insts
  <1>3. \A i \in Insts : comp[i].tx \in 0 .. lastTx
    BY <1>2 DEF ComponentOK, Component
  <1>4. UserSlots \subseteq 1 .. MaxPending /\ \A i \in Insts : {PollSlot(i)} \subseteq 1 .. MaxPending
    BY <1>1 DEF UserSlots, PollSlot, Insts
  \* One component changes, and stays right.
  <1>5. ASSUME NEW i \in 1 .. inst, NEW c, comp' = [comp EXCEPT ![i] = c],
               ComponentOK(c, lastTx)
        PROVE  /\ comp' = [j \in Insts |-> comp'[j]]
               /\ \A j \in Insts : ComponentOK(comp'[j], lastTx)
               /\ \A j \in Insts : j > inst => comp'[j] = Fresh
               /\ comp'[i] = c
    <2>1. \A j \in Insts : ComponentOK(comp[j], lastTx)
      BY <1>2
    <2>2. \A j \in Insts : j > inst => comp[j] = Fresh
      BY <1>2
    <2> QED BY <1>2, <1>5, <2>1, <2>2, OneChanged
  <1>6. inst \in 1 .. inst
    BY <1>1, <1>2 DEF Insts
  <1>7. CASE Submit
    <2>1. PICK c : /\ comp' = [comp EXCEPT ![inst] = c] /\ ComponentOK(c, lastTx)
                   /\ c.tx \in 0 .. lastTx
      <3> DEFINE d == comp[inst]
      <3>1. comp' = [comp EXCEPT ![inst] = IF d.otp THEN StopPolling(d) ELSE ResetChallenge(d)]
        BY <1>7, <1>2 DEF Submit
      <3>2. ComponentOK(d, lastTx) /\ d.tx \in 0 .. lastTx
        BY <1>2, <1>3
      <3> HIDE DEF d
      <3>3. CASE d.otp
        BY <1>2, <3>1, <3>2, <3>3, StopPollingOK
      <3>4. CASE ~d.otp
        <4>1. ComponentOK(ResetChallenge(d), lastTx) /\ ResetChallenge(d).tx = NoTx
          BY <1>2, <3>2, <3>4, ResetChallengeOK
        <4>2. NoTx \in 0 .. lastTx
          BY <1>2 DEF NoTx
        <4> QED BY <3>1, <3>4, <4>1, <4>2
      <3> QED BY <3>3, <3>4
    <2>2. comp'[inst] = c /\ comp'[inst].tx \in 0 .. lastTx
      BY <1>5, <1>6, <2>1
    <2>3. Request(inst, "password", comp'[inst].tx, UserSlots) /\ UNCHANGED <<inst, serverVars>>
      BY <1>7 DEF Submit
    <2> QED BY <1>1, <1>4, <1>5, <1>6, <2>1, <2>2, <2>3, RequestKept
  <1>8. CASE WebAuthnLogin \/ PasskeyLogin
    <2>1. PICK ctx \in {"password", "webauthn", "passkey"}, tx \in 0 .. lastTx :
             Request(inst, ctx, tx, UserSlots)
      BY <1>2, <1>3, <1>8 DEF WebAuthnLogin, PasskeyLogin, NoTx
    <2>2. UNCHANGED <<inst, comp, serverVars>>
      BY <1>8 DEF WebAuthnLogin, PasskeyLogin
    <2> QED BY <1>1, <1>2, <1>4, <1>6, <2>1, <2>2, RequestKept
  \* Nothing is sent or answered, and one component changes.
  <1>9. ASSUME NEW i \in 1 .. inst, NEW c, comp' = [comp EXCEPT ![i] = c],
               ComponentOK(c, lastTx), UNCHANGED <<sessionVars, inst, reqs, serverVars>>
        PROVE  LoginInv'
    <2>1. pending'[Tab] = pending[Tab] /\ UNCHANGED <<inst, reqs, serverVars>>
      BY <1>9 DEF sessionVars
    <2> QED BY <1>2, <1>5, <1>9, <2>1, QuietKept
  <1>10. CASE ResetLogin
    <2>1. ComponentOK(CloseField(ResetChallenge(comp[inst])), lastTx)
      BY <1>2, ResetChallengeOK
    <2> QED BY <1>6, <1>9, <1>10, <2>1 DEF ResetLogin
  \* An instance that polls was created.
  <1>11. ASSUME NEW i \in Insts, comp[i].poll \/ comp[i].polled # NoPoll PROVE i \in 1 .. inst
    <2>1. ~(i > inst)
      BY <1>2, <1>11 DEF Fresh
    <2> QED BY <1>1, <1>2, <2>1 DEF Insts
  <1>12. ASSUME NEW i \in Insts, PollTick(i) \/ PollNotYet(i)
         PROVE  LoginInv'
    <2>1. i \in 1 .. inst
      BY <1>11, <1>12 DEF PollTick, PollNotYet
    <2>2. PICK tx \in {NoPoll} \cup (0 .. lastTx) : comp' = [comp EXCEPT ![i].polled = tx]
      BY <1>3, <1>12 DEF PollTick, PollNotYet
    <2>3. ComponentOK([comp[i] EXCEPT !.polled = tx], lastTx)
      BY <1>2 DEF ComponentOK, Component
    <2>4. comp' = [comp EXCEPT ![i] = [comp[i] EXCEPT !.polled = tx]]
      BY <1>2, <2>2
    <2>5. UNCHANGED <<sessionVars, inst, reqs, serverVars>>
      BY <1>12 DEF PollTick, PollNotYet
    <2> HIDE DEF ComponentOK
    <2> QED BY <1>9, <2>1, <2>3, <2>4, <2>5
  <1>13. ASSUME NEW i \in Insts, PollEnds(i)
         PROVE  LoginInv'
    <2>1. i \in 1 .. inst
      BY <1>11, <1>13 DEF PollEnds
    <2>2. ComponentOK(StopPolling(comp[i]), lastTx)
      BY <1>2, StopPollingOK
    <2>3. comp' = [comp EXCEPT ![i] = StopPolling(comp[i])]
      BY <1>13 DEF PollEnds
    <2>4. UNCHANGED <<sessionVars, inst, reqs, serverVars>>
      BY <1>13 DEF PollEnds
    <2> QED BY <1>9, <2>1, <2>2, <2>3, <2>4
  <1>14. ASSUME NEW i \in Insts, PollSuccess(i)
         PROVE  LoginInv'
    <2>1. i \in 1 .. inst
      BY <1>11, <1>14 DEF PollSuccess
    <2>2. ComponentOK(StopPolling(comp[i]), lastTx)
      BY <1>2, StopPollingOK
    <2>3. comp' = [comp EXCEPT ![i] = StopPolling(comp[i])]
      BY <1>14 DEF PollSuccess
    <2>4. Request(i, "password", comp[i].tx, {PollSlot(i)}) /\ UNCHANGED <<inst, serverVars>>
      BY <1>14 DEF PollSuccess
    <2>5. /\ comp' = [j \in Insts |-> comp'[j]]
          /\ \A j \in Insts : ComponentOK(comp'[j], lastTx)
          /\ \A j \in Insts : j > inst => comp'[j] = Fresh
      BY <1>5, <2>1, <2>2, <2>3
    <2>6. comp[i].tx \in 0 .. lastTx /\ {PollSlot(i)} \in SUBSET (1 .. MaxPending)
      BY <1>3, <1>4
    <2>7. "password" \in {"password", "webauthn", "passkey"}
      OBVIOUS
    <2> QED BY <1>1, <2>1, <2>4, <2>5, <2>6, <2>7, RequestKept
  <1>15. ASSUME NEW r \in reqs PROVE r.inst \in 1 .. inst /\ r.inst \in Insts
    BY <1>2 DEF LoginInv
  <1>16. ASSUME NEW r \in reqs, NEW logout \in LogoutTimes, SessionAnswer(r, logout)
         PROVE  LoginInv'
    <2> DEFINE after == [comp EXCEPT ![r.inst] = CloseField(@)]
    <2>1. /\ after = [i \in Insts |-> after[i]]
          /\ \A i \in Insts : ComponentOK(after[i], lastTx)
          /\ \A i \in Insts : i > inst => after[i] = Fresh
      <3> DEFINE c == CloseField(comp[r.inst])
      <3>1. ComponentOK(comp[r.inst], lastTx)
        BY <1>2, <1>15
      <3>2. ComponentOK(c, lastTx)
        BY <1>2, <3>1, FieldClosedOK
      <3>3. after = [comp EXCEPT ![r.inst] = c]
        BY <1>2, <1>15
      <3>4. \A j \in Insts : ComponentOK(comp[j], lastTx)
        BY <1>2
      <3>5. \A j \in Insts : j > inst => comp[j] = Fresh
        BY <1>2
      <3> HIDE DEF after, c
      <3> QED BY <1>2, <1>15, <3>2, <3>3, <3>4, <3>5, OneChanged
    <2>2. Lifecycle(after) /\ reqs' = reqs \ {r} /\ UNCHANGED <<lastTx, pushTx, confirmed>>
      BY <1>16 DEF SessionAnswer
    <2>3. pending' = [pending EXCEPT ![Tab] = @ - 1]
      BY <1>16 DEF SessionAnswer, Accepted
    <2> HIDE DEF after
    <2>4. /\ inst' \in Nat /\ inst' \in Insts /\ inst <= inst'
          /\ comp' = [i \in Insts |-> comp'[i]]
          /\ \A i \in Insts : ComponentOK(comp'[i], lastTx)
          /\ \A i \in Insts : i > inst' => comp'[i] = Fresh
      BY <2>1, <2>2, LifecycleOK
    <2>5. IsFiniteSet(reqs') /\ pending'[Tab] = Cardinality(reqs') /\ reqs' \subseteq reqs
      BY <1>1, <2>2, <2>3, AnswerCounted
    <2>6. 1 .. inst \subseteq 1 .. inst'
      BY <1>2, <2>4
    <2>7. reqs' \subseteq [slot : 1 .. MaxPending, inst : 1 .. inst', tx : 0 .. lastTx,
                           ctx : {"password", "webauthn", "passkey"}]
      BY <2>5, <2>6 DEF LoginInv
    <2> QED BY <2>2, <2>4, <2>5, <2>7 DEF LoginInv
  <1>17. ASSUME NEW r \in reqs, NEW push \in BOOLEAN, NEW webauthn \in BOOLEAN,
                ChallengeAnswer(r, push, webauthn)
         PROVE  LoginInv'
    <2>1. /\ reqs' = reqs \ {r} /\ lastTx' = lastTx + 1 /\ UNCHANGED <<inst, confirmed>>
          /\ pushTx \subseteq pushTx'
          /\ comp' = [comp EXCEPT ![r.inst] = Challenged(comp[r.inst], r.ctx, lastTx + 1, push, webauthn)]
      BY <1>17 DEF ChallengeAnswer
    <2>2. pending' = [pending EXCEPT ![Tab] = @ - 1]
      BY <1>17 DEF ChallengeAnswer, Refused
    <2>3. ComponentOK(Challenged(comp[r.inst], r.ctx, lastTx + 1, push, webauthn), lastTx + 1)
      BY <1>2, <1>15, ChallengedOK
    <2>4. \A i \in Insts : ComponentOK(comp[i], lastTx + 1)
      BY <1>2, MoreTransactions
    <2>5. \A j \in Insts : j > inst => comp[j] = Fresh
      BY <1>2
    <2>6. /\ comp' = [i \in Insts |-> comp'[i]]
          /\ \A i \in Insts : ComponentOK(comp'[i], lastTx')
          /\ \A i \in Insts : i > inst' => comp'[i] = Fresh
      <3> DEFINE c == Challenged(comp[r.inst], r.ctx, lastTx + 1, push, webauthn)
                 n == lastTx + 1
      <3>1. comp' = [comp EXCEPT ![r.inst] = c] /\ ComponentOK(c, n)
        BY <2>1, <2>3
      <3>2. \A j \in Insts : ComponentOK(comp[j], n)
        BY <2>4
      <3>3. lastTx' = n /\ inst' = inst
        BY <2>1
      <3> HIDE DEF c, n
      <3>4. /\ comp' = [i \in Insts |-> comp'[i]]
            /\ \A i \in Insts : ComponentOK(comp'[i], n)
            /\ \A i \in Insts : i > inst => comp'[i] = Fresh
        BY <1>2, <1>15, <2>5, <3>1, <3>2, OneChanged
      <3> QED BY <3>3, <3>4
    <2>7. IsFiniteSet(reqs') /\ pending'[Tab] = Cardinality(reqs') /\ reqs' \subseteq reqs
      BY <1>1, <2>1, <2>2, AnswerCounted
    <2>8. 0 .. lastTx \subseteq 0 .. lastTx'
      BY <1>2, <2>1
    <2>9. reqs' \subseteq [slot : 1 .. MaxPending, inst : 1 .. inst', tx : 0 .. lastTx',
                           ctx : {"password", "webauthn", "passkey"}]
      BY <2>1, <2>7, <2>8 DEF LoginInv
    <2> QED BY <1>2, <2>1, <2>6, <2>7, <2>9 DEF LoginInv
  <1>18. ASSUME NEW r \in reqs, UnlistedAnswer(r)
         PROVE  LoginInv'
    <2> DEFINE c == ChallengedUnlisted(comp[r.inst], r.ctx)
    <2>1. /\ reqs' = reqs \ {r} /\ UNCHANGED <<inst, lastTx, pushTx, confirmed>>
          /\ comp' = [comp EXCEPT ![r.inst] = c]
      BY <1>18 DEF UnlistedAnswer
    <2>2. pending' = [pending EXCEPT ![Tab] = @ - 1]
      BY <1>18 DEF UnlistedAnswer, Refused
    <2>3. r.inst \in 1 .. inst /\ ComponentOK(c, lastTx)
      BY <1>2, <1>15, UnlistedOK
    <2> HIDE DEF c
    <2>4. /\ comp' = [j \in Insts |-> comp'[j]]
          /\ \A j \in Insts : ComponentOK(comp'[j], lastTx)
          /\ \A j \in Insts : j > inst => comp'[j] = Fresh
      BY <1>5, <2>1, <2>3
    <2>5. IsFiniteSet(reqs') /\ pending'[Tab] = Cardinality(reqs') /\ reqs' \subseteq reqs
      BY <1>1, <2>1, <2>2, AnswerCounted
    <2> QED BY <2>1, <2>4, <2>5 DEF LoginInv
  <1>19. ASSUME NEW r \in reqs, RefusalAnswer(r)
         PROVE  LoginInv'
    <2>1. reqs' = reqs \ {r} /\ UNCHANGED <<inst, comp, serverVars>>
      BY <1>19 DEF RefusalAnswer
    <2>2. pending' = [pending EXCEPT ![Tab] = @ - 1]
      BY <1>19 DEF RefusalAnswer, Refused
    <2>3. IsFiniteSet(reqs') /\ pending'[Tab] = Cardinality(reqs') /\ reqs' \subseteq reqs
      BY <1>1, <2>1, <2>2, AnswerCounted
    <2> QED BY <2>1, <2>3 DEF LoginInv, serverVars
  <1>20. ASSUME NEW tx, Confirm(tx)
         PROVE  LoginInv'
    BY <1>20 DEF Confirm, LoginInv, sessionVars
  <1>21. CASE Moves
    <2>1. pending' = pending
      BY <1>21 DEF Moves, Move, Tick, Go, Discard, Keep, Change, Logout, Timeout, Activity
    <2>2. Lifecycle(comp) /\ UNCHANGED <<reqs, serverVars>>
      BY <1>21 DEF Moves
    <2>3. /\ inst \in Nat /\ inst' \in Nat /\ inst' \in Insts /\ inst <= inst'
          /\ comp' = [i \in Insts |-> comp'[i]]
          /\ \A i \in Insts : ComponentOK(comp'[i], lastTx)
          /\ \A i \in Insts : i > inst' => comp'[i] = Fresh
      BY <1>2, <2>2, LifecycleOK
    <2> QED BY <2>1, <2>2, <2>3, QuietKept
  <1>22. CASE LoginReload
    <2>1. /\ inst' = 1 /\ comp' = [i \in Insts |-> Fresh] /\ reqs' = {} /\ pending'[Tab] = 0
          /\ UNCHANGED serverVars
      BY <1>1, <1>22 DEF LoginReload, Reload
    <2>2. 1 \in Insts /\ IsFiniteSet({}) /\ Cardinality({}) = 0
      BY <1>1, <1>2, FS_EmptySet DEF Insts
    <2> QED BY <1>2, <2>1, <2>2, FreshOK DEF LoginInv, serverVars
  <1>23. CASE UNCHANGED loginVars
    BY <1>23 DEF loginVars, sessionVars, serverVars, LoginInv
  <1> QED BY <1>7, <1>8, <1>10, <1>12, <1>13, <1>14, <1>16, <1>17, <1>18, <1>19, <1>20,
             <1>21, <1>22, <1>23 DEF LoginNext

LEMMA LoginInvariant == LoginSpec => []LoginInv
  BY LoginInitInv, LoginNextInv, LoginImplementsSession, WebTypes, PTL
  DEF LoginSpec, ImplementsSession

\* The fields of every instance are well typed, and the requests the session waits
\* for are those the instances sent and nobody answered.
THEOREM LoginTypes == LoginSpec => []LoginTypeOK
  <1>1. LoginInv => LoginTypeOK
    <2> SUFFICES ASSUME LoginInv PROVE LoginTypeOK
      OBVIOUS
    <2>1. comp \in [Insts -> Component(lastTx)]
      BY DEF LoginInv, ComponentOK
    <2> QED BY <2>1 DEF LoginInv, LoginTypeOK, Component
  <1> QED BY LoginInvariant, <1>1, PTL

\* No instance polls without a transaction, in whatever order answers, resets and
\* submissions come (startPushPolling, resetChallengeState).
THEOREM PollingTransaction == LoginSpec => []PollingHasTransaction
  <1>1. LoginInv => PollingHasTransaction
    BY DEF LoginInv, ComponentOK, PollingHasTransaction
  <1> QED BY LoginInvariant, <1>1, PTL

\* No instance asks for an OTP value without a transaction it belongs to, unless it
\* was asked for without a list of challenges (evaluateResponse, onSubmit).
THEOREM OtpFieldTransaction == LoginSpec => []OtpFieldHasTransaction
  <1>1. LoginInv => OtpFieldHasTransaction
    BY DEF LoginInv, ComponentOK, OtpFieldHasTransaction
  <1> QED BY LoginInvariant, <1>1, PTL
===============================================================================
