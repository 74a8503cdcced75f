------------------------------ MODULE WebSession ------------------------------
(***************************************************************************)
(* The session of the Angular web user interface: AuthService, the         *)
(* SessionTimerService, the activity listeners of AppComponent and the two *)
(* route guards (src/privacyidea/privacyidea/static_new/src/app).  Every   *)
(* browser tab runs an application of its own, which keeps the session in  *)
(* memory; all tabs share the bearer token in the localStorage.  A session *)
(* is the token it was opened with, a number.  How the user comes to be    *)
(* authenticated is the matter of WebLogin: here a request is answered     *)
(* with a session or without one.                                          *)
(***************************************************************************)
EXTENDS Integers, FiniteSets

CONSTANTS
    Tabs,           \* the browser tabs
    JwtTime,        \* seconds from login to "exp", by the browser's clock
    Links,          \* the routes the links lead to
    LogoutTimes,    \* what logout_time of an answer can be; 0: not set
    MaxLogins,      \* bound of the sessions opened
    MaxPending      \* bound of the requests a tab has under way

ASSUME WebAssumption ==
    /\ JwtTime \in Nat \ {0}
    /\ LogoutTimes \subseteq Nat
    /\ Links \subseteq {"login", "view", "edit"}
    /\ MaxLogins \in Nat
    /\ MaxPending \in Nat

VARIABLES
    issued,       \* the number of tokens the server handed out
    owner,        \* history: owner[n] is the tab token n went to
    jwtLeft,      \* jwtLeft[n]: the seconds until token n expires
    stored,       \* the bearer token in the localStorage
    authed,       \* authData, jwtData and authenticationAccepted of a tab
    logoutTime,   \* the value logoutTimeSeconds has computed
    timer,        \* the seconds until the timeout of startTimer is due
    touched,      \* history: an activity restarted the timer of this session
    pending,      \* the authentication requests a tab waits for
    page,         \* the route a tab shows
    dirty,        \* hasChanges of the component on that route
    dialog        \* the target a navigation waits to reach, in the dialog

sessionVars == <<issued, owner, jwtLeft, stored, authed, logoutTime, timer,
                 touched, pending, page, dirty, dialog>>
pageVars == <<page, dirty, dialog>>
tokenVars == <<issued, owner, jwtLeft>>

NoSession == 0
NoTimer == -1

Login == "login"        \* the only route outside the AuthGuard
View  == "view"         \* a route behind the AuthGuard
Edit  == "edit"         \* one that has the pendingChangesGuard as well
Pages == {Login, View, Edit}
NoTarget == "none"

Smaller(a, b) == IF a < b THEN a ELSE b

\* Mutant: the remaining life of the JWT is left out.
SessionLengthPolicyOnly(logout) == IF logout = 0 THEN JwtTime ELSE logout

\* AuthService.logoutTimeSeconds just after a login.
SessionLength(logout) == IF logout = 0 THEN JwtTime ELSE Smaller(JwtTime, logout)

Init ==
    /\ issued = 0
    /\ owner = [n \in 1 .. MaxLogins |-> NoTarget]
    /\ jwtLeft = [n \in 1 .. MaxLogins |-> 0]
    /\ stored = NoSession
    /\ authed = [t \in Tabs |-> NoSession]
    /\ logoutTime = [t \in Tabs |-> 0]
    /\ timer = [t \in Tabs |-> NoTimer]
    /\ touched = [t \in Tabs |-> FALSE]
    /\ pending = [t \in Tabs |-> 0]
    /\ page = [t \in Tabs |-> Login]
    /\ dirty = [t \in Tabs |-> FALSE]
    /\ dialog = [t \in Tabs |-> NoTarget]

-----------------------------------------------------------------------------
(* Routes *)

\* Mutant: the route is entered without a look at the session.
ArriveUnchecked(t, target) ==
    /\ page' = [page EXCEPT ![t] = target]
    /\ dirty' = [dirty EXCEPT ![t] = FALSE]
    /\ dialog' = [dialog EXCEPT ![t] = NoTarget]

\* The component of the old route is gone; AuthGuard.checkAuth lets nobody
\* without a session past the login route.
Arrive(t, target) ==
    /\ page' = [page EXCEPT ![t] = IF authed'[t] = NoSession THEN Login ELSE target]
    /\ dirty' = [dirty EXCEPT ![t] = FALSE]
    /\ dialog' = [dialog EXCEPT ![t] = NoTarget]

\* router.navigate: with unsaved changes pendingChangesGuard opens its dialog
\* first; a navigation that waits in one already is replaced.
Navigate(t, target) ==
    IF page[t] = Edit /\ dirty[t]
      THEN /\ dialog' = [dialog EXCEPT ![t] = target]
           /\ UNCHANGED <<page, dirty>>
      ELSE Arrive(t, target)

\* The user follows a link; an open dialog is modal.
Go(t, target) ==
    /\ dialog[t] = NoTarget
    /\ page[t] # target
    /\ UNCHANGED <<tokenVars, stored, authed, logoutTime, timer, touched, pending>>
    /\ Navigate(t, target)

Discard(t) ==
    /\ dialog[t] # NoTarget
    /\ UNCHANGED <<tokenVars, stored, authed, logoutTime, timer, touched, pending>>
    /\ Arrive(t, dialog[t])

Keep(t) ==
    /\ dialog[t] # NoTarget
    /\ dialog' = [dialog EXCEPT ![t] = NoTarget]
    /\ UNCHANGED <<tokenVars, stored, authed, logoutTime, timer, touched, pending,
                   page, dirty>>

\* The user types into the form, or saves or reverts it.
Change(t, changed) ==
    /\ page[t] = Edit
    /\ dialog[t] = NoTarget
    /\ dirty' = [dirty EXCEPT ![t] = changed]
    /\ UNCHANGED <<tokenVars, stored, authed, logoutTime, timer, touched, pending,
                   page, dialog>>

-----------------------------------------------------------------------------
(* Session *)

\* The login component asks for a session.  A poll that confirms a push
\* challenge does so too, even after the login route was left.
Send(t) ==
    /\ pending[t] < MaxPending
    /\ pending' = [pending EXCEPT ![t] = @ + 1]
    /\ UNCHANGED <<tokenVars, stored, authed, logoutTime, timer, touched, pageVars>>

\* Mutant: a token that is stored already is kept.
LoggedInKeepsToken(t, logout) ==
    LET n == issued + 1 IN
      /\ n <= MaxLogins
      /\ issued' = n
      /\ owner' = [owner EXCEPT ![n] = t]
      /\ jwtLeft' = [jwtLeft EXCEPT ![n] = JwtTime]
      /\ stored' = IF stored = NoSession THEN n ELSE stored
      /\ authed' = [authed EXCEPT ![t] = n]
      /\ logoutTime' = [logoutTime EXCEPT ![t] = SessionLength(logout)]
      /\ timer' = [timer EXCEPT ![t] = SessionLength(logout)]
      /\ touched' = [touched EXCEPT ![t] = FALSE]
      /\ Navigate(t, View)

\* AuthService.authenticate and LoginComponent.evaluateResponse when the answer
\* brings a session: remembered, stored, timed and its first route opened.
LoggedIn(t, logout) ==
    LET n == issued + 1 IN
      /\ n <= MaxLogins
      /\ issued' = n
      /\ owner' = [owner EXCEPT ![n] = t]
      /\ jwtLeft' = [jwtLeft EXCEPT ![n] = JwtTime]
      /\ stored' = n
      /\ authed' = [authed EXCEPT ![t] = n]
      /\ logoutTime' = [logoutTime EXCEPT ![t] = SessionLength(logout)]
      /\ timer' = [timer EXCEPT ![t] = SessionLength(logout)]
      /\ touched' = [touched EXCEPT ![t] = FALSE]
      /\ Navigate(t, View)

\* The answer comes whatever happened in the tab since the request: nothing
\* cancels the request when the login route is left or the user logs out.
Accepted(t, logout) ==
    /\ pending[t] > 0
    /\ pending' = [pending EXCEPT ![t] = @ - 1]
    /\ LoggedIn(t, logout)

\* Mutant: an aborted request is answered too.
RefusedAfterAbort(t) ==
    /\ pending' = [pending EXCEPT ![t] = @ - 1]
    /\ UNCHANGED <<tokenVars, stored, authed, logoutTime, timer, touched, pageVars>>

Refused(t) ==
    /\ pending[t] > 0
    /\ pending' = [pending EXCEPT ![t] = @ - 1]
    /\ UNCHANGED <<tokenVars, stored, authed, logoutTime, timer, touched, pageVars>>

\* AuthService.logout: the token is removed for every tab.
EndSession(t) ==
    /\ stored' = NoSession
    /\ authed' = [authed EXCEPT ![t] = NoSession]
    /\ logoutTime' = [logoutTime EXCEPT ![t] = 0]
    /\ touched' = [touched EXCEPT ![t] = FALSE]
    /\ Navigate(t, Login)

\* NavigationComponent.logout, on every route but the login route.
Logout(t) ==
    /\ page[t] # Login
    /\ dialog[t] = NoTarget
    /\ EndSession(t)
    /\ UNCHANGED <<tokenVars, timer, pending>>

\* Mutant: the timeout waits until there are no unsaved changes.
TimeoutWaitsForChanges(t) ==
    /\ timer[t] = 0
    /\ ~dirty[t]
    /\ timer' = [timer EXCEPT ![t] = NoTimer]
    /\ EndSession(t)
    /\ UNCHANGED <<tokenVars, pending>>

\* SessionTimerService.handleSessionTimeout, late if the browser held it back.
Timeout(t) ==
    /\ timer[t] = 0
    /\ timer' = [timer EXCEPT ![t] = NoTimer]
    /\ EndSession(t)
    /\ UNCHANGED <<tokenVars, pending>>

\* Mutant: the timer is reset and not started again.
ActivityResetsOnly(t) ==
    /\ timer' = [timer EXCEPT ![t] = NoTimer]
    /\ touched' = [touched EXCEPT ![t] = authed[t] # NoSession]
    /\ UNCHANGED <<tokenVars, stored, authed, logoutTime, pending, pageVars>>

\* AppComponent.resetSessionTimer: the timer starts again with the length the
\* session had at login, or not at all without a session.
Activity(t) ==
    /\ timer' = [timer EXCEPT ![t] = IF logoutTime[t] = 0 THEN NoTimer ELSE logoutTime[t]]
    /\ touched' = [touched EXCEPT ![t] = authed[t] # NoSession]
    /\ UNCHANGED <<tokenVars, stored, authed, logoutTime, pending, pageVars>>

\* The page is loaded anew: the memory of the tab is lost, its requests are
\* aborted; the localStorage stays.
Reload(t) ==
    /\ authed' = [authed EXCEPT ![t] = NoSession]
    /\ logoutTime' = [logoutTime EXCEPT ![t] = 0]
    /\ timer' = [timer EXCEPT ![t] = NoTimer]
    /\ touched' = [touched EXCEPT ![t] = FALSE]
    /\ pending' = [pending EXCEPT ![t] = 0]
    /\ Arrive(t, Login)
    /\ UNCHANGED <<tokenVars, stored>>

Tick ==
    /\ jwtLeft' = [n \in 1 .. MaxLogins |-> IF jwtLeft[n] > 0 THEN jwtLeft[n] - 1 ELSE 0]
    /\ timer' = [t \in Tabs |-> IF timer[t] > 0 THEN timer[t] - 1 ELSE timer[t]]
    /\ UNCHANGED <<issued, owner, stored, authed, logoutTime, touched, pending, pageVars>>

\* What happens in a tab besides the requests for a session.
Move(t) ==
    \/ \E target \in Links : Go(t, target)
    \/ Discard(t)
    \/ Keep(t)
    \/ \E changed \in BOOLEAN : Change(t, changed)
    \/ Logout(t)
    \/ Timeout(t)
    \/ Activity(t)

Next ==
    \/ Tick
    \/ \E t \in Tabs :
         \/ Move(t)
         \/ Send(t)
         \/ \E logout \in LogoutTimes : Accepted(t, logout)
         \/ Refused(t)
         \/ Reload(t)

Spec == Init /\ [][Next]_sessionVars

\* The clock runs and the browser calls a timeout that is due.
Fairness == WF_sessionVars(Tick) /\ \A t \in Tabs : WF_sessionVars(Timeout(t))

FairSpec == Spec /\ Fairness

-----------------------------------------------------------------------------
(* Properties *)

WebTypeOK ==
    /\ issued \in 0 .. MaxLogins
    /\ owner \in [1 .. MaxLogins -> Tabs \cup {NoTarget}]
    /\ jwtLeft \in [1 .. MaxLogins -> 0 .. JwtTime]
    /\ stored \in 0 .. issued
    /\ authed \in [Tabs -> 0 .. issued]
    /\ logoutTime \in [Tabs -> Nat]
    /\ timer \in [Tabs -> Nat \cup {NoTimer}]
    /\ touched \in [Tabs -> BOOLEAN]
    /\ pending \in [Tabs -> 0 .. MaxPending]
    /\ page \in [Tabs -> Pages]
    /\ dirty \in [Tabs -> BOOLEAN]
    /\ dialog \in [Tabs -> Pages \cup {NoTarget}]

\* A tab that shows a session has a timeout under way that ends it, in whatever
\* order answers, logouts, activity and reloads come (startTimer, resetTimer and
\* logout are called from three components).
SessionHasTimer == \A t \in Tabs : authed[t] # NoSession => timer[t] # NoTimer

\* A session in which the user does nothing is over by the time its JWT is, if
\* the browser calls timeouts in time (logoutTimeSeconds takes the smaller of
\* the two durations; a restart by activity takes the same length again and may
\* outlive the JWT).
IdleEndsBeforeJwt ==
    \A t \in Tabs : authed[t] # NoSession /\ ~touched[t] => timer[t] <= jwtLeft[authed[t]]

\* While only one tab is used to log in, the requests of this tab carry the
\* token of the session it shows: late answers, repeated logins, timeouts of
\* earlier sessions and reloads included (BEARER_TOKEN_STORAGE_KEY is written
\* in three places).
OwnToken ==
    \A t \in Tabs :
      authed[t] # NoSession /\ (\A n \in 1 .. issued : owner[n] = t) => stored = authed[t]

\* Nobody without a session sees a route behind the AuthGuard, except one he
\* keeps because of unsaved changes (AuthGuard and pendingChangesGuard).
ViewNeedsSession == \A t \in Tabs : page[t] = View => authed[t] # NoSession

\* A tab nobody touches any more logs out, whatever the other tabs do.
IdleLogsOut ==
    \A t \in Tabs :
      <>[][~Activity(t) /\ ~\E logout \in LogoutTimes : Accepted(t, logout)]_sessionVars
        => []<>(authed[t] = NoSession)
===============================================================================
