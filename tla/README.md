# A TLA+ verification of privacyIDEA's token authentication

This directory models the authentication core of the repository: the Python
server under `privacyidea/`, which decides whether a one time password, a
response to a challenge or an offline client gets in; the session of its Angular
user interface; its periodic tasks; and the device activation service of the Node.js
package. It holds TLA+ modules, TLC configurations, and proofs that TLAPS checks. Paths in this document are
relative to `src/privacyidea/privacyidea/` unless they start with `src/`.

## 1. The system and its parts

The server is a Flask application (`api/`) over a library (`lib/`) over a SQL
database (`models/`). A web server runs it in several processes and threads
(`src/privacyidea/doc/faq/performance.rst`); they share nothing but the
database. A request loads rows into its SQLAlchemy session, computes on the
copy, and commits, usually several times in one request
(`models/utils.py` `save`).

| Component | State | Operations | What makes it correct | Hard because |
|---|---|---|---|---|
| HOTP token (`lib/tokens/hotptoken.py`, `HMAC.py`) | secret, count, tokeninfo otp1c and dueDate | check_otp, _autosync, check_otp_exist, resync, update | no counter is let through twice per secret; values far ahead only in successive pairs | many paths move one counter; two-step resynchronisation over two requests with a deadline |
| Token base class and token list (`lib/tokenclass.py`, `lib/token.py` `check_token_list`) | failcount, maxfail, timestamp, authentication counters, active, revoked | authentication, challenge, response, reset, set, enable, revoke | at most maxfail guesses, lockout holds, a transaction logs in once, limits hold | one request decides over several tokens, seven switches change what is counted |
| The same row in several workers | committed row, a copy per request | load, check, commit, second check, reset | a used value stays used, every guess counts | absolute writes computed from stale copies |
| Offline application (`lib/applications/offline.py`, `api/validate.py` `offlinerefill`, `api/lib/postpolicy.py` `offline_info`) | counter, refill token, attachment and its count; at the machine the values and the refill token | login with handout, refill, rotation, attach, detach | values handed out stay offline, belong to one machine, pay once | several commits per request, lost responses, a counter that is set back and restored |
| Challenges (`models/challenge.py`) | rows with transaction id, serial, expiry | create, check, clean up | see token list | shared between tokens, expire, are cleaned up lazily |
| TOTP token (`lib/tokens/totptoken.py`) | count (used last), timeShift, otp1c | check_otp, check_otp_exist, resync, _autosync, update | as HOTP; a device in sync passes | windows reach into the past, every success changes the drift, count means the last counter or the next |
| PIN reset (`lib/challengeresponsedecorators.py`) | challenges of a PIN change | first and second PIN | the PIN changes only through both | the first challenge stays |
| Authentication cache (`lib/authcache.py`) | entries with count and times | verify, add, update, clean up | at most max_auths skips | compare and update are two statements |
| Event counters (`lib/counter.py`) | one row per node | increase, decrease, read, reset | never negative | sum over rows of others |
| Periodic tasks (`lib/periodictask.py`, `cli/tools/cron.py`) | rows, last run per node | set, enable, delete, collect, run, mark | no run without a reason, every due task tried | the mark follows the run, passes overlap and are killed, tasks change underneath |
| Push token (`lib/tokens/pushtoken.py`) | rollout state, challenges | enroll in two steps, poll, confirm, decline | a confirmation is for its challenge | answer and poll race |
| Containers (`lib/container.py`, `containerclass.py`) | registration state, challenges | register, challenge, rollover | one owner of the key | rollover while in use |
| Configuration cache (`lib/config.py`) | copy and timestamp per process | reload | old policies end | bounded staleness only by configuration |
| Web session (`static_new/src/app`: `AuthService`, `SessionTimerService`, `AppComponent`, guards) | per tab: authData, timer, route, dialog; shared: the bearer token | authenticate, logout, timeout, activity, navigation, reload | a session ends in time, guarded pages need one | answers after a logout, several tabs, a dialog that holds back navigation |
| Web login (`components/login/login.component.ts`) | transaction, OTP field, polling, sign request | submit, WebAuthn, passkey, reset, poll, evaluate | everything shown is about one transaction; a confirmed push is noticed | asynchronous answers, polling that outlives what it polls for |
| Device activation (`src/nodejs_package`, `DeviceManagementService.ts`) | maps of pending activations and of devices | request, validate, deactivate, clear | only a timely code of the device's own secret activates it, once | an await between look-up and activation |
| Policies, users, resolvers, realms, events, audit, machine resolvers, CA connectors, gateways, the rest of the user interfaces | their tables | look-ups, adapters, presentation | sequential | not candidates for a model checker |
| C# port (`src/NetCore`), device activation in C# and Flutter | their own maps | as above | as above | ports |

How they meet: `/validate/check` calls `check_token_list`, which calls each
token's `authenticate` or `check_challenge_response` and these `check_otp`; after a
success the postpolicy `offline_info` hands out offline values if the token is
attached to a machine. `/validate/offlinerefill` goes to the offline application and
uses the same `check_otp` on a window behind the counter. Administrators reach
the same rows through `/token/resync`, `/token/reset`, `/token/set`,
`/token/enable`, `/token/revoke`, the search for the owner of an OTP value and a
new enrolment on an existing serial. The user interface logs in at `/auth` and polls
`/validate/polltransaction`; what the server answers there is a choice of the
environment in the web modules. The cron script and the device activation meet the rest
only in the database and not at all. `PROJECT.json` lists every component with
its status and every hazard at its line.

## 2. The modules

| Module | Models | Corresponds to |
|---|---|---|
| `OneTimeUse` | abstract promise of every counter based token | `TokenClass.authenticate`: "the OTP value that was used ... is invalidated" |
| `HotpToken` | one HOTP token, each call one step | `hotptoken.py` check_otp, _autosync, check_otp_exist, resync; `HMAC.py` checkOtp; `tokenclass.py` inc_otp_counter, set_otp_count; `init_token` on an existing serial |
| `HotpAutosync` | HotpToken with a history of the values presented | the same; only history is added |
| `TotpToken` | one TOTP token, each call one step | `totptoken.py` check_otp, _autosync, check_otp_exist, resync, update; `HMAC.py` checkOtp with symetric set |
| `TotpDrift` | TotpToken and the clock of a device | the device is external |
| `TokenAuth` | `check_token_list` over the tokens of a user | the lists the code sorts tokens into, fail counter, authentication counters, challenges, administrator |
| `HotpWorkers` | several workers on one row | load, check_otp's commit, second check_all, reset; inc_failcount |
| `OfflineRefill` | HotpToken attached to the offline application | offline_info, offlinerefill, get_refill, get_offline_otps, generate_new_refilltoken; steps end at the commits and where a handout has loaded the counter |
| `PeriodicTask` | the task rows and the passes of the cron script | set, enable, delete, mark of `periodictask.py`; run_scheduled, run_task_on_node, run_manually of `cron.py` |
| `DeviceActivation` | the Node.js service, a validation split at its await | `DeviceManagementService.ts` |
| `WebSession` | the session in every browser tab | `auth.service.ts`, `session-timer.service.ts`, `app.component.ts`, the two guards, the logout button |
| `WebLogin` | the login component of one tab, extends WebSession | `login.component.ts` |
| `...Proofs` | proofs about the module of that name (`WebProofs`: WebSession and WebLogin) | - |
| `MC...` | instances for TLC: OTP functions, configurations, symmetry | - |

Conventions. Variables have the names of the columns and tokeninfo entries; the
comment beside each says which. An OTP value is an opaque value and the truncated
HMAC the constant operator `Hotp(key, counter)`, which need not be injective,
because truncation to six digits is not. A locked (revoked) token makes
`check_token_locked` raise, which is the guard `~locked`. Variables called history
are not in the program; no guard reads them. Operators marked "Mutant" are
variants of the code used to see that each property notices a plausible mistake.

`HotpToken`. `PresentOtp` is check_otp with the count of the token, which
includes the automatic resynchronisation and the write of `res + 1`. `FindByOtp` is
check_otp_exist with its default `inc_counter`, through inc_otp_counter, whose
`if counter:` skips counter 0 as in the code. `Resync` accepts two values. `Reenroll`
resets the counter and keeps otp1c and dueDate, as update and set_otpkey do; on a locked
token add_init_details raises before them, while `Revoke` looks at no lock.
The automatic resynchronisation searches behind the window: `generate` moves the counter of the
`HmacOtp` object on (`HMAC.py:126`), and `check_otp` hands the same object to `_autosync` after
its search found nothing (`hotptoken.py:547`). So `Autosync` starts at the counter plus the
window, and a TOTP token's is centred on `Centre + window` (`totptoken.py:360`).

`TokenAuth`. Each action is one request to the end. Which token a password fits
is a choice of the environment (`verdict`), what the server does then is the
model: unfit tokens are passed over after `check_reset_failcount`, valid tokens win,
else challenges are triggered, else wrong OTP values are counted, else wrong PINs
if IncFailCountOnFalsePin is set. A response (`Answer`, `AnswerStep`,
`WrongResponse`, `UnknownTransaction`) is tried on the tokens in the order of the
list; `before` is the set of those tried in vain first, because each attempt runs the
janitor. The configuration is a record of the seven switches and the clear timeout,
fixed in a behaviour. The history `guessed` holds the times of the failed guesses
since the last reset; only failed requests are counted, since the code leaves the
fail counter of other tokens alone when one token is right.

`HotpWorkers`. `Load` reads the row, `CheckOtp` commits the count computed from the
copy, `CheckAgain` and `Finish` see the row as it is then, because a commit expires the
session. `WrongGuess` writes the copy's fail counter plus one: with AutoResync off
nothing was committed since the load. `used` remembers whether the value had logged in
before the request began, so that two simultaneous requests with one value do not
count as a later replay.

`OfflineRefill`. A request is a `job` that walks through the commits: a login
checks the value, rotates the refill token, hands out; a refill checks the value
(`Refill`, which commits a smaller count), restores the count (`Restore`), hands out
and rotates. A handout is two steps, since get_offline_otps loads the counter, hashes the values,
and then writes an absolute counter (`Handout`, `Increase`). `Receive` is the client storing the
response; `Abort` is a lost response or a dead worker. The steps of all machines and of the
administrator mix freely. A request is `Critical` while it relies on nobody else moving the counter:
a refill from its search to the end of its handout, any handout from the load to the write. The
history `disturbed` is set when the counter is used on behalf of somebody else in that time, or a refill dies
before it restored the counter; until then the three properties hold, and they claim nothing
afterwards. `HandedNotLetThrough` is the documented promise without this condition.

`TotpToken`. `Search` is the symmetric window around the time of the device as far as
the server knows it (`Centre`), whose end is not part of it. `Check` stores the matched
counter and the shift in seconds; the shift in steps that `_autosync` stores first is
overwritten in the same call. Both searches of an administrator use the value up, because
check_otp commits before check_otp_exist looks at inc_counter: `FindInList` is the one with inc_counter=False,
`FindByOtp` the default one, which moves the count once more. `Resync` stores the counter after the
second value. `TotpDrift` lets the clock of the device run away from the server's.

`PeriodicTask`. A pass of the script has a set of tasks left: `Collect` fills it with
what is due, `Run` executes the first of their ordering (`NextTask`) and takes the time, `Mark` stores it. Tasks
are changed, a pass is killed (`Crash`) and another one started between any two of these.
An interval is a number of ticks; `NextPoint` is croniter's get_next.

`DeviceActivation`. `Validate` runs to the await of validateTotp and keeps the secret
it read, `Finish` is the rest. Node.js runs one call at a time between awaits, so every
other operation is one step.

`WebSession`. A session is the number of the token it was opened with. `Send` and
its answers (`Accepted`, `Refused`) are separate steps in every tab; nothing cancels a
request but a reload. `Navigate` is the router with the two guards: a page with unsaved
changes opens a dialog first. `timer` is the timeout of startTimer in seconds left, and
`logoutTime` the value that logoutTimeSeconds computed at login and keeps.

`WebLogin` adds the fields of the login component, one record for every instance, since
an instance that left the route may still have requests under way. Polls of a transaction,
logins and their answers are steps; the challenges of an answer are chosen freely. An answer without
a list of challenges (`UnlistedAnswer`) opens the OTP field and leaves the transaction as it is, as the
tests of the component expect (`login.component.spec.ts:258`), though the server always sends
the list (`lib/token.py:2409`). The history `unlisted` notes a field opened that way.

## 3. The runs

| Run | Question | Answer |
|---|---|---|
| `hotp_token` | can any order of calls let a counter through twice, with colliding values? does a value beyond the windows need its predecessor in time? | no; implements `OneTimeUse`. Yes, of whichever secret the token had |
| `totp` | the same for time steps; does a device that was in sync keep passing? | implements `OneTimeUse`; yes, within the steps of the window less two |
| `totp_resync` | are both values of a resynchronisation fresh? | **no**, the first may be the one that logged in last |
| `token_auth` | at most maxfail guesses, lockout, timestamp, single use of transactions | yes, with a fixed maxfail |
| `auth_steps` | success limit and single use with multi-step and out of band tokens and a changing maxfail | yes |
| `workers` | when can a used value log in later, and how many guesses are possible? | only after a commit set the counter back; at most M(M+3)/2 with two workers and maxfail M |
| `offline_refill` | do values handed out stay offline, pay once and belong to one machine, with a changing count? | yes, however requests mix, die and lose answers, until a use of the counter is interfered with; they pay once unless the count is raised |
| `offline_interleaved` | do they stay offline in every interleaving, as the documentation says? | **no**, get_refill commits a smaller counter first |
| `cron` | is a run repeated without a reason, is a due task passed over for good? | no to both; a crash, a failure, an overlap or a manual run may repeat one |
| `device_activation` | what can overlap with a validation? | anything; still only a timely code of the own secret activates, and closes the activation |
| `web_session` | does every session end in time, in every tab? | yes, an idle one before its JWT; activity may carry it past the JWT |
| `web_login` | is everything shown about one transaction, is a push noticed, does the login only do what a session allows? | yes, except the WebAuthn button |

A bold answer is a disagreement of the code with a comment or document; the
findings in `PROJECT.json` quote it. Further disagreements that reading and modelling showed,
without a run of their own:

* a used HOTP value logs in again once a slow worker committed its smaller count
  (`tokenclass.py:961`; `ReplayOnlyAfterRegress` says that nothing else does it),
  and two workers make more than maxfail guesses, up to the bound of `GuessesStayBounded`;
* the automatic resynchronisation searches behind the window that was searched before, so it reaches
  one window further than the sync window, which is described as counted "from the current token counter
  onwards" and for TOTP as "before and after the current time"
  (`src/privacyidea/doc/configuration/system_config.rst:253`); a TOTP token reaches one window less into the past;
* otp1c outlives a re-enrolment, so the remembered value may be of the old secret
  (`hotptoken.py:554`; `PredecessorHeard` allows for that);
* a repeated first value makes `_autosync` forget it, so that 1, 1, 2 does not sync;
* `set_maxfail` lowered to the fail counter locks without the timestamp that the
  clearing by time needs (`tokenclass.py:1023`);
* one request with a wrong OTP value raises count_auth of each of n tokens of one PIN by n
  (`lib/token.py:2757`, in `WrongOtp`);
* after a login or a search by OTP value a refill returns more or fewer values than the
  defined count (`offline.py:138`); a worker that dies between the two commits of get_refill
  leaves handed out values valid online, and a login while the values of a handout are hashed is
  overwritten by its absolute counter (`offline.py:114`);
* a response to an expired challenge that is still in the table raises the fail
  counter, though the comment at `lib/token.py:2557` counts it as invalid;
* a search for the token of an OTP value uses up a TOTP value although it asks for inc_counter=False;
* a failed run of a task without retry_if_failed is stored as last run, right after the
  script prints "This unsuccessful run is not recorded in the database." (`cron.py:98-101`);
* after a logout or a timeout the page with unsaved changes stays if the user keeps them,
  although the message is "Session expired. Redirecting to login page."
  (`session-timer.service.ts:100`);
* a new challenge without WebAuthn leaves the sign request of the transaction before it
  behind the button (`login.component.ts:281`);
* `timeout_action` defaults to the lock screen in `doc/policies/webui.rst:128`; the
  Angular interface always logs out.

Properties a reader may want to know the point of:

* `UsedBehindCount` relates the history to the counter. It is what makes all three
  searches safe, since each begins at the counter.
* `GuessesCounted` and `LockoutHolds` say the fail counter does its work however
  passwords, responses, valid and expired challenges, automatic clearing and resets are mixed.
* `ReplayOnlyAfterRegress` locates the cause of later replays: overlap alone does no
  harm, a counter that can only grow in the database would be enough.
* `GuessesStayBounded` shows that lost updates multiply the guesses but do not make
  them unlimited; TLC finds it reached, so it is exact for the instance.
* `PaidOnce` is the off-by-one that the comment in get_refill is about: without the one the
  value that paid stays inside the next window.
* `SyncedDevicePasses` ties the stored shift to the clock of the device: one step of the
  tolerance is lost because a success takes the beginning of the step for the device's
  time, one because the end of the window does not belong to it.
* `RunsOncePerPoint` compares a run with the last one that succeeded on this node and was
  not disturbed (`served`), which the rows themselves do not know. It exempts what does repeat a run:
  a pass killed before its mark, and a pass that overlaps another.
* `IdleEndsBeforeJwt` is about sessions without activity, as activity starts the full length again;
  `ViewNeedsSession` is about pages without unsaved changes, which the user may keep.
* `HandedNeverOnline`, `PaidOnce` and `CachesDisjoint` exempt what follows an interference, which
  `offline_interleaved` shows to do harm; every other order of the steps is in them.
* `OtpFieldHasTransaction` exempts a field that an answer without a list opened while there was no
  transaction: it must not be left behind by a reset, a new challenge or a late answer.
* `ActivatedByTimelyCode` is about the age of the secret when the code arrived, by a
  clock of its own: what the service stored may have been replaced by then.
* `OwnToken` holds as long as only one tab logged in; two that did share the last token.
* `ImplementsSession`: every step of the login component is a step of WebSession or
  changes nothing there, so the theorems about WebSession hold for it.

### Bounds

* `MaxCounter` (MC modules): larger counters give the value `none`, which no client
  sends, so counters stay finite without a guard in the actions. 4 is beyond all windows
  (1, 2, 3) counted from 0 and from a counter that was moved once; the offline runs
  need a login, a stock, a refill and a login after it, which 3 allows with stocks of 1 and 2
  (`offline_interleaved` has 5).
* `Undisturbed` (`offline_refill`, a CONSTRAINT): a disturbed state is checked and its successors are
  not generated, because they are all disturbed and the properties claim nothing of them; the types, which do,
  are proved of them (`OfflineTypeCorrect`). `offline_interleaved` has no constraint.
* `MaxTime` reaches the timeouts: 2 with a timeout of 2 (`hotp_token`), where an entry is in time
  or due, and 3 with a timeout of 1 (`token_auth`), where it can also be late. Runs whose question has no time in it have 0 or 1.
* `totp`: five values around the time of the enrolment, a step of 2 seconds, a window of 3
  steps and 5 seconds to go: the clock crosses several steps, and the drift of up to 3 seconds
  goes past the tolerance of 2. The epoch is far away, as `EpochFar` says.
* `cron`: two tasks, an interval of 2 in 4 ticks, two passes, one crash and one change:
  a task is due twice, a pass overlaps another, dies, or loses a task that is deleted
  while it runs. The clock and the changes end, so the run does not look for deadlocks.
* `device_activation`: three secrets for two devices and two calls, so that a secret is
  replaced while two validations hold the old one; one tick in time and one late.
* `web_session`: two tabs, two sessions, two requests under way in each, a logout time
  below and one above the life of the JWT. `web_login`: one tab, two instances of the
  component, two transactions, two requests of the user and one poll of each instance; the
  links lead to the view only, the login route is entered by logout, timeout and reload.
* `MaxTx` 1 or 2: the second transaction is that of a second step or a new request
  while the first is open.
* maxfail 2 (`token_auth`; 1 raised to 2 in `auth_steps`) and 3 (workers): the counter
  can be below the limit, at it and reset in between. The worker bound needs 3 for both workers to lose updates twice.
* Two tokens, two machines, two workers: every property is about one of them and
  another one. `Permutations` symmetry is used where they have the same role, and never
  with a property that names one.
* Two secrets with colliding values in `hotp_token` and `totp`, so that one value matches several
  counters and both secrets.

### Fairness

* `WebSession`: weak fairness of the clock and of `Timeout` in every tab: the browser
  calls a timeout that is due, though maybe late. Nothing is assumed of users and server.
* `WebLogin`: weak fairness of the poll timer, of the answers to polls and of the answers
  to login requests. A poll is taken to be answered before the next one replaces it; a
  server that needs more than 500 ms for every poll is cancelled for ever by switchMap, which
  is a limit of the code, listed as a hazard.
* `PeriodicTask`: strong fairness of `Collect` on every node, because the cron daemon starts
  the script "every five minutes" (`src/privacyidea/doc/periodictask/index.rst`), whatever the pass
  before does; weak fairness of the steps of a pass, which end unless it is killed.

The other specifications state none: each request ends when its code ends, and what the
system owes its users in the end depends on what they send. Deadlock is checked in every
run but `cron`.

## 4. The proofs

Every safety invariant and every action property of the passing runs has a theorem, and so has
every refinement. The proofs of a module are in the module `...Proofs` of its name; those of
HotpAutosync are with HotpToken's, those of TotpDrift with TotpToken's, and `WebProofs` is
about WebSession and WebLogin.

| Theorem | Statement | Rests on |
|---|---|---|
| `HotpTypeCorrect`, `HotpUsedBehindCount` | type correctness and `UsedBehindCount` for every OTP function, window and timeout | `HotpInv` = `TypeOK` and `UsedBehindCount`, inductive |
| `HotpIsOneTimeUse`, `AutosyncIsOneTimeUse` | HotpToken implements OneTimeUse, with the history of HotpAutosync as well | `HotpInv` and a case per action |
| `AutosyncPredecessor` | a value beyond the windows follows its predecessor in time | `AutosyncInv`, `FarNeedsFirst` |
| `WorkersTypeCorrect`, `ReplayNeedsRegress` | for any number of workers, any window and maxfail | `WorkersInv` = `TypeOK` and `NoRegressInv` |
| `GuessBound` | `GuessesStayBounded` for any maxfail, when no more than two requests are served at the same time (`AtMostTwo`) | `GuessInv` of that module |
| `ChallengesUsedOnce` | for any tokens, configuration and validity time no challenge of an answered transaction is left | `ChallengeInv` = `TxInv` and `ChallengeUsedOnce` |
| `AuthTypeCorrect`, `SuccessLimit` | types and the success limit, for any finite set of tokens and any configurations | `RequestStep`, `AdminStep` |
| `GuessLimit`, `Lockout`, `ReachedStamped` | the limit on guesses, the lockout and the timestamp, while nobody changes maxfail (`MaxfailKept`) | `GuessInv` of that module |
| `TotpTypeCorrect`, `TotpIsOneTimeUse`, `DriftIsOneTimeUse` | types, and TotpToken implements OneTimeUse, for every OTP function, step, window, shift and clock of the device | `TotpTypeOK`, which is inductive, and a case per action |
| `DevicePasses` | `SyncedDevicePasses` for every step and window, when no two counters of a window have one value (`ValuesDiffer`) | `ShiftTaken`, `DeviceInWindow` |
| `OfflineTypeCorrect` | types of OfflineRefill in every interleaving | `OfflineTypes` |
| `HandedStaysOffline`, `RefillPaidOnce`, `MachinesDisjoint` | the three properties for any machines, stocks and windows, in every interleaving | `OrderlyInv` |
| `CronTypeCorrect`, `RunsOnce` | types and `RunsOncePerPoint`, for any tasks, nodes, passes and intervals | `CronInv` |
| `DeviceTypes`, `ActivatedClosed`, `SecretSpent`, `TimelyActivation` | all properties of DeviceActivation, for any devices, calls and expiry | `DeviceInv` |
| `WebTypes`, `SessionTimed`, `IdleOutlived`, `TokenOfSession`, `ViewsGuarded` | the safety properties of WebSession, for any tabs and durations | `WebInv` |
| `LoginImplementsSession`, `LoginKeepsSession` | WebLogin implements WebSession, so the properties above hold in it | `LoginStepImplements` |
| `LoginTypes`, `PollingTransaction`, `OtpFieldTransaction` | the safety properties of WebLogin, for any number of instances, transactions and requests | `LoginInv` |

Assumptions are those in the modules (`HotpAssumption`, `WorkersAssumption`, `AuthAssumption`,
`TotpAssumption`, `DriftAssumption`, `OfflineAssumption`, `PeriodicAssumption`, `DeviceAssumption`,
`WebAssumption`, `LoginAssumption`): windows, limits and durations are natural numbers, there
is a secret, the user has finitely many tokens, and a tab has room for the requests that can be
under way. Nothing is assumed of `Hotp` and `Totp`. Five theorems have a hypothesis of their own on
the constants, named in the table and explained below; a run meets each of them. Every inductive
invariant was first checked by TLC on the instance of its run.

*HotpToken.* `checkOtp` returns the smallest matching counter at or after the one it
starts at. That a smallest one exists is `LeastNatural`, from the well-foundedness of
the natural numbers; `CheckOtpWindowResult` and `CheckOtpResult` then say a result is
-1 or not below the start. So each call lets nothing through and does not lower the
counter (`InvKeptWithoutAccept`), or appends a counter not below it and passes it
(`InvKeptByAccept`). The refinement uses the same two facts.

*HotpAutosync.* A result beyond the window can only come from the automatic resynchronisation,
and then otp1c is the counter before it and dueDate is not over (`FarNeedsFirst`). `AutosyncInv`
says that an otp1c that is not overdue has an entry of the history, of whichever secret, whose time
is no earlier than the one dueDate was computed from: presenting the value again only makes
the entry younger (`CheckOtpRemembers`).

*HotpWorkers.* `ReplayOnlyAfterRegress` is not inductive: it says nothing of the
requests under way. `NoRegressInv` adds that, while no commit went back, accepted
values lie behind the counter, that a request whose value was used before carries a copy
whose counter is past it, and so finds nothing, and that a request that committed is behind
the counter. `TypeOK` is inductive on its own because a copy is only taken below
maxfail.

The bound on the guesses is a potential. `GuessesLeft(n)` = n(n+3)/2 is what two workers can
still make when n are left on the fail counter: one loads the row, the other uses up the n, the first
sets the counter back to one more than it loaded, which leaves n - 1. `GuessInv` says that
the guesses made and those left stay within `GuessesLeft(MaxFail)`, counted from the row, from a copy
behind the row (the other worker uses up the row first), and from two such copies (the later one
is used first). Only `WrongGuess` moves guesses from one part to the other (`WrongGuessKept`); that
is also where two workers are needed, since a third would hold a further copy.

*TokenAuth.* `ChallengeUsedOnce` needs that the ids in the table and in the history
were all given out (`TxInv`), so that a new challenge has a new id. For the other properties all
requests are brought into one form: `RequestStep` says what any of them may do to a row (check, clear,
count, count a success, reset) and `AdminStep` what the administrator may, and each property
is proved of the two once. `GuessInv` relates a row to the history of its guesses (`GuessRow`): the
guesses within the clear timeout are no more than the fail counter, and when the counter can be
cleared by time the guesses are all older than that. This is false once maxfail is lowered
to the fail counter or below, because an old timestamp then clears guesses that are younger
(`tokenclass.py:1023`, `:1364`); hence `MaxfailKept`. `CountsWithinMax` and `CountsBelowMax` say that the
fail counter is not set above maxfail (`GuessLimit`), or to it (`ReachedStamped`), since
set_failcount writes no timestamp. `SuccessLimit` needs none of these.

*TotpToken.* The refinement maps `next` to 0 for a token without a used counter and
to count + 1 otherwise. `SearchResult` bounds what a window search returns (`EpochFar` keeps
it above 1, so that 0 is no match), `CheckStep` and `ResyncStep` say which counters a
call lets through; each is above count, or count is 0.

*TotpDrift.* When the device passes, the shift stored is less than one step behind what its clock
is ahead, and at most half a step before it, which a resynchronisation adds (`ShiftTaken`,
`ShiftAtPass`). So the counter of the device stays strictly inside the window while the clocks move
apart by `(CheckWindow - 2) * TimeStep` (`DeviceInWindow`). The proof showed that the tolerance is
one of whole steps: with a time window that is no multiple of the step, what is left of it does
not help, and an earlier form of `Tolerance` that counted it was wrong. `ValuesDiffer` is needed because
the search returns the first counter that gives the value: with a collision inside the window a
value may count as the earlier counter, and be refused as used.

*OfflineRefill.* The argument is about the true counter of the token: the committed one, or
the one a refill under way is about to restore. Every value handed out, let through online
or taken in payment lies behind it (`TrueCounterAhead`, from `UsedBehind` and `PaidBehind`), so the
next handout and the next login start beyond them all. `OrderlyInv` says this of every undisturbed
state. It adds that at most one request is critical (`OneCritical`), so there is one true
counter; that the counter loaded by a handout is still the counter when it is written
(`IncreaseAtCounter`); that values on their way to a machine are on no other machine and on no other way
(`OtpsOnTheWay`); and what each request under way will do to the window of the next refill (`Pays`). The
last is a matter of inequalities, because the count of the attachment may be lowered while a refill
has computed its amount with the old one: the value that pays lies below the next window, but not
always at its edge. A step either uses the counter, and then nobody else is critical
(`NotInterfered`, `UserAhead`), or leaves it alone (`CounterStays`, `JobsStay`). The types need no such condition.

*PeriodicTask.* `SoundRuns` follows each successful run in `served` up to its mark: one pass of the
node at most has the task in front of it (`OnePass`), a pass that ran it carries the time of this
run (`OwnMark`), afterwards that is the last run, unless the task was set or deleted since (`Marked`), and
a pass that is going to run the task does so after the next point (`PointPassed`).
`NextPointMonotone` is what keeps the last: the point `Due` computes from a later update of the task is no earlier.
`GoneForgotten` says that a task that does not exist has no last runs.

*DeviceActivation.* `DeviceInv` adds to the four properties what they need to last: the
secret a validation holds was generated for its device, a right code it presented came in
time (`CallsHoldOwnSecret`), and a pending secret was generated for the device it is pending for
(`PendingIsOwn`). `ActivatedNotPending` survives the overlap because
`Finish` and `Request` each write both maps in one step.

*WebSession.* `WebInv` is `WebTypeOK`, an invariant for each tab (`TabInv`: a session has a
length other than 0 and a timer, a timer not restarted since the login is no longer than the JWT
lives, the view of a record has a session, a tab no token was issued to shows the login and has
nothing to end) and `OwnToken`. Each kind of step has a lemma, since
navigation, requests and the clock touch different parts.

*WebLogin.* The refinement is a case per action: a request is a `Send`, an answer an `Accepted` or
a `Refused`, everything else of the component leaves the session alone. `LoginInv` says of every
instance that it has a transaction when it polls or shows the OTP field, unless that is
`unlisted` (`ComponentOK`), that
instances not created yet are fresh, and that the requests under way are counted by
the session. Answers arrive at instances that are long gone; what keeps `ComponentOK` is that
each handler writes the fields together (`ChallengedOK`, `ResetChallengeOK`, `StopPollingOK`).

Only model-checked: liveness under fairness (`IdleLogsOut`, `ConfirmedPushNoticed`, `DueTaskTried`),
which is out of the prover's reach with ENABLED, and what a run finds violated. That the bound of
`GuessesStayBounded` is reached, and so cannot be smaller, is an existence statement TLC shows for
the instance. Induction over data is out of reach as well; no module uses a RECURSIVE operator, and
nothing stated here needs one.

## 5. What the models leave out

* `HotpToken` takes a call as one step; the several commits inside one call are in
  HotpWorkers and OfflineRefill, except those of the tokeninfo entries otp1c and dueDate.
* `TokenAuth` serves one request at a time. Validity periods and rollout states are
  always in order, so is what `is_fit_for_challenge` asks. Enrolment through multiple
  challenges is not there.
* `HotpWorkers` has the right PIN in every request, AutoResync off and no clearing by time.
* `OfflineRefill` has HOTP tokens only, and no new enrolment while a token is attached. The check of an OTP value
  is one step up to its commit; what happens when two workers overlap inside it is in HotpWorkers.
  The options rounds and the PIN in the hashes are presentation.
* `TotpToken` has whole seconds, no revocation and no option initTime (which sets the time of the check), and
  stays away from 1970, where a window would start before the first counter.
* `PeriodicTask` has one fixed interval, and whether a task is retried does not change. The
  task modules are a success or a failure.
* `DeviceActivation` takes validateTotp for right; the clock steps of a TOTP code are not in it.
  C# and Flutter have ports of the service that are not modelled.
* `WebSession` and `WebLogin` leave out messages, the display of the remaining time, routes by role
  and clocks that differ between browser and server (with a browser clock past "exp" the logout
  time is 0 and no timer starts). LoginComponent.logout is called by no template. The answers of
  the server are chosen freely, except that a push login needs the confirmation.
* The components without a module in section 1. Policies, users, resolvers, events,
  audit, gateways and the rest of the two user interfaces are sequential look-ups, adapters or
  presentation and stay out, as do the vendored libraries of the AngularJS interface; the
  others are in the plan.

## 6. Plan

Done, in this order: `OneTimeUse`, `HotpToken`, `HotpAutosync`; `TokenAuth`; `HotpWorkers`;
`OfflineRefill`; `WebSession`, `WebLogin`; `DeviceActivation`; `TotpToken`, `TotpDrift`;
`PeriodicTask`. Next:

1. `ChallengeWorkers`: check and deletion of a challenge by two workers; the commits of
   otp1c and dueDate.
2. `PinReset`: both challenges of a PIN change, expiry, and what is left afterwards.
3. `AuthCache`, `EventCounter`: limits under concurrent statements.
4. `PushToken` and `Container`: enrolment states, rollover, and the polling of the user
   interface for them.
5. `OfflineRefill` with WebAuthn attachments and re-enrolment while attached.

Theorems worth proving next: the bound of `GuessesStayBounded` for any number of workers, which
is a binomial coefficient in place of n(n+3)/2; that the offline application as a whole keeps the promise of
`OneTimeUse` across both sides, while no use of the counter is interfered with; and the properties of the modules
above as they are written.
