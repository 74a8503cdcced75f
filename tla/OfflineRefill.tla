----------------------------- MODULE OfflineRefill -----------------------------
(***************************************************************************)
(* A HOTP token attached to the application "offline": every successful    *)
(* login hands the client a stock of future OTP values and moves the       *)
(* counter past them; the client verifies them locally and buys new ones   *)
(* at /validate/offlinerefill with the last value it verified              *)
(* (lib/applications/offline.py, api/validate.py offlinerefill,            *)
(* api/lib/postpolicy.py offline_info).  A server step ends at a database  *)
(* commit, or where the row is loaded whose counter a later commit writes  *)
(* back; the steps of the clients mix, a request can die between any two,  *)
(* and a response can be lost.  A history notes when two requests came     *)
(* between each other's use of the counter.                                *)
(***************************************************************************)
EXTENDS HotpToken

CONSTANTS
    Clients,      \* the machines that ask
    Stocks        \* the values of the option "count" an administrator uses

ASSUME OfflineAssumption ==
    /\ Stocks \subseteq Nat \ {0}
    /\ Stocks # {}

VARIABLES
    attached,      \* list_machine_tokens(application="offline") is not empty
    stock,         \* the option "count" of the attachment
    refilltoken,   \* tokeninfo "refilltoken", a serial number of its versions
    job,           \* per client: the request the server is working on
    clientToken,   \* per client: the refill token it received last
    cache,         \* per client: the counters of the OTP values it stores
    handed,        \* history: counters handed out since set_otpkey
    paid,          \* history: counters that bought a refill, in order
    raised,        \* history: the option "count" was raised
    disturbed      \* history: a use of the counter was interfered with

offlineVars == <<attached, stock, refilltoken, job, clientToken, cache, handed, paid, raised,
                 disturbed>>
allVars == <<hotpVars, offlineVars>>

Idle == [step |-> "idle"]

\* The request relies on nobody else moving the counter: a refill from its search
\* to its handout, and any handout from the load of the counter to its commit.
Critical(j) ==
    \/ j.step \in {"restore", "increase"}
    \/ j.step = "handout" /\ j.kind = "refill"

\* The counter is used on behalf of nobody but the clients in own.
Interfering(own) == disturbed \/ \E other \in Clients \ own : Critical(job[other])

\* Where get_refill looks for the values handed out last.
FirstOfflineCounter(current) == IF current < stock THEN 0 ELSE current - stock

\* Mutant: the value that pays is not counted as used up.
RefillAmountWithoutOne(res, first) == res - first

RefillAmount(res, first) == res - first + 1

-----------------------------------------------------------------------------
OfflineInit ==
    /\ Init
    /\ attached = TRUE
    /\ stock \in Stocks
    /\ refilltoken = 0
    /\ job = [cl \in Clients |-> Idle]
    /\ clientToken = [cl \in Clients |-> 0]
    /\ cache = [cl \in Clients |-> {}]
    /\ handed = {}
    /\ paid = <<>>
    /\ raised = FALSE
    /\ disturbed = FALSE

\* /validate/check: the OTP value is checked; after a success the postpolicy
\* offline_info goes on if the token is attached.
Login(cl, v) ==
    /\ job[cl] = Idle
    /\ PresentOtp(v)
    /\ disturbed' = IF accepted' # accepted THEN Interfering({cl}) ELSE disturbed
    /\ job' = IF attached /\ accepted' # accepted
                THEN [job EXCEPT ![cl] = [step |-> "rotate", kind |-> "login", amount |-> stock]]
                ELSE job
    /\ UNCHANGED <<attached, stock, refilltoken, clientToken, cache, handed, paid, raised>>

\* /validate/offlinerefill up to the commit of check_otp, which searches the
\* values handed out last and so sets the counter back.  A wrong value raises.
Refill(cl, v) ==
    LET first == FirstOfflineCounter(count)
        r     == CheckOtp(v, first, stock)
    IN  /\ job[cl] = Idle
        /\ ~locked
        /\ attached
        /\ refilltoken # 0
        /\ clientToken[cl] = refilltoken
        /\ otp1c' = r.otp1c
        /\ dueDate' = r.dueDate
        /\ IF r.res = NotFound
             THEN UNCHANGED <<count, job, disturbed>>
             ELSE /\ disturbed' = Interfering({cl})
                  /\ count' = r.res + 1
                  /\ job' = [job EXCEPT ![cl] = [step |-> "restore", current |-> count, used |-> r.res,
                                                 amount |-> RefillAmount(r.res, first)]]
        /\ UNCHANGED <<secret, locked, now, accepted, attached, stock, refilltoken,
                       clientToken, cache, handed, paid, raised>>

\* Mutant: the counter check_otp left behind stays.
RestoreNothing(cl) ==
    /\ job[cl].step = "restore"
    /\ ~locked
    /\ job' = [job EXCEPT ![cl] = [step |-> "handout", kind |-> "refill",
                                       amount |-> @.amount, used |-> @.used]]
    /\ disturbed' = Interfering({cl})
    /\ UNCHANGED <<hotpVars, attached, stock, refilltoken, clientToken, cache, handed, paid, raised>>

\* get_refill: token.set_otp_count(current_token_counter)
Restore(cl) ==
    /\ job[cl].step = "restore"
    /\ ~locked
    /\ count' = job[cl].current
    /\ job' = [job EXCEPT ![cl] = [step |-> "handout", kind |-> "refill",
                                       amount |-> @.amount, used |-> @.used]]
    /\ disturbed' = Interfering({cl})
    /\ UNCHANGED <<secret, otp1c, dueDate, locked, now, accepted, attached, stock,
                   refilltoken, clientToken, cache, handed, paid, raised>>

\* get_offline_otps: the row is loaded and the values are computed and hashed.
Handout(cl) ==
    /\ job[cl].step = "handout"
    /\ ~locked
    /\ disturbed' = Interfering({cl})
    /\ job' = [job EXCEPT ![cl] =
                 IF @.kind = "login"
                   THEN [step |-> "increase", kind |-> "login", amount |-> @.amount,
                         first |-> count, token |-> @.token]
                   ELSE [step |-> "increase", kind |-> "refill", amount |-> @.amount,
                         first |-> count, used |-> @.used]]
    /\ UNCHANGED <<hotpVars, attached, stock, refilltoken, clientToken, cache, handed, paid, raised>>

\* Mutant: the counter moves by one, as after a login.
IncreaseCountsOnce(cl) ==
    LET otps == job[cl].first .. (job[cl].first + job[cl].amount - 1) IN
      /\ job[cl].step = "increase"
      /\ disturbed' = Interfering({cl})
      /\ count' = job[cl].first + 1
      /\ handed' = handed \cup otps
      /\ paid' = IF job[cl].kind = "refill" THEN Append(paid, job[cl].used) ELSE paid
      /\ job' = [job EXCEPT ![cl] =
                   IF @.kind = "login"
                     THEN [step |-> "reply", otps |-> otps, token |-> @.token]
                     ELSE [step |-> "rotate", kind |-> "refill", otps |-> otps]]
      /\ UNCHANGED <<secret, otp1c, dueDate, locked, now, accepted, attached, stock,
                     refilltoken, clientToken, cache, raised>>

\* get_offline_otps: inc_otp_counter past the values, from the counter that was
\* loaded before they were hashed.
Increase(cl) ==
    LET otps == job[cl].first .. (job[cl].first + job[cl].amount - 1) IN
      /\ job[cl].step = "increase"
      /\ disturbed' = Interfering({cl})
      /\ count' = job[cl].first + job[cl].amount
      /\ handed' = handed \cup otps
      /\ paid' = IF job[cl].kind = "refill" THEN Append(paid, job[cl].used) ELSE paid
      /\ job' = [job EXCEPT ![cl] =
                   IF @.kind = "login"
                     THEN [step |-> "reply", otps |-> otps, token |-> @.token]
                     ELSE [step |-> "rotate", kind |-> "refill", otps |-> otps]]
      /\ UNCHANGED <<secret, otp1c, dueDate, locked, now, accepted, attached, stock,
                     refilltoken, clientToken, cache, raised>>

\* Mutant: the new refill token is returned and not stored in the tokeninfo.
RotateForgotten(cl) ==
    /\ job[cl].step = "rotate"
    /\ ~locked
    /\ job' = [job EXCEPT ![cl] =
                 IF @.kind = "login"
                   THEN [step |-> "handout", kind |-> "login", amount |-> @.amount,
                         token |-> refilltoken + 1]
                   ELSE [step |-> "reply", otps |-> @.otps, token |-> refilltoken + 1]]
    /\ UNCHANGED <<hotpVars, attached, stock, refilltoken, clientToken, cache, handed, paid,
                   raised, disturbed>>

\* generate_new_refilltoken: before the handout of a login, after that of a refill.
\* On a locked token add_tokeninfo raises.
Rotate(cl) ==
    /\ job[cl].step = "rotate"
    /\ ~locked
    /\ refilltoken' = refilltoken + 1
    /\ job' = [job EXCEPT ![cl] =
                 IF @.kind = "login"
                   THEN [step |-> "handout", kind |-> "login", amount |-> @.amount,
                         token |-> refilltoken + 1]
                   ELSE [step |-> "reply", otps |-> @.otps, token |-> refilltoken + 1]]
    /\ UNCHANGED <<hotpVars, attached, stock, clientToken, cache, handed, paid, raised, disturbed>>

\* The client stores the values and the refill token of the response.
Receive(cl) ==
    /\ job[cl].step = "reply"
    /\ cache' = [cache EXCEPT ![cl] = @ \cup job[cl].otps]
    /\ clientToken' = [clientToken EXCEPT ![cl] = job[cl].token]
    /\ job' = [job EXCEPT ![cl] = Idle]
    /\ UNCHANGED <<hotpVars, attached, stock, refilltoken, handed, paid, raised, disturbed>>

\* The response is lost, a call raises because the token was revoked meanwhile,
\* or the worker or its database connection dies.
Abort(cl) ==
    /\ job[cl] # Idle
    /\ disturbed' = (disturbed \/ job[cl].step = "restore")
    /\ job' = [job EXCEPT ![cl] = Idle]
    /\ UNCHANGED <<hotpVars, attached, stock, refilltoken, clientToken, cache, handed, paid, raised>>

\* The client verifies a value against its list and drops it and all before it.
UseOffline(cl, c) ==
    /\ c \in cache[cl]
    /\ cache' = [cache EXCEPT ![cl] = {d \in @ : d > c}]
    /\ UNCHANGED <<hotpVars, attached, stock, refilltoken, job, clientToken, handed, paid,
                   raised, disturbed>>

\* detach_token of the last attachment, and attach_token.
ToggleAttachment ==
    /\ attached' = ~attached
    /\ UNCHANGED <<hotpVars, stock, refilltoken, job, clientToken, cache, handed, paid,
                   raised, disturbed>>

\* add_option: the administrator changes the count of the attachment.
SetStock(n) ==
    /\ n # stock
    /\ stock' = n
    /\ raised' = (raised \/ n > stock)
    /\ UNCHANGED <<hotpVars, attached, refilltoken, job, clientToken, cache, handed, paid,
                   disturbed>>

\* An administrator's search for an OTP value.
Search(v) ==
    /\ FindByOtp(v)
    /\ disturbed' = Interfering({})
    /\ UNCHANGED <<attached, stock, refilltoken, job, clientToken, cache, handed, paid, raised>>

\* The clock and a revocation.
Elsewhere ==
    /\ Tick \/ Revoke
    /\ UNCHANGED offlineVars

OfflineNext ==
    \/ \E cl \in Clients, v \in Values : Login(cl, v) \/ Refill(cl, v)
    \/ \E cl \in Clients : \/ Restore(cl)
                           \/ Handout(cl)
                           \/ Increase(cl)
                           \/ Rotate(cl)
                           \/ Receive(cl)
                           \/ Abort(cl)
                           \/ \E c \in cache[cl] : UseOffline(cl, c)
    \/ ToggleAttachment
    \/ \E n \in Stocks : SetStock(n)
    \/ \E v \in Values : Search(v)
    \/ Elsewhere

OfflineSpec == OfflineInit /\ [][OfflineNext]_allVars

-----------------------------------------------------------------------------
(* Properties *)

OfflineTypeOK ==
    /\ TypeOK
    /\ attached \in BOOLEAN
    /\ stock \in Stocks
    /\ refilltoken \in Nat
    /\ clientToken \in [Clients -> 0 .. refilltoken]
    /\ cache \in [Clients -> SUBSET handed]
    /\ handed \subseteq Nat
    /\ paid \in Seq(Nat)
    /\ raised \in BOOLEAN
    /\ disturbed \in BOOLEAN

\* "Once these values are returned by the server, the counter of the token on
\* the server side is increased by the number of values returned": a value that
\* was handed out for offline use is not let through online afterwards.
HandedNotLetThrough ==
    [][accepted' # accepted => accepted'[Len(accepted')] \notin handed]_allVars

\* A value is never both let through online and handed out for offline use, in
\* whatever order, with logins, refills, lost responses, administrators' searches
\* and dying requests in between, as long as nobody uses the counter while a refill
\* or a handout relies on it and no refill dies before it restored it.
HandedNeverOnline ==
    ~disturbed => \A i \in 1 .. Len(accepted) : accepted[i] \notin handed

\* The counters that buy refills only grow as long as nobody raises the count of
\* the attachment: one offline login buys one refill, although get_refill
\* searches a window that lies behind the counter, and whatever lowers the count
\* while a refill is under way.
PaidOnce ==
    ~disturbed /\ ~raised => \A i, j \in 1 .. Len(paid) : i < j => paid[i] < paid[j]

\* Two machines never store the same OTP value, so a value used on one of them
\* is worth nothing on the other, however late the responses reach them.
CachesDisjoint ==
    ~disturbed => \A cl, other \in Clients : cl # other => cache[cl] \cap cache[other] = {}
===============================================================================
