------------------------------ MODULE Sessions ------------------------------
(***************************************************************************)
(* One account and the browsers that use it: sign-up, two-step login,      *)
(* password reset, rotation of the refresh token, logout (auth.service.ts, *)
(* plugins/jwt.ts), and the web server between (proxy.ts,                  *)
(* lib/server/session.ts, the catch-all route, lib/api.ts).  The browser   *)
(* holds the tokens as cookies only; a request carries the cookies of the  *)
(* moment it is sent, and its answer may change them when it arrives.      *)
(***************************************************************************)
EXTENDS Integers, Sequences, FiniteSets

CONSTANTS
    Devices,           \* browsers, each with its own cookies
    Tabs,              \* pages; each has at most one request under way
    Openings,          \* which browser each tab may have been opened in
    OTP_MAX_PER_HOUR,  \* codes of one purpose; a behaviour lasts an hour of requests
    maxAttempts,       \* wrong tries a code allows
    MaxMishaps         \* bound on wrong codes, expired codes and tokens, lost answers

Purposes == {"signup_verification", "login", "password_reset"}

ASSUME SessionsAssumption ==
    /\ Openings \subseteq [Tabs -> Devices]
    /\ IsFiniteSet(Devices) /\ IsFiniteSet(Tabs)
    /\ OTP_MAX_PER_HOUR \in Nat /\ maxAttempts \in Nat /\ MaxMishaps \in Nat

VARIABLES
    user,         \* the row of users; password counts the passwords it has had, and
                  \* epoch is the one under which the session on file was asked for
    codes,        \* otp_codes of each purpose, oldest first
    exchanged,    \* history: the refresh tokens in use that were rotated; was one twice?
    jar,          \* the two cookies of each browser
    tab,          \* the page and the request of each tab
    crossed,      \* history: a password reset met a login under way
    mishaps

sessionVars == <<user, codes, exchanged, jar, tab, crossed, mishaps>>

NoToken  == 0
NoAccess == -1
NoPair   == [at |-> NoAccess, rt |-> NoToken]

Idle(d, page) == [device |-> d, page |-> page, pc |-> "idle", purpose |-> "login", otp |-> 0,
                  epoch |-> 0, version |-> 0, pair |-> NoPair]

SessionInit ==
    /\ user = [registered |-> FALSE, verified |-> FALSE, password |-> 1, refresh |-> NoToken,
               expired |-> FALSE, tokenVersion |-> 0, epoch |-> 0]
    /\ codes = [p \in Purposes |-> <<>>]
    /\ exchanged = [tokens |-> {}, twice |-> FALSE]
    /\ jar = [d \in Devices |-> NoPair]
    /\ \E device \in Openings : tab = [t \in Tabs |-> Idle(device[t], "login")]
    /\ crossed = FALSE
    /\ mishaps = 0

At(t, step)   == tab[t].pc = step
Proceed(t, step) == tab' = [tab EXCEPT ![t].pc = step]
mishap        == mishaps < MaxMishaps /\ mishaps' = mishaps + 1
Page(t, page) == tab' = [tab EXCEPT ![t] = Idle(@.device, page)]
Jar(t)        == jar[tab[t].device]
-----------------------------------------------------------------------------
(* AuthService: one-time codes *)

\* A code has tries left, none once it expired, and remembers which password was
\* current when it was asked for.  The cooldown of a minute passes between any two.
createOtp(p) ==
    /\ Len(codes[p]) < OTP_MAX_PER_HOUR
    /\ codes' = [codes EXCEPT ![p] = Append(@, [epoch |-> user.password, consumed |-> FALSE,
                                                left |-> maxAttempts])]

\* The row of users is there before its code is: a failure in between leaves an
\* account that has none.
register ==
    /\ ~user.registered
    /\ user' = [user EXCEPT !.registered = TRUE]
    /\ \/ createOtp("signup_verification") /\ UNCHANGED mishaps
       \/ mishap /\ UNCHANGED codes
    /\ UNCHANGED <<exchanged, jar, tab, crossed>>

\* login with the right password, of an address that is verified.
login ==
    /\ user.registered /\ user.verified
    /\ createOtp("login")
    /\ UNCHANGED <<user, exchanged, jar, tab, crossed, mishaps>>

\* resendOtp and forgotPassword; nothing happens for an address that is verified already.
resendOtp(p) ==
    /\ user.registered
    /\ p = "signup_verification" => ~user.verified
    /\ createOtp(p)
    /\ UNCHANGED <<user, exchanged, jar, tab, crossed, mishaps>>

Unconsumed(p) == {i \in DOMAIN codes[p] : ~codes[p][i].consumed}

Usable(p) == {i \in Unconsumed(p) : codes[p][i].left > 0}

\* Ten minutes pass for the codes there are.
codesExpire(p) ==
    /\ Usable(p) # {}
    /\ mishap
    /\ codes' = [codes EXCEPT ![p] = [i \in DOMAIN @ |-> IF i \in Usable(p)
                                                        THEN [@[i] EXCEPT !.left = 0] ELSE @[i]]]
    /\ UNCHANGED <<user, exchanged, jar, tab, crossed>>

\* verifyEmail, verifyLoginOtp and resetPassword read the user first, with its token
\* version, then the newest code that is not consumed.
verifyOtp(t, p) ==
    LET i == CHOOSE j \in Unconsumed(p) : \A k \in Unconsumed(p) : k <= j IN
    /\ tab[t].page = "login" /\ At(t, "idle")
    /\ p = "signup_verification" => ~user.verified
    /\ Unconsumed(p) # {} /\ i \in Usable(p)
    /\ \/ /\ tab' = [tab EXCEPT ![t].pc = "consume", ![t].purpose = p, ![t].otp = i,
                                ![t].epoch = codes[p][i].epoch, ![t].version = user.tokenVersion]
          /\ UNCHANGED <<codes, mishaps>>
       \/ /\ mishap
          /\ codes' = [codes EXCEPT ![p][i].left = @ - 1]
          /\ UNCHANGED tab
    /\ UNCHANGED <<user, exchanged, jar, crossed>>

consume(t) ==
    /\ At(t, "consume")
    /\ codes' = [codes EXCEPT ![tab[t].purpose][tab[t].otp] =
                                 [epoch |-> 0, consumed |-> TRUE, left |-> 0]]
    /\ Proceed(t, CASE tab[t].purpose = "password_reset" -> "reset"
                 [] tab[t].purpose = "login" -> "issue"
                 [] OTHER -> "verify")
    /\ UNCHANGED <<user, exchanged, jar, crossed, mishaps>>

\* The address is verified from here on; the invitations that verifyEmail accepts next
\* are in PotLifecycle.
markVerified(t) ==
    /\ At(t, "verify")
    /\ user' = [user EXCEPT !.verified = TRUE]
    /\ Proceed(t, "issue")
    /\ UNCHANGED <<codes, exchanged, jar, crossed, mishaps>>

\* What logout, a reset and reuse of a token do to the row.
revoked(u) ==
    [u EXCEPT !.refresh = NoToken, !.expired = FALSE, !.epoch = 0, !.tokenVersion = @ + 1]

Signing == {t \in Tabs : tab[t].pc \in {"consume", "verify", "issue"} /\ tab[t].purpose # "password_reset"}

\* Mutant of resetPassword: the session is left alone.
resetPasswordOnly(t) ==
    /\ At(t, "reset")
    /\ user' = [user EXCEPT !.password = @ + 1]
    /\ crossed' = (crossed \/ Signing # {} \/ Usable("login") # {})
    /\ Page(t, "login")
    /\ UNCHANGED <<codes, exchanged, jar, mishaps>>

\* Codes for a login that were asked for under the old password stay usable.
resetPassword(t) ==
    /\ At(t, "reset")
    /\ user' = [revoked(user) EXCEPT !.password = @ + 1]
    /\ crossed' = (crossed \/ Signing # {}
                     \/ \E p \in Purposes \ {"password_reset"} : Usable(p) # {})
    /\ Page(t, "login")
    /\ UNCHANGED <<codes, exchanged, jar, mishaps>>
-----------------------------------------------------------------------------
(* AuthService: tokens *)

\* Tokens that someone still holds; a new one is none of them.
InUse == {user.refresh} \union {jar[d].rt : d \in Devices} \union {tab[t].pair.rt : t \in Tabs}

Fresh == CHOOSE n \in 1 .. Cardinality(InUse) + 1 :
            n \notin InUse /\ \A m \in 1 .. n - 1 : m \in InUse

\* A new pair, with the token version that was read before the code was verified.
issueTokenPair(t) ==
    /\ At(t, "issue")
    /\ exchanged' = [exchanged EXCEPT !.tokens = (@ \intersect InUse) \ {Fresh}]
    /\ user' = [user EXCEPT !.refresh = Fresh, !.expired = FALSE, !.epoch = tab[t].epoch]
    /\ tab' = [tab EXCEPT ![t] = [Idle(@.device, @.page) EXCEPT
                                     !.pc = "signed in",
                                     !.pair = [at |-> tab[t].version, rt |-> Fresh]]]
    /\ UNCHANGED <<codes, jar, crossed, mishaps>>

\* An access token is the token version it was signed with.
isTokenVersionCurrent(at) == at = user.tokenVersion

\* The catch-all route sends the request on, with the cookies it came with.
forward(t) ==
    /\ tab[t].page = "app" /\ At(t, "idle")
    /\ tab' = [tab EXCEPT ![t].pc = "sent", ![t].pair = Jar(t)]
    /\ UNCHANGED <<user, codes, exchanged, jar, crossed, mishaps>>

\* A 401 makes the route refresh, if the request brought a refresh token.
authenticate(t) ==
    /\ At(t, "sent")
    /\ tab' = [tab EXCEPT ![t] = IF isTokenVersionCurrent(@.pair.at) THEN Idle(@.device, "app")
                                 ELSE [@ EXCEPT !.pair.at = NoAccess,
                                                  !.pc = IF tab[t].pair.rt = NoToken
                                                         THEN "refused" ELSE "refresh"]]
    /\ UNCHANGED <<user, codes, exchanged, jar, crossed, mishaps>>

\* AuthService.refresh: the row is read first.
refresh(t) ==
    /\ At(t, "refresh")
    /\ Proceed(t, IF user.refresh = NoToken \/ user.expired THEN "refused" ELSE "rotate")
    /\ UNCHANGED <<user, codes, exchanged, jar, crossed, mishaps>>

Rotated(t) ==
    /\ exchanged' = [tokens |-> (exchanged.tokens \intersect InUse) \union {tab[t].pair.rt},
                      twice  |-> exchanged.twice \/ tab[t].pair.rt \in exchanged.tokens]
    /\ user' = [user EXCEPT !.refresh = Fresh, !.expired = FALSE]
    /\ tab' = [tab EXCEPT ![t].pc = "rotated",
                          ![t].pair = [at |-> user.tokenVersion, rt |-> Fresh]]

\* Mutant of rotate: the comparison is left to the row that was read.
rotateUnconditional(t) ==
    /\ At(t, "rotate")
    /\ Rotated(t)
    /\ UNCHANGED <<codes, jar, crossed, mishaps>>

\* One conditional UPDATE: a token that is not the one on file revokes the session.
rotate(t) ==
    /\ At(t, "rotate")
    /\ IF user.refresh = tab[t].pair.rt THEN Rotated(t)
       ELSE Proceed(t, "revoke") /\ UNCHANGED <<user, exchanged>>
    /\ UNCHANGED <<codes, jar, crossed, mishaps>>

revoke(t) ==
    /\ At(t, "revoke")
    /\ user' = revoked(user)
    /\ Proceed(t, "refused")
    /\ UNCHANGED <<codes, exchanged, jar, crossed, mishaps>>

\* The web server's logout calls the backend only if there is an access token, and
\* clears the cookies whatever the backend says.
logout(t) ==
    /\ tab[t].page = "app" /\ At(t, "idle")
    /\ IF isTokenVersionCurrent(Jar(t).at)
       THEN user' = revoked(user)
       ELSE UNCHANGED user
    /\ Proceed(t, "refused")
    /\ UNCHANGED <<codes, exchanged, jar, crossed, mishaps>>
-----------------------------------------------------------------------------
(* The web server's answers and the pages *)

\* proxy(): whoever has a cookie gets the app, everyone else /login.
Landing(d, j) == IF j[d] = NoPair THEN "login" ELSE "app"

\* setSessionCookies, after a login or a refresh.  The page, or the retry of its request,
\* goes on; a retry that is refused too makes redirectToLogin ask proxy().
setSessionCookies(t) ==
    /\ tab[t].pc \in {"signed in", "rotated"}
    /\ jar' = [jar EXCEPT ![tab[t].device] = tab[t].pair]
    /\ Page(t, Landing(tab[t].device, jar'))
    /\ UNCHANGED <<user, codes, exchanged, crossed, mishaps>>

\* Mutant of clearSessionCookies: the cookies stay.
clearSessionCookiesKept(t) ==
    /\ At(t, "refused")
    /\ Page(t, Landing(tab[t].device, jar))
    /\ UNCHANGED <<user, codes, exchanged, jar, crossed, mishaps>>

clearSessionCookies(t) ==
    /\ At(t, "refused")
    /\ jar' = [jar EXCEPT ![tab[t].device] = NoPair]
    /\ Page(t, Landing(tab[t].device, jar'))
    /\ UNCHANGED <<user, codes, exchanged, crossed, mishaps>>

\* The answer is lost between the web server and the browser: the page shows an error.
loseAnswer(t) ==
    /\ tab[t].pc \in {"signed in", "rotated", "refused"}
    /\ mishap
    /\ Page(t, tab[t].page)
    /\ UNCHANGED <<user, codes, exchanged, jar, crossed>>

\* A page is opened or reloaded.
proxy(t) ==
    /\ At(t, "idle")
    /\ tab[t].page # Landing(tab[t].device, jar)
    /\ Page(t, Landing(tab[t].device, jar))
    /\ UNCHANGED <<user, codes, exchanged, jar, crossed, mishaps>>

\* Fifteen minutes: the access token and its cookie end together.
accessExpires(d) ==
    /\ jar[d].at # NoAccess
    /\ mishap
    /\ jar' = [jar EXCEPT ![d].at = NoAccess]
    /\ UNCHANGED <<user, codes, exchanged, tab, crossed>>

\* Thirty days: the refresh token on file and the cookies that hold it.
refreshExpires ==
    /\ user.refresh # NoToken /\ ~user.expired
    /\ mishap
    /\ user' = [user EXCEPT !.expired = TRUE]
    /\ jar' = [d \in Devices |-> IF jar[d].rt = user.refresh THEN NoPair ELSE jar[d]]
    /\ UNCHANGED <<codes, exchanged, tab, crossed>>
-----------------------------------------------------------------------------
(* The forms *)

SignupForm == register

\* An address that is not verified is sent a sign-up code instead.
LoginForm == login \/ (~user.verified /\ resendOtp("signup_verification"))

ForgotPasswordForm == resendOtp("password_reset")

\* The code is typed in, or another one asked for.
OtpVerifyForm(t) == \E p \in Purposes \ {"password_reset"} : verifyOtp(t, p) \/ resendOtp(p)

ResetPasswordForm(t) == verifyOtp(t, "password_reset") \/ resendOtp("password_reset")
-----------------------------------------------------------------------------
backend(t) ==
    \/ consume(t) \/ markVerified(t) \/ resetPassword(t) \/ issueTokenPair(t) \/ authenticate(t)
    \/ refresh(t) \/ rotate(t) \/ revoke(t)

answer(t) == setSessionCookies(t) \/ clearSessionCookies(t)

SessionNext ==
    \/ SignupForm \/ LoginForm \/ ForgotPasswordForm
    \/ \E p \in Purposes : codesExpire(p)
    \/ \E t \in Tabs :
          \/ OtpVerifyForm(t) \/ ResetPasswordForm(t)
          \/ backend(t) \/ answer(t) \/ loseAnswer(t)
          \/ forward(t) \/ logout(t) \/ proxy(t)
    \/ \E d \in Devices : accessExpires(d)
    \/ refreshExpires

SessionSpec == SessionInit /\ [][SessionNext]_sessionVars

\* Requests that are under way finish, and a page of the app keeps asking.
SessionFairness == \A t \in Tabs : WF_sessionVars(backend(t) \/ answer(t) \/ forward(t))

FairSessionSpec == SessionSpec /\ SessionFairness
-----------------------------------------------------------------------------
(* Properties *)

\* "At most one token pair is ever real for a given rotation" (AuthService.refresh):
\* two tabs that refresh at once never both get a pair.
OnePairPerRotation ==
    ~exchanged.twice

\* After a password reset every device has to log in again: the session on file began
\* with a code asked for under the present password, unless a login was under way.
ForcedToLogInAgain ==
    user.refresh # NoToken => user.epoch = user.password \/ crossed

SessionDead(d) ==
    /\ ~isTokenVersionCurrent(jar[d].at)
    /\ jar[d].rt = NoToken \/ jar[d].rt # user.refresh \/ user.expired

\* A page whose session is dead ends at /login instead of going back and forth for
\* ever, unless someone logs in again (the comment in forward()).
DeadSessionReachesLogin ==
    \A t \in Tabs :
        tab[t].page = "app" /\ SessionDead(tab[t].device)
            ~> tab[t].page = "login" \/ ~SessionDead(tab[t].device)
=============================================================================
