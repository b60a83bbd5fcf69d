----------------------------- MODULE LoginSession ----------------------------
(***************************************************************************)
(* The session of the browser: the guard every page of the application     *)
(* mounts (use-auth.ts, dashboard-shell.tsx), the login page, and the      *)
(* session table of the server (auth.py).  The guard reads one cached      *)
(* query; the login page asks the server itself and does not touch that    *)
(* query, so that page, cache and server each have a view of the session.  *)
(***************************************************************************)
EXTENDS Integers

CONSTANTS
    MaxLogins, MaxLogouts,   \* bounds: forms sent, logouts
    MaxExpiries,     \* bound: sessions that run out
    MaxFailures      \* bound: requests that fail in the network

LoginBounds ==
    /\ MaxLogins \in Nat /\ MaxLogouts \in Nat
    /\ MaxExpiries \in Nat /\ MaxFailures \in Nat

VARIABLES
    session,         \* the server knows the session of the cookie
    screen,          \* "login", or "app" for any page behind the guard
    user, isError, stale,    \* the query auth-me: data, state error, invalidated or aged
    fetch,           \* its fetch: "idle", "asked", or the answer on its way
    check,           \* the request of the mounted login page, likewise
    form, bye,       \* POST /auth/login and /auth/logout, likewise
    logins, logouts, expiries, failures

query == <<user, isError, stale, fetch>>
counters == <<logins, logouts, expiries, failures>>
vars == <<session, screen, query, check, form, bye, counters>>

Phases == {"idle", "asked", "ok", "bad"}

\* the shell with its navigation and its logout button
ShowsApp == screen = "app" /\ user /\ ~isError

-----------------------------------------------------------------------------
(* Navigation.                                                             *)

\* useQuery mounts: without data an error is forgotten and the query fetches; data
\* are shown as they are, with their error, and fetched again when stale.
MountGuard ==
    /\ isError' = (isError /\ user)
    /\ fetch' = IF fetch = "idle" /\ (stale \/ ~user) THEN "asked" ELSE fetch
    /\ UNCHANGED <<user, stale>>

\* router.replace(DASHBOARD_ROUTE); the login page is unmounted
EnterApp ==
    /\ screen' = "app"
    /\ IF screen = "login" THEN MountGuard ELSE UNCHANGED query
    /\ check' = "idle"

\* VARIANT of EnterLogin: the login page waits for its form.
EnterLoginSilently == screen' = "login" /\ check' = "idle" /\ UNCHANGED query

\* router.replace(LOGIN_ROUTE); the login page asks whether there is a session
EnterLogin ==
    /\ screen' = "login"
    /\ check' = IF screen = "login" THEN check ELSE "asked"
    /\ UNCHANGED query

\* another page of the application; its shell mounts the guard anew
Navigate ==
    /\ ShowsApp
    /\ MountGuard
    /\ UNCHANGED <<session, screen, check, form, bye, counters>>

\* the effect of useAuthGuard
Redirect ==
    /\ screen = "app" /\ isError
    /\ EnterLogin
    /\ UNCHANGED <<session, form, bye, counters>>

-----------------------------------------------------------------------------
(* Requests: each is answered from the session of that moment, or fails.   *)

Fails == failures < MaxFailures /\ failures' = failures + 1

\* GET /auth/me, for the query and for the login page
AnswerMe ==
    /\ fetch = "asked"
    /\ \/ fetch' = (IF session THEN "ok" ELSE "bad") /\ UNCHANGED failures
       \/ fetch' = "bad" /\ Fails
    /\ UNCHANGED <<session, screen, user, isError, stale, check, form, bye, logins, logouts, expiries>>

AnswerCheck ==
    /\ check = "asked"
    /\ \/ check' = (IF session THEN "ok" ELSE "bad") /\ UNCHANGED failures
       \/ check' = "bad" /\ Fails
    /\ UNCHANGED <<session, screen, query, form, bye, logins, logouts, expiries>>

\* a failing fetch keeps the data, marked invalid
ReceiveMe ==
    /\ fetch \in {"ok", "bad"}
    /\ user' = (user \/ fetch = "ok")
    /\ isError' = (fetch = "bad")
    /\ stale' = (fetch = "bad")
    /\ fetch' = "idle"
    /\ UNCHANGED <<session, screen, check, form, bye, counters>>

\* the callback of the login page, while it is mounted
ReceiveCheck ==
    /\ check \in {"ok", "bad"}
    /\ IF check = "ok" THEN EnterApp
       ELSE check' = "idle" /\ UNCHANGED <<screen, query>>
    /\ UNCHANGED <<session, form, bye, counters>>

\* handleSubmit
Submit ==
    /\ screen = "login" /\ form = "idle"
    /\ logins < MaxLogins /\ logins' = logins + 1
    /\ form' = "asked"
    /\ UNCHANGED <<session, screen, query, check, bye, logouts, expiries, failures>>

\* POST /auth/login: a new session, or refused
AnswerLogin ==
    /\ form = "asked"
    /\ \/ form' = "ok" /\ session' = TRUE
       \/ form' = "bad" /\ UNCHANGED session
    /\ UNCHANGED <<screen, query, check, bye, counters>>

\* the rest of handleSubmit, whatever page is mounted by now
ReceiveLogin ==
    /\ form \in {"ok", "bad"}
    /\ form' = "idle"
    /\ IF form = "ok" THEN EnterApp ELSE UNCHANGED <<screen, query, check>>
    /\ UNCHANGED <<session, bye, counters>>

\* handleLogout
Logout ==
    /\ ShowsApp /\ bye = "idle"
    /\ logouts < MaxLogouts /\ logouts' = logouts + 1
    /\ bye' = "asked"
    /\ UNCHANGED <<session, screen, query, check, form, logins, expiries, failures>>

\* POST /auth/logout
AnswerLogout ==
    /\ bye = "asked"
    /\ \/ bye' = "ok" /\ session' = FALSE /\ UNCHANGED failures
       \/ bye' = "bad" /\ Fails /\ UNCHANGED session
    /\ UNCHANGED <<screen, query, check, form, logins, logouts, expiries>>

\* finally: the login page, whatever the answer was
ReceiveLogout ==
    /\ bye \in {"ok", "bad"}
    /\ bye' = "idle"
    /\ EnterLogin
    /\ UNCHANGED <<session, form, counters>>

-----------------------------------------------------------------------------
(* Time.                                                                   *)

\* the session runs out, or the server restarts
Expire ==
    /\ session
    /\ expiries < MaxExpiries /\ expiries' = expiries + 1
    /\ session' = FALSE
    /\ UNCHANGED <<screen, query, check, form, bye, logins, logouts, failures>>

\* staleTime
Age ==
    /\ user /\ ~stale
    /\ stale' = TRUE
    /\ UNCHANGED <<session, screen, user, isError, fetch, check, form, bye, counters>>

\* gcTime, with no guard mounted
Collect ==
    /\ screen = "login" /\ fetch = "idle" /\ (user \/ isError)
    /\ user' = FALSE /\ isError' = FALSE /\ stale' = FALSE
    /\ UNCHANGED <<session, screen, fetch, check, form, bye, counters>>

-----------------------------------------------------------------------------
\* The application is opened in a new tab, with or without a session.
Init ==
    /\ session \in BOOLEAN
    /\ screen = "app"
    /\ user = FALSE /\ isError = FALSE /\ stale = FALSE
    /\ fetch = "asked"
    /\ check = "idle" /\ form = "idle" /\ bye = "idle"
    /\ logins = 0 /\ logouts = 0 /\ expiries = 0 /\ failures = 0

Next ==
    \/ Navigate \/ Redirect
    \/ AnswerMe \/ ReceiveMe \/ AnswerCheck \/ ReceiveCheck
    \/ Submit \/ AnswerLogin \/ ReceiveLogin
    \/ Logout \/ AnswerLogout \/ ReceiveLogout
    \/ Expire \/ Age \/ Collect

Spec == Init /\ [][Next]_vars

\* Requests are answered, callbacks and effects run; the user owes nothing, and no
\* timer has to fire.
Fairness ==
    /\ WF_vars(Redirect)
    /\ WF_vars(AnswerMe \/ ReceiveMe)
    /\ WF_vars(AnswerCheck \/ ReceiveCheck)
    /\ WF_vars(AnswerLogin \/ ReceiveLogin)
    /\ WF_vars(AnswerLogout \/ ReceiveLogout)

FairSpec == Spec /\ Fairness

-----------------------------------------------------------------------------
\* Types of the variables; the request of the login page belongs to that page, so
\* that a late answer does not move the user off another one.
TypeOK ==
    /\ session \in BOOLEAN /\ user \in BOOLEAN /\ isError \in BOOLEAN /\ stale \in BOOLEAN
    /\ screen \in {"login", "app"}
    /\ {fetch, check, form, bye} \subseteq Phases
    /\ check # "idle" => screen = "login"
    /\ logins \in 0..MaxLogins /\ logouts \in 0..MaxLogouts
    /\ expiries \in 0..MaxExpiries /\ failures \in 0..MaxFailures

\* A login that succeeded brings the user into the application, although an error
\* of the session before may still be cached and send the page back to the login.
LoginSucceeded == form = "ok" /\ failures = MaxFailures
LoginReachesApp == LoginSucceeded ~> (ShowsApp \/ ~session)

=============================================================================
