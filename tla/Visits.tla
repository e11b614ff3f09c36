------------------------------- MODULE Visits -------------------------------
(***************************************************************************)
(* Who decides where a visitor goes.  The proxy (proxy.ts, lib/routes.ts)  *)
(* judges a request by the browser's cookie; the page it lets through      *)
(* judges it by what the Auth server says (server/auth/session.ts).  Each  *)
(* may redirect, and the redirect passes the proxy again.  Meanwhile the   *)
(* account is used in this browser and on other devices.                   *)
(***************************************************************************)
EXTENDS AuthServer

VARIABLES
    cookie,         \* the browser's: its session, the level in its token and
                    \* whether its copy of the user lists a verified factor
    visit           \* the visit under way

vars == <<server, cookie, visit>>

NoCookie == [s |-> NoSession, aal |-> 1, mfa |-> FALSE]
Cookies == [s : Sessions \cup {NoSession}, aal : {1, 2}, mfa : BOOLEAN]

\* "page" is any page that needs a session, "login" any for the signed out.
Paths == {"page", "login", "mfa", "expired"}
NoVisit == [path |-> "page", step |-> "none", c |-> NoCookie]

TypeOK ==
    /\ AuthTypeOK
    /\ cookie \in Cookies
    /\ visit \in [path : Paths, step : {"none", "proxy", "render"}, c : Cookies]

Init ==
    /\ AuthInit
    /\ account = "confirmed"
    /\ cookie = NoCookie
    /\ visit = NoVisit

-----------------------------------------------------------------------------
(* The account in use.  What a call answers goes into the cookie of the    *)
(* browser that made it, with the user as the server knew it then; only    *)
(* enrolling and removing a factor answer without a session to store.      *)
(* What lies between the check of a session and the call is in SignIn.     *)

Held(s) == [s |-> s, aal |-> session[s].aal, mfa |-> HasFactor]

SignInHere(s) ==
    /\ \/ \E p \in Passwords : GrantPassword(s, p)
       \/ ExchangeCode(s)
    /\ cookie' = [s |-> s, aal |-> 1, mfa |-> HasFactor]
    /\ UNCHANGED visit

SignInElsewhere(s) ==
    /\ ExchangeCode(s)
    /\ UNCHANGED <<cookie, visit>>

SignOut(s, scope) ==
    /\ Logout(s, scope)
    /\ cookie' = IF s = cookie.s /\ scope # "others" THEN NoCookie ELSE cookie
    /\ UNCHANGED visit

PastSecondFactor(s) == HasFactor => session[s].aal = 2

ChangePassword(s, p) ==
    /\ PastSecondFactor(s)
    /\ SetPassword(s, p)
    /\ cookie' = IF s = cookie.s THEN Held(s) ELSE cookie
    /\ UNCHANGED visit

EnterCode(s, f) ==
    /\ AnswerChallenge(s, f)
    /\ cookie' = IF s = cookie.s THEN [s |-> s, aal |-> 2, mfa |-> TRUE] ELSE cookie
    /\ UNCHANGED visit

ChangeFactors(s, f) ==
    /\ PastSecondFactor(s)
    /\ Enroll(s, f) \/ Unenroll(s, f)
    /\ UNCHANGED <<cookie, visit>>

-----------------------------------------------------------------------------
(* A visit.                                                                *)

Open(path) ==
    /\ visit = NoVisit
    /\ visit' = [path |-> path, step |-> "proxy", c |-> NoCookie]
    /\ UNCHANGED <<server, cookie>>

\* Where decideRoute sends a request; the path itself lets it continue.
DecideRoute(path, c) ==
    CASE c.s = NoSession -> IF path = "expired" THEN path ELSE "login"
      [] c.s # NoSession /\ c.mfa /\ c.aal # 2 ->
            IF path = "expired" THEN path ELSE "mfa"
      [] OTHER -> IF path \in {"mfa", "login"} THEN "page" ELSE path

Redirect(path) == visit' = [path |-> path, step |-> "proxy", c |-> NoCookie]

\* What is left in the cookie when its token ran out and is exchanged.
Refreshed == IF cookie.s \in Live THEN Held(cookie.s) ELSE NoCookie

Proxy ==
    /\ visit.step = "proxy"
    /\ \E c \in {cookie, Refreshed} :
          LET to == DecideRoute(visit.path, c)
          IN  /\ cookie' = c
              /\ IF to = visit.path THEN visit' = [visit EXCEPT !.step = "render", !.c = c]
                                    ELSE Redirect(to)
    /\ UNCHANGED server

\* requireSession, on the cookie the request came with.
MfaRequired(c) == HasFactor /\ c.aal # 2
RequireSession(c, allowMfaPending) ==
    CASE c.s \notin Live -> "expired"
      [] c.s \in Live /\ MfaRequired(c) /\ ~allowMfaPending -> "mfa"
      [] OTHER -> "admitted"

RenderPage ==
    LET to == RequireSession(visit.c, FALSE)
    IN  /\ IF to = "admitted" THEN visit' = NoVisit ELSE Redirect(to)
        /\ UNCHANGED cookie

RenderMfa ==
    LET to == RequireSession(visit.c, TRUE)
    IN  /\ CASE to # "admitted" -> Redirect(to)
             [] to = "admitted" /\ ~MfaRequired(visit.c) -> Redirect("page")
             [] OTHER -> visit' = NoVisit
        /\ UNCHANGED cookie

RenderLogin == visit' = NoVisit /\ UNCHANGED cookie

\* The mutation: the visitor is sent to sign in with the cookie still there.
RenderExpiredKeeping ==
    /\ UNCHANGED cookie
    /\ Redirect(IF visit.c.s \in Live THEN "page" ELSE "login")

\* /auth/session-expired takes the cookie away once the session is gone.
RenderExpired ==
    /\ IF visit.c.s \in Live THEN UNCHANGED cookie ELSE cookie' = NoCookie
    /\ Redirect(IF visit.c.s \in Live THEN "page" ELSE "login")

Render ==
    /\ visit.step = "render"
    /\ \/ visit.path = "page" /\ RenderPage
       \/ visit.path = "mfa" /\ RenderMfa
       \/ visit.path = "login" /\ RenderLogin
       \/ visit.path = "expired" /\ RenderExpired
    /\ UNCHANGED server

-----------------------------------------------------------------------------
Next ==
    \/ \E s \in Sessions :
          \/ SignInHere(s)
          \/ SignInElsewhere(s)
          \/ \E scope \in {"local", "others", "global"} : SignOut(s, scope)
          \/ \E p \in Passwords : ChangePassword(s, p)
          \/ \E f \in Factors : EnterCode(s, f) \/ ChangeFactors(s, f)
    \/ \E path \in {"page", "login"} : Open(path)
    \/ Proxy
    \/ Render

\* A browser follows a redirect and the server answers.  That tokens run out,
\* or that anybody signs in or out, is not assumed.
FairSpec == Init /\ [][Next]_vars /\ WF_vars(Proxy \/ Render)

-----------------------------------------------------------------------------
\* The cookie's list of factors is not the account's, and it decides.
Outdated(c) == c.s \in Live /\ c.aal # 2 /\ c.mfa # HasFactor

(* A visit comes to an end, at a page or at sign-in, unless the browser's  *)
(* list of factors is out of date again and again.  (decideRoute,          *)
(* requireSession, /auth/session-expired.)                                 *)
VisitsEndUnlessOutdated == []<>(visit = NoVisit \/ Outdated(visit.c))
=============================================================================
