----------------------------- MODULE AuthServer -----------------------------
(***************************************************************************)
(* The Auth server as the project runs it (tools/auth-emulator): one       *)
(* account, its password, second factors, emailed links, OAuth codes and   *)
(* sessions.  Every handler runs to its end, and is saved, before the next *)
(* one starts, so each is one action here, and a restart keeps all that    *)
(* this state holds.  OAuth codes and open challenges are not kept, and    *)
(* are not here: only the browser or the request that got one can use it,  *)
(* so one that is lost shows as a call that fails.  The web application's  *)
(* steps, in SignIn, are made of these actions.                            *)
(***************************************************************************)
EXTENDS Naturals

CONSTANTS
    Sessions,       \* session ids, each used once
    Passwords,
    Factors,        \* ids of second factors, each used once
    Links,          \* hashes of emailed links, each used once
    NoPassword, NoSession, NoFactor

ASSUME AuthAssumption ==
    /\ NoPassword \notin Passwords
    /\ NoSession \notin Sessions
    /\ NoFactor \notin Factors

VARIABLES
    account,        \* "none", "unconfirmed" or "confirmed"
    password,       \* the account's password, if it has one
    factor,         \* state of each second factor
    link,           \* state of each emailed link
    session         \* of each session: its state, its level, and the
                    \* password it was begun with or has set

server == <<account, password, factor, link, session>>

AuthTypeOK ==
    /\ account \in {"none", "unconfirmed", "confirmed"}
    /\ password \in Passwords \cup {NoPassword}
    /\ factor \in [Factors -> {"new", "unverified", "verified", "gone"}]
    /\ link \in [Links -> {"new", "open", "spent"}]
    /\ session \in [Sessions -> [state : {"new", "live", "ended"},
                                 aal : {1, 2},
                                 pw : Passwords \cup {NoPassword}]]

NotBegun == [state |-> "new", aal |-> 1, pw |-> NoPassword]
Over == [state |-> "ended", aal |-> 1, pw |-> NoPassword]

\* A fresh server, or one with a confirmed account: seeded with a password, or
\* first seen through an OAuth provider and without one.
AuthInit ==
    /\ account \in {"none", "confirmed"}
    /\ password \in Passwords \cup {NoPassword}
    /\ account = "none" => password = NoPassword
    /\ factor = [f \in Factors |-> "new"]
    /\ link = [l \in Links |-> "new"]
    /\ session = [s \in Sessions |-> NotBegun]

Live == {s \in Sessions : session[s].state = "live"}
Verified == {f \in Factors : factor[f] = "verified"}
Pending == {f \in Factors : factor[f] = "unverified"}
HasFactor == Verified # {}

-----------------------------------------------------------------------------
(* Mail.                                                                   *)

\* Links of the three kinds differ in the page they open, not in what they do.
SendEmail ==
    \E l \in Links : link[l] = "new" /\ link' = [link EXCEPT ![l] = "open"]

\* POST /signup answers alike whether or not the account is there.
SignUp(p) ==
    /\ \/ /\ account = "none"
          /\ account' = "unconfirmed"
          /\ password' = p
       \/ /\ account = "unconfirmed"
          /\ UNCHANGED <<account, password>>
    /\ SendEmail
    /\ UNCHANGED <<factor, session>>

\* POST /otp as the application calls it, without creating the user, and
\* POST /recover.
SendLink ==
    /\ account # "none"
    /\ SendEmail
    /\ UNCHANGED <<account, password, factor, session>>

ExpireLink(l) ==
    /\ link[l] = "open"
    /\ link' = [link EXCEPT ![l] = "spent"]
    /\ UNCHANGED <<account, password, factor, session>>

-----------------------------------------------------------------------------
(* Sessions.                                                               *)

StartSession(s, pw) ==
    /\ session[s].state = "new"
    /\ session' = [session EXCEPT ![s] = [state |-> "live", aal |-> 1, pw |-> pw]]

PasswordAccepted(p) == account = "confirmed" /\ password # NoPassword /\ password = p

GrantPassword(s, p) ==
    /\ PasswordAccepted(p)
    /\ StartSession(s, p)
    /\ UNCHANGED <<account, password, factor, link>>

\* POST /verify: the link is spent, the address confirmed, and the session is
\* at level 1 whatever the kind of link.
VerifyLink(s, l) ==
    /\ link[l] = "open"
    /\ link' = [link EXCEPT ![l] = "spent"]
    /\ account' = "confirmed"
    /\ StartSession(s, NoPassword)
    /\ UNCHANGED <<password, factor>>

\* POST /token with an OAuth code.
ExchangeCode(s) ==
    /\ account = "confirmed"
    /\ StartSession(s, NoPassword)
    /\ UNCHANGED <<account, password, factor, link>>

\* The mutation: unless all end, the caller's own session goes instead.
LogoutOwn(s, scope) ==
    LET over == IF scope = "global" THEN Live ELSE {s}
    IN  /\ s \in Live
        /\ session' = [x \in Sessions |->
                          IF x \in over THEN Over ELSE session[x]]
        /\ UNCHANGED <<account, password, factor, link>>

Logout(s, scope) ==
    LET over == CASE scope = "local" -> {s}
                  [] scope = "others" -> Live \ {s}
                  [] scope = "global" -> Live
    IN  /\ s \in Live
        /\ session' = [x \in Sessions |->
                          IF x \in over THEN Over ELSE session[x]]
        /\ UNCHANGED <<account, password, factor, link>>

\* PUT /user with a password: any live session may, at either level.
SetPassword(s, p) ==
    /\ s \in Live
    /\ password # p
    /\ password' = p
    /\ session' = [session EXCEPT ![s].pw = p]
    /\ UNCHANGED <<account, factor, link>>

-----------------------------------------------------------------------------
(* Second factors.                                                         *)

\* The application names a factor after the day: a second one of the same day
\* is refused, which here is a choice whenever there is a factor.  Enrolling
\* drops the factors that were never confirmed.
Enroll(s, f) ==
    /\ s \in Live
    /\ factor[f] = "new"
    /\ factor' = [x \in Factors |-> CASE x = f -> "unverified"
                                      [] x \in Pending -> "gone"
                                      [] OTHER -> factor[x]]
    /\ UNCHANGED <<account, password, link, session>>

\* A challenge is open from the call that asks for it.
CanChallenge(s, f) == s \in Live /\ f \in Pending \cup Verified

\* The mutation: a level per code entered, rather than level 2.
AnswerChallengeAgain(s, f) ==
    /\ CanChallenge(s, f)
    /\ factor' = [factor EXCEPT ![f] = "verified"]
    /\ session' = [session EXCEPT ![s].aal = @ + 1]
    /\ UNCHANGED <<account, password, link>>

\* A correct code: the factor counts from now on and the session is at level 2.
AnswerChallenge(s, f) ==
    /\ CanChallenge(s, f)
    /\ factor' = [factor EXCEPT ![f] = "verified"]
    /\ session' = [session EXCEPT ![s].aal = 2]
    /\ UNCHANGED <<account, password, link>>

CanUnenroll(s, f) ==
    /\ s \in Live
    /\ f \in Pending \cup Verified
    /\ f \in Verified => session[s].aal = 2

Unenroll(s, f) ==
    /\ CanUnenroll(s, f)
    /\ factor' = [factor EXCEPT ![f] = "gone"]
    /\ UNCHANGED <<account, password, link, session>>

=============================================================================
