------------------------------- MODULE SignIn -------------------------------
(***************************************************************************)
(* The server actions of sign-in (features/auth/actions.ts): each checks   *)
(* the session with requireSession and then calls the Auth server, some of *)
(* them several times, while other requests of the same account, in the    *)
(* same session or in another, do the same.  A refusal by the rate limiter *)
(* or by a check of the input leaves nothing of this state changed.        *)
(***************************************************************************)
EXTENDS AuthServer

CONSTANTS Requests      \* server actions being served at once

VARIABLES
    req,            \* what is being served for each request
    spared          \* a password changed and the other sessions were left
                    \* (history)

vars == <<server, req, spared>>

Steps == {"check", "drop", "update", "others", "global", "challenge",
          "answer", "clear", "enroll", "unenroll"}
Ops == {"change", "reset", "mfa", "enrol", "confirm", "cancel", "remove", "everywhere"}

Idle == [op |-> "none"]
Actions == [op : Ops, s : Sessions, f : Factors \cup {NoFactor}, step : Steps,
            extra : Sessions \cup {NoSession},  \* session of changePassword's check
            guarded : BOOLEAN,                  \* a verified factor was seen
            pending : SUBSET Factors]           \* unverified ones that were seen

TypeOK ==
    /\ AuthTypeOK
    /\ req \in [Requests -> Actions \cup {Idle}]
    /\ spared \in BOOLEAN

Init ==
    /\ AuthInit
    /\ req = [r \in Requests |-> Idle]
    /\ spared = FALSE

Serving(r, step) == req[r] # Idle /\ req[r].step = step
Advance(r, step) == req' = [req EXCEPT ![r].step = step]
Finish(r) == req' = [req EXCEPT ![r] = Idle]

-----------------------------------------------------------------------------
(* Actions that need no session, one call of the Auth server each.         *)

RequestLink ==      \* requestMagicLink, requestPasswordReset, signUp
    /\ SendLink \/ \E p \in Passwords : SignUp(p)
    /\ UNCHANGED <<req, spared>>

Expire ==
    /\ \E l \in Links : ExpireLink(l)
    /\ UNCHANGED <<req, spared>>

SignInStep(s) ==    \* signInWithPassword, confirmEmailLink, /auth/callback
    /\ \/ \E p \in Passwords : GrantPassword(s, p)
       \/ \E l \in Links : VerifyLink(s, l)
       \/ ExchangeCode(s)
    /\ UNCHANGED <<req, spared>>

SignOut(s) ==
    /\ Logout(s, "local")
    /\ UNCHANGED <<req, spared>>

-----------------------------------------------------------------------------
(* requireSession, and what each action checks and remembers of the user.  *)

\* The mutation: the second factor is left to the proxy.
AdmittedUnchecked(s, allowMfaPending) == s \in Live

\* A live session, past the second factor unless that is what is asked for.
Admitted(s, allowMfaPending) ==
    /\ s \in Live
    /\ HasFactor /\ session[s].aal # 2 => allowMfaPending

Begin(r, op, s, f, step) ==
    /\ req[r] = Idle
    /\ Admitted(s, op = "mfa")
    /\ req' = [req EXCEPT ![r] =
                  [op |-> op, s |-> s, f |-> f, step |-> step, extra |-> NoSession,
                   guarded |-> HasFactor,
                   pending |-> IF op = "enrol" THEN Pending ELSE {}]]
    /\ UNCHANGED <<server, spared>>

BeginAction(r, s) ==
    \/ Begin(r, "reset", s, NoFactor, "update")
    \/ Begin(r, "change", s, NoFactor, "check")
    \/ Begin(r, "everywhere", s, NoFactor, "global")
    \/ ~HasFactor /\ Begin(r, "enrol", s, NoFactor, "clear")
    \/ \E f \in Verified : Begin(r, "mfa", s, f, "challenge")
    \/ \E f \in Pending : \/ Begin(r, "confirm", s, f, "challenge")
                          \/ Begin(r, "cancel", s, f, "unenroll")
    \/ \E f \in Verified : session[s].aal = 2 /\ Begin(r, "remove", s, f, "unenroll")

-----------------------------------------------------------------------------
(* The calls that follow.                                                  *)

\* A logout of a session that is already over changes nothing.
EndSession(s, scope) ==
    IF s \in Live THEN Logout(s, scope) ELSE UNCHANGED server

\* changePassword tries the current password with a sign-in of its own ...
CheckPassword(r, s) ==
    /\ Serving(r, "check")
    /\ GrantPassword(s, password)
    /\ req' = [req EXCEPT ![r].step = "drop", ![r].extra = s]
    /\ UNCHANGED spared

\* ... whose session it ends again.
DropCheck(r) ==
    /\ Serving(r, "drop")
    /\ EndSession(req[r].extra, "local")
    /\ Advance(r, "update")
    /\ UNCHANGED spared

UpdatePassword(r, p) ==
    /\ Serving(r, "update")
    /\ SetPassword(req[r].s, p)
    /\ Advance(r, "others")
    /\ UNCHANGED spared

\* Nothing looks at the result of the sign-out that follows: refused because
\* the caller's own session has ended meanwhile, it spares the others.
SignOutOthers(r) ==
    LET s == req[r].s
    IN  /\ Serving(r, "others")
        /\ EndSession(s, "others")
        /\ spared' = IF s \in Live THEN spared /\ session[s].pw # password ELSE TRUE
        /\ Finish(r)

SignOutEverywhere(r) ==
    /\ Serving(r, "global")
    /\ EndSession(req[r].s, "global")
    /\ Finish(r)
    /\ UNCHANGED spared

Challenge(r) ==
    /\ Serving(r, "challenge")
    /\ CanChallenge(req[r].s, req[r].f)
    /\ Advance(r, "answer")
    /\ UNCHANGED <<server, spared>>

AnswerCode(r) ==
    /\ Serving(r, "answer")
    /\ AnswerChallenge(req[r].s, req[r].f)
    /\ Finish(r)
    /\ UNCHANGED spared

\* startTotpEnrollment removes what it read as pending, never more than one
\* factor, and does not look at the result.
ClearPending(r) ==
    /\ Serving(r, "clear")
    /\ \/ \E f \in req[r].pending : Unenroll(req[r].s, f)
       \/ /\ \A f \in req[r].pending : ~CanUnenroll(req[r].s, f)
          /\ UNCHANGED server
    /\ Advance(r, "enroll")
    /\ UNCHANGED spared

EnrollTotp(r) ==
    /\ Serving(r, "enroll")
    /\ \E f \in Factors : Enroll(req[r].s, f)
    /\ Finish(r)
    /\ UNCHANGED spared

\* cancelTotpEnrollment and removeTotpFactor.
UnenrollTotp(r) ==
    /\ Serving(r, "unenroll")
    /\ Unenroll(req[r].s, req[r].f)
    /\ Finish(r)
    /\ UNCHANGED spared

\* A call refuses or fails, or the instance that serves the request is stopped.
GiveUp(r) ==
    /\ req[r] # Idle
    /\ Finish(r)
    /\ spared' = (spared \/ req[r].step = "others")
    /\ UNCHANGED server

Next ==
    \/ RequestLink
    \/ Expire
    \/ \E s \in Sessions : SignInStep(s) \/ SignOut(s)
    \/ \E r \in Requests :
          \/ \E s \in Sessions : BeginAction(r, s) \/ CheckPassword(r, s)
          \/ DropCheck(r)
          \/ \E p \in Passwords : UpdatePassword(r, p)
          \/ SignOutOthers(r)
          \/ SignOutEverywhere(r)
          \/ Challenge(r)
          \/ AnswerCode(r)
          \/ ClearPending(r)
          \/ EnrollTotp(r)
          \/ UnenrollTotp(r)
          \/ GiveUp(r)

Spec == Init /\ [][Next]_vars

-----------------------------------------------------------------------------
(* A session begun with a password that has since been replaced is over,   *)
(* unless a change is between its two calls, or the sign-out of the others *)
(* after a change never took effect.  (actions.ts: completePasswordReset,  *)
(* changePassword.)                                                        *)
OldPasswordsSignedOut ==
    \A s \in Live :
        session[s].pw \notin {NoPassword, password} =>
            spared \/ \E r \in Requests : Serving(r, "others")

(* With a second factor on, only a session at level 2, or a request let in *)
(* before there was a factor, changes the password; and a confirmed factor *)
(* is removed by a session at level 2 only, asked to remove it or having   *)
(* read it as pending.                                                     *)
SecondFactorGuards ==
    [][ /\ account = "confirmed" /\ password' # password =>
              \E r \in Requests : /\ Serving(r, "update")
                                  /\ ~HasFactor \/ ~req[r].guarded
                                                \/ session[req[r].s].aal = 2
        /\ \A f \in Verified : factor'[f] = "gone" =>
              \E r \in Requests : /\ req[r] # Idle
                                  /\ session[req[r].s].aal = 2
                                  /\ \/ f \in req[r].pending
                                     \/ req[r].op \in {"cancel", "remove"} /\ req[r].f = f
      ]_vars
=============================================================================
