---------------------------- MODULE SignInProofs ----------------------------
(***************************************************************************)
(* Proofs about SignIn, for any number of sessions, passwords, factors,    *)
(* links and requests.  The argument: sessions only begin, rise to level 2 *)
(* and end, and their password changes in one action alone; so a request   *)
(* whose user was read with a second factor acts with a session at level   *)
(* 2 or with none, and of the requests that still have other sessions to   *)
(* end one acts for the newest password, or with a session that is over.   *)
(***************************************************************************)
EXTENDS SignIn, TLAPS

\* Nobody signs in before the address is confirmed.
SessionsNeedAccount ==
    account # "confirmed" => \A s \in Sessions : session[s].state = "new"

\* What a request carries fits its next call and its session.
Fits(q, sessions) ==
    q # Idle =>
       /\ sessions[q.s].state # "new"
       /\ q.step \in {"check", "drop", "update", "others"} => q.op \in {"change", "reset"}
       /\ q.step = "unenroll" => q.op \in {"cancel", "remove"}
       /\ q.op # "mfa" /\ q.guarded /\ sessions[q.s].state = "live" => sessions[q.s].aal = 2

RequestsFit == \A r \in Requests : Fits(req[r], session)

\* A request about to end the other sessions: for the newest password, or in
\* vain.
Ending(q, sessions, newest) ==
    /\ q # Idle /\ q.step = "others"
    /\ sessions[q.s].state # "live" \/ sessions[q.s].pw = newest

OldOnesAreEnding ==
    \A s \in Live :
        session[s].pw \notin {NoPassword, password} =>
            spared \/ \E r \in Requests : Ending(req[r], session, password)

IInv ==
    /\ TypeOK
    /\ SessionsNeedAccount
    /\ RequestsFit
    /\ OldOnesAreEnding

-----------------------------------------------------------------------------
(* The Auth server.                                                        *)

\* Its actions but SetPassword, as the web application calls them.
Calls ==
    \/ UNCHANGED server
    \/ SendLink
    \/ \E p \in Passwords : SignUp(p)
    \/ \E l \in Links : ExpireLink(l)
    \/ \E s \in Sessions, p \in Passwords \cup {NoPassword} : GrantPassword(s, p)
    \/ \E s \in Sessions, l \in Links : VerifyLink(s, l)
    \/ \E s \in Sessions : ExchangeCode(s)
    \/ \E s \in Sessions : EndSession(s, "local") \/ EndSession(s, "global")
                                                  \/ EndSession(s, "others")
    \/ \E s \in Sessions, f \in Factors : Enroll(s, f) \/ AnswerChallenge(s, f)
                                                       \/ Unenroll(s, f)

LEMMA SetPasswordTyped ==
    ASSUME AuthTypeOK, NEW s \in Sessions, NEW p \in Passwords, SetPassword(s, p)
    PROVE  AuthTypeOK'
  BY DEF SetPassword, AuthTypeOK

LEMMA CallsTyped ==
    ASSUME AuthTypeOK, Calls
    PROVE  AuthTypeOK'
  <1>1. ASSUME UNCHANGED server PROVE AuthTypeOK'
    BY <1>1 DEF server, AuthTypeOK
  <1>2. ASSUME SendEmail PROVE link' \in [Links -> {"new", "open", "spent"}]
    BY <1>2 DEF SendEmail, AuthTypeOK
  <1>3. ASSUME SendLink PROVE AuthTypeOK'
    BY <1>2, <1>3 DEF SendLink, AuthTypeOK
  <1>4. ASSUME NEW p \in Passwords, SignUp(p) PROVE AuthTypeOK'
    BY <1>2, <1>4 DEF SignUp, AuthTypeOK
  <1>5. ASSUME NEW l \in Links, ExpireLink(l) PROVE AuthTypeOK'
    BY <1>5 DEF ExpireLink, AuthTypeOK
  <1>6. ASSUME NEW s \in Sessions, NEW pw \in Passwords \cup {NoPassword}, StartSession(s, pw)
        PROVE  session' \in [Sessions -> [state : {"new", "live", "ended"}, aal : {1, 2},
                                          pw : Passwords \cup {NoPassword}]]
    BY <1>6 DEF StartSession, AuthTypeOK
  <1>7. ASSUME NEW s \in Sessions, NEW p \in Passwords \cup {NoPassword}, GrantPassword(s, p)
        PROVE  AuthTypeOK'
    BY <1>6, <1>7 DEF GrantPassword, AuthTypeOK
  <1>8. ASSUME NEW s \in Sessions, NEW l \in Links, VerifyLink(s, l) PROVE AuthTypeOK'
    BY <1>6, <1>8 DEF VerifyLink, AuthTypeOK
  <1>9. ASSUME NEW s \in Sessions, ExchangeCode(s) PROVE AuthTypeOK'
    BY <1>6, <1>9 DEF ExchangeCode, AuthTypeOK
  <1>10. ASSUME NEW s \in Sessions, NEW scope, EndSession(s, scope) PROVE AuthTypeOK'
    <2>1. Over \in [state : {"new", "live", "ended"}, aal : {1, 2},
                    pw : Passwords \cup {NoPassword}]
      BY DEF Over
    <2>2. CASE Logout(s, scope)
      BY <2>1, <2>2 DEF Logout, AuthTypeOK
    <2>3. QED
      BY <1>1, <1>10, <2>2 DEF EndSession
  <1>11. ASSUME NEW s \in Sessions, NEW f \in Factors,
                Enroll(s, f) \/ AnswerChallenge(s, f) \/ Unenroll(s, f)
         PROVE  AuthTypeOK'
    <2>1. CASE Enroll(s, f)
      BY <2>1 DEF Enroll, AuthTypeOK, Pending
    <2>2. CASE AnswerChallenge(s, f)
      BY <2>2 DEF AnswerChallenge, AuthTypeOK
    <2>3. CASE Unenroll(s, f)
      BY <2>3 DEF Unenroll, AuthTypeOK
    <2>4. QED
      BY <1>11, <2>1, <2>2, <2>3
  <1>12. QED
    BY <1>1, <1>3, <1>4, <1>5, <1>7, <1>8, <1>9, <1>10, <1>11 DEF Calls

\* How one session may change: it begins with the password of the moment or
\* with none, rises, or ends.
Onwards(s) ==
    \/ session'[s] = session[s]
    \/ /\ session[s].state = "new" /\ session'[s].state = "live"
       /\ account' = "confirmed"
       /\ session'[s].pw \in {NoPassword, password'}
    \/ /\ session[s].state = "live" /\ session'[s].state = "live"
       /\ session'[s].aal = 2 /\ session'[s].pw = session[s].pw
    \/ session[s].state = "live" /\ session'[s].state = "ended"

LEMMA CallsGoOnwards ==
    ASSUME AuthTypeOK, Calls
    PROVE  /\ \A s \in Sessions : Onwards(s)
           /\ account = "confirmed" => account' = "confirmed" /\ password' = password
           /\ password' # password => account' # "confirmed"
  <1> DEFINE Goal == /\ \A s \in Sessions : Onwards(s)
                     /\ account = "confirmed" => account' = "confirmed" /\ password' = password
                     /\ password' # password => account' # "confirmed"
  <1>1. ASSUME UNCHANGED server PROVE Goal
    BY <1>1 DEF server, Onwards
  <1>2. ASSUME UNCHANGED session,
               \/ SendLink
               \/ \E p \in Passwords : SignUp(p)
               \/ \E l \in Links : ExpireLink(l)
        PROVE  Goal
    BY <1>2 DEF SendLink, SignUp, ExpireLink, Onwards
  <1>3. ASSUME NEW s \in Sessions, NEW pw \in {NoPassword, password}, StartSession(s, pw),
               account' = "confirmed", password' = password
        PROVE  Goal
    BY <1>3 DEF StartSession, AuthTypeOK, Onwards
  <1>4. ASSUME NEW s \in Sessions, NEW p \in Passwords \cup {NoPassword}, GrantPassword(s, p)
        PROVE  Goal
    BY <1>3, <1>4 DEF GrantPassword, PasswordAccepted
  <1>5. ASSUME NEW s \in Sessions, NEW l \in Links, VerifyLink(s, l) PROVE Goal
    BY <1>3, <1>5 DEF VerifyLink
  <1>6. ASSUME NEW s \in Sessions, ExchangeCode(s) PROVE Goal
    BY <1>3, <1>6 DEF ExchangeCode
  <1>7. ASSUME NEW s \in Sessions,
               EndSession(s, "local") \/ EndSession(s, "global") \/ EndSession(s, "others")
        PROVE  Goal
    <2>1. ASSUME NEW scope \in {"local", "global", "others"}, Logout(s, scope) PROVE Goal
      <3>1. PICK over : /\ \A x \in over : x \in Sessions /\ session[x].state = "live"
                        /\ session' = [x \in Sessions |->
                                         IF x \in over THEN Over ELSE session[x]]
        BY <2>1 DEF Logout, Live
      <3>2. ASSUME NEW x \in Sessions PROVE Onwards(x)
        <4>1. CASE x \in over
          BY <3>1, <4>1 DEF Onwards, Over
        <4>2. CASE x \notin over
          BY <3>1, <4>2 DEF Onwards
        <4>3. QED
          BY <4>1, <4>2
      <3>3. QED
        BY <2>1, <3>2 DEF Logout
    <2>2. QED
      BY <1>1, <1>7, <2>1 DEF EndSession
  <1>8. ASSUME NEW s \in Sessions, NEW f \in Factors,
               Enroll(s, f) \/ AnswerChallenge(s, f) \/ Unenroll(s, f)
        PROVE  Goal
    <2>1. CASE Enroll(s, f) \/ Unenroll(s, f)
      BY <2>1 DEF Enroll, Unenroll, Onwards
    <2>2. CASE AnswerChallenge(s, f)
      <3>1. \A x \in Sessions \ {s} : session'[x] = session[x]
        BY <2>2 DEF AnswerChallenge, AuthTypeOK
      <3>2. /\ session[s].state = "live" /\ session'[s].state = "live"
            /\ session'[s].aal = 2 /\ session'[s].pw = session[s].pw
        BY <2>2 DEF AnswerChallenge, AuthTypeOK, CanChallenge, Live
      <3>3. QED
        BY <2>2, <3>1, <3>2 DEF AnswerChallenge, Onwards
    <2>3. QED
      BY <1>8, <2>1, <2>2
  <1>9. QED
    BY <1>1, <1>2, <1>4, <1>5, <1>6, <1>7, <1>8 DEF Calls, SendLink, SignUp, ExpireLink

-----------------------------------------------------------------------------
(* The requests.                                                           *)

LEMMA IdleApart ==
    /\ Idle.op = "none"
    /\ Idle \notin Actions
    /\ \A q \in Actions : q # Idle
  BY DEF Idle, Actions, Ops

\* A request goes on to its next call, or is over; whoever had sessions to end
\* and no longer will leaves a mark.
GoesOn(r) ==
    \/ /\ \/ Serving(r, "drop") /\ Advance(r, "update")
          \/ Serving(r, "clear") /\ Advance(r, "enroll")
          \/ Serving(r, "challenge") /\ Advance(r, "answer")
       /\ UNCHANGED spared
    \/ /\ Finish(r)
       /\ spared' \in BOOLEAN
       /\ spared \/ Serving(r, "others") => spared'

Serve == UNCHANGED <<req, spared>> \/ \E r \in Requests : GoesOn(r)

\* The steps of the web application.
LEMMA Cases ==
    ASSUME TypeOK, [Next]_vars
    PROVE  \/ Calls /\ Serve
           \/ \E r \in Requests, s \in Sessions : BeginAction(r, s)
           \/ \E r \in Requests, s \in Sessions : CheckPassword(r, s)
           \/ \E r \in Requests, p \in Passwords : UpdatePassword(r, p)
           \/ \E r \in Requests : SignOutOthers(r)
  <1>1. ASSUME RequestLink \/ Expire PROVE Calls /\ Serve
    BY <1>1 DEF RequestLink, Expire, Calls, Serve
  <1>2. ASSUME NEW s \in Sessions, SignInStep(s) PROVE Calls /\ Serve
    BY <1>2 DEF SignInStep, Calls, Serve
  <1>3. ASSUME NEW s \in Sessions, SignOut(s) PROVE Calls /\ Serve
    BY <1>3 DEF SignOut, Calls, Serve, EndSession, Logout
  <1>4. ASSUME NEW r \in Requests, req[r] # Idle
        PROVE  /\ req[r] \in Actions
               /\ req[r].s \in Sessions
               /\ \A f \in req[r].pending : f \in Factors
    BY <1>4 DEF TypeOK, Actions
  <1>5. ASSUME NEW r \in Requests, DropCheck(r) PROVE Calls /\ Serve
    <2>1. Serve
      BY <1>5 DEF DropCheck, Serve, GoesOn
    <2>2. EndSession(req[r].extra, "local")
      BY <1>5 DEF DropCheck
    <2>3. CASE req[r].extra \in Sessions
      BY <2>1, <2>2, <2>3 DEF Calls
    <2>4. CASE req[r].extra \notin Sessions
      BY <2>1, <2>2, <2>4 DEF Calls, EndSession, Live
    <2>5. QED
      BY <2>3, <2>4
  <1>6. ASSUME NEW r \in Requests, SignOutEverywhere(r) PROVE Calls /\ Serve
    <2>1. Serve
      BY <1>6 DEF SignOutEverywhere, Serve, GoesOn, Serving, TypeOK
    <2>2. Calls
      BY <1>4, <1>6 DEF SignOutEverywhere, Serving, Calls
    <2>3. QED
      BY <2>1, <2>2
  <1>7. ASSUME NEW r \in Requests, Challenge(r) PROVE Calls /\ Serve
    BY <1>7 DEF Challenge, Serve, GoesOn, Calls
  <1>8. ASSUME NEW r \in Requests, AnswerCode(r) PROVE Calls /\ Serve
    <2>1. req[r].f \in Factors
      BY <1>8 DEF AnswerCode, AnswerChallenge, CanChallenge, Pending, Verified
    <2>2. Serve
      BY <1>8 DEF AnswerCode, Serve, GoesOn, Serving, TypeOK
    <2>3. Calls
      BY <1>4, <1>8, <2>1 DEF AnswerCode, Serving, Calls
    <2>4. QED
      BY <2>2, <2>3
  <1>9. ASSUME NEW r \in Requests, ClearPending(r) PROVE Calls /\ Serve
    <2>1. Serve
      BY <1>9 DEF ClearPending, Serve, GoesOn
    <2>2. Calls
      BY <1>4, <1>9 DEF ClearPending, Serving, Calls
    <2>3. QED
      BY <2>1, <2>2
  <1>10. ASSUME NEW r \in Requests, EnrollTotp(r) PROVE Calls /\ Serve
    <2>1. Serve
      BY <1>10 DEF EnrollTotp, Serve, GoesOn, Serving, TypeOK
    <2>2. Calls
      BY <1>4, <1>10 DEF EnrollTotp, Serving, Calls
    <2>3. QED
      BY <2>1, <2>2
  <1>11. ASSUME NEW r \in Requests, UnenrollTotp(r) PROVE Calls /\ Serve
    <2>1. req[r].f \in Factors
      BY <1>11 DEF UnenrollTotp, Unenroll, CanUnenroll, Pending, Verified
    <2>2. Serve
      BY <1>11 DEF UnenrollTotp, Serve, GoesOn, Serving, TypeOK
    <2>3. Calls
      BY <1>4, <1>11, <2>1 DEF UnenrollTotp, Serving, Calls
    <2>4. QED
      BY <2>2, <2>3
  <1>12. ASSUME NEW r \in Requests, GiveUp(r) PROVE Calls /\ Serve
    BY <1>12 DEF GiveUp, Serve, GoesOn, Serving, Calls, TypeOK
  <1>13. CASE UNCHANGED vars
    BY <1>13 DEF vars, Calls, Serve
  <1>14. QED
    BY <1>1, <1>2, <1>3, <1>5, <1>6, <1>7, <1>8, <1>9, <1>10, <1>11, <1>12, <1>13 DEF Next

\* What BeginAction lets in.
LEMMA Begun ==
    ASSUME TypeOK, NEW r \in Requests, NEW s \in Sessions, BeginAction(r, s)
    PROVE  \E q \in Actions :
              /\ req' = [req EXCEPT ![r] = q]
              /\ q.s = s /\ s \in Live
              /\ q.step \in {"check", "drop", "update", "others"} => q.op \in {"change", "reset"}
              /\ q.step = "unenroll" => q.op \in {"cancel", "remove"}
              /\ q.op # "mfa" /\ q.guarded => session[s].aal = 2
              /\ q.step # "others"
              /\ UNCHANGED <<server, spared>>
  <1>1. PICK op \in Ops, f \in Factors \cup {NoFactor}, step \in Steps :
          /\ Begin(r, op, s, f, step)
          /\ step \in {"check", "drop", "update", "others"} => op \in {"change", "reset"}
          /\ step = "unenroll" => op \in {"cancel", "remove"}
          /\ step # "others"
    BY DEF BeginAction, Ops, Steps, Verified, Pending
  <1> DEFINE q == [op |-> op, s |-> s, f |-> f, step |-> step, extra |-> NoSession,
                   guarded |-> HasFactor,
                   pending |-> IF op = "enrol" THEN Pending ELSE {}]
  <1>2. q \in Actions
    BY DEF Actions, Pending, HasFactor
  <1>3. q.op = op /\ q.s = s /\ q.step = step /\ q.guarded = HasFactor
    OBVIOUS
  <1>4. req' = [req EXCEPT ![r] = q] /\ s \in Live /\ UNCHANGED <<server, spared>>
    BY <1>1 DEF Begin, Admitted
  <1>5. op # "mfa" /\ HasFactor => session[s].aal = 2
    BY <1>1 DEF Begin, Admitted
  <1> HIDE DEF q
  <1>6. QED
    BY <1>1, <1>2, <1>3, <1>4, <1>5

-----------------------------------------------------------------------------
LEMMA ServeTyped ==
    ASSUME TypeOK, Serve
    PROVE  req' \in [Requests -> Actions \cup {Idle}] /\ spared' \in BOOLEAN
  <1>1. ASSUME NEW r \in Requests, NEW step \in Steps, req[r] # Idle, Advance(r, step)
        PROVE  req' \in [Requests -> Actions \cup {Idle}]
    <2>1. [req[r] EXCEPT !.step = step] \in Actions
      BY <1>1 DEF TypeOK, Actions
    <2>2. req' = [req EXCEPT ![r] = [req[r] EXCEPT !.step = step]]
      BY <1>1 DEF Advance
    <2>3. QED
      BY <2>1, <2>2 DEF TypeOK
  <1>2. ASSUME NEW r \in Requests, GoesOn(r)
        PROVE  req' \in [Requests -> Actions \cup {Idle}] /\ spared' \in BOOLEAN
    BY <1>1, <1>2 DEF GoesOn, Serving, Finish, Steps, TypeOK
  <1>3. QED
    BY <1>2 DEF Serve, TypeOK

LEMMA TypeStep ==
    ASSUME TypeOK, [Next]_vars
    PROVE  TypeOK'
  <1>1. CASE Calls /\ Serve
    BY <1>1, CallsTyped, ServeTyped DEF TypeOK
  <1>2. ASSUME NEW r \in Requests, NEW s \in Sessions, BeginAction(r, s)
        PROVE  TypeOK'
    <2>1. PICK q \in Actions : req' = [req EXCEPT ![r] = q] /\ UNCHANGED <<server, spared>>
      BY <1>2, Begun
    <2>2. AuthTypeOK'
      BY <2>1, CallsTyped DEF Calls, TypeOK
    <2>3. QED
      BY <2>1, <2>2 DEF TypeOK
  <1>3. ASSUME NEW r \in Requests, NEW s \in Sessions, CheckPassword(r, s)
        PROVE  TypeOK'
    <2>1. GrantPassword(s, password) /\ password \in Passwords \cup {NoPassword}
      BY <1>3 DEF CheckPassword, TypeOK, AuthTypeOK
    <2>2. AuthTypeOK'
      BY <2>1, CallsTyped DEF Calls, TypeOK
    <2>3. [req[r] EXCEPT !.step = "drop", !.extra = s] \in Actions
      BY <1>3 DEF CheckPassword, Serving, TypeOK, Actions, Steps
    <2>4. req' = [req EXCEPT ![r] = [req[r] EXCEPT !.step = "drop", !.extra = s]]
          /\ UNCHANGED spared
      BY <1>3 DEF CheckPassword, TypeOK
    <2>5. QED
      BY <2>2, <2>3, <2>4 DEF TypeOK
  <1>4. ASSUME NEW r \in Requests, NEW p \in Passwords, UpdatePassword(r, p)
        PROVE  TypeOK'
    <2>1. req[r] \in Actions /\ req[r].s \in Sessions
      BY <1>4 DEF UpdatePassword, Serving, TypeOK, Actions
    <2>2. AuthTypeOK'
      BY <1>4, <2>1, SetPasswordTyped DEF UpdatePassword, TypeOK
    <2>3. [req[r] EXCEPT !.step = "others"] \in Actions
      BY <2>1 DEF Actions, Steps
    <2>4. req' = [req EXCEPT ![r] = [req[r] EXCEPT !.step = "others"]] /\ UNCHANGED spared
      BY <1>4 DEF UpdatePassword, Advance
    <2>5. QED
      BY <2>2, <2>3, <2>4 DEF TypeOK
  <1>5. ASSUME NEW r \in Requests, SignOutOthers(r)
        PROVE  TypeOK'
    <2>1. req[r].s \in Sessions /\ EndSession(req[r].s, "others")
      BY <1>5 DEF SignOutOthers, Serving, TypeOK, Actions
    <2>2. AuthTypeOK'
      BY <2>1, CallsTyped DEF Calls, TypeOK
    <2>3. Finish(r) /\ spared' \in BOOLEAN
      BY <1>5 DEF SignOutOthers, TypeOK
    <2>4. QED
      BY <2>2, <2>3 DEF TypeOK, Finish
  <1>6. QED
    BY Cases, <1>1, <1>2, <1>3, <1>4, <1>5

-----------------------------------------------------------------------------
\* Sessions that go onwards leave what a request carries fitting.
LEMMA StillFits ==
    ASSUME TypeOK, NEW q \in Actions \cup {Idle}, Fits(q, session), Onwards(q.s)
    PROVE  Fits(q, session')
  <1>1. CASE q = Idle
    BY <1>1 DEF Fits
  <1>2. CASE q # Idle
    <2>1. /\ session'[q.s].state # "new"
          /\ session'[q.s].state = "live" => session[q.s].state = "live"
          /\ session'[q.s].state = "live" /\ session[q.s].aal = 2 => session'[q.s].aal = 2
      BY <1>2 DEF Fits, Onwards
    <2>2. QED
      BY <1>2, <2>1 DEF Fits
  <1>3. QED
    BY <1>1, <1>2

LEMMA SetPasswordGoesOnwards ==
    ASSUME AuthTypeOK, NEW s \in Sessions, NEW p, SetPassword(s, p)
    PROVE  /\ \A x \in Sessions : /\ session'[x].state = session[x].state
                                  /\ session'[x].aal = session[x].aal
           /\ \A x \in Sessions \ {s} : session'[x] = session[x]
           /\ session'[s].pw = p /\ password' = p /\ s \in Live
           /\ account' = account
  BY DEF SetPassword, AuthTypeOK

\* One request is replaced, and sessions go onwards.
LEMMA FitAfter ==
    ASSUME TypeOK, RequestsFit, NEW r \in Requests, NEW q, Fits(q, session'),
           req' = [req EXCEPT ![r] = q],
           \A s \in Sessions : Onwards(s)
    PROVE  RequestsFit'
  <1> SUFFICES ASSUME NEW x \in Requests PROVE Fits(req'[x], session')
    BY DEF RequestsFit
  <1>1. CASE x = r
    <2>1. req'[x] = q
      BY <1>1 DEF TypeOK
    <2>2. QED
      BY <2>1 DEF Fits
  <1>2. CASE x # r
    <2> DEFINE y == req[x]
    <2>1. req'[x] = y
      BY <1>2 DEF TypeOK
    <2>2. y \in Actions \cup {Idle} /\ Fits(y, session)
      BY DEF TypeOK, RequestsFit
    <2>3. y # Idle => Onwards(y.s)
      BY <2>2 DEF Actions
    <2>4. y # Idle => /\ session[y.s].state # "new"
                      /\ session'[y.s].state # "new"
                      /\ session'[y.s].state = "live" => session[y.s].state = "live"
                      /\ session'[y.s].state = "live" /\ session[y.s].aal = 2
                            => session'[y.s].aal = 2
      BY <2>2, <2>3 DEF Fits, Onwards
    <2>5. QED
      BY <2>1, <2>2, <2>4 DEF Fits
  <1>3. QED
    BY <1>1, <1>2

LEMMA FitsStep ==
    ASSUME TypeOK, SessionsNeedAccount, RequestsFit, [Next]_vars
    PROVE  RequestsFit' /\ SessionsNeedAccount'
  <1>1. ASSUME NEW r \in Requests, req[r] # Idle
        PROVE  req[r] \in Actions /\ req[r].s \in Sessions /\ Fits(req[r], session)
    BY <1>1 DEF TypeOK, Actions, RequestsFit
  <1>2. ASSUME Calls PROVE SessionsNeedAccount' /\ \A s \in Sessions : Onwards(s)
    BY <1>2, CallsGoOnwards DEF SessionsNeedAccount, Onwards, TypeOK
  <1>3. Fits(Idle, session')
    BY DEF Fits
  \* The request that goes on keeps its session and what it saw.
  <1>4. ASSUME NEW r \in Requests, req[r] # Idle, Calls, NEW q,
               q.s = req[r].s, q.op = req[r].op, q.guarded = req[r].guarded,
               q.step \in {"check", "drop", "update", "others"} => q.op \in {"change", "reset"},
               q.step # "unenroll"
        PROVE  Fits(q, session')
    <2>1. Onwards(q.s) /\ Fits(req[r], session)
      BY <1>1, <1>2, <1>4
    <2>2. QED
      BY <1>4, <2>1 DEF Fits, Onwards
  <1>5. CASE Calls /\ Serve
    <2>1. CASE UNCHANGED <<req, spared>>
      <3>1. CASE Requests = {}
        BY <1>2, <1>5, <3>1 DEF RequestsFit
      <3>2. CASE Requests # {}
        <4>1. PICK r \in Requests : TRUE
          BY <3>2
        <4>2. req' = [req EXCEPT ![r] = req[r]]
          BY <2>1 DEF TypeOK
        <4>3. req[r] \in Actions \cup {Idle} /\ Fits(req[r], session)
          BY DEF TypeOK, RequestsFit
        <4> DEFINE y == req[r]
        <4>4. y # Idle => Onwards(y.s)
          BY <1>1, <1>2, <1>5
        <4> HIDE DEF y
        <4>5. Fits(y, session')
          <5>1. CASE y = Idle
            BY <1>3, <5>1 DEF Fits
          <5>2. CASE y # Idle
            BY <4>3, <4>4, <5>2, StillFits DEF y
          <5>3. QED
            BY <5>1, <5>2
        <4>6. QED
          BY <1>2, <1>5, <4>2, <4>5, FitAfter DEF y
      <3>3. QED
        BY <3>1, <3>2
    <2>2. ASSUME NEW r \in Requests, Finish(r)
          PROVE  RequestsFit' /\ SessionsNeedAccount'
      BY <1>2, <1>3, <1>5, <2>2, FitAfter DEF Finish
    <2>3. ASSUME NEW r \in Requests, req[r] # Idle,
                 NEW step \in {"update", "enroll", "answer"}, Advance(r, step),
                 step = "update" => req[r].step = "drop"
          PROVE  RequestsFit' /\ SessionsNeedAccount'
      <3> DEFINE q == [req[r] EXCEPT !.step = step]
      <3>1. q.s = req[r].s /\ q.op = req[r].op /\ q.guarded = req[r].guarded /\ q.step = step
        BY <1>1, <2>3 DEF Actions
      <3>2. step = "update" => req[r].op \in {"change", "reset"}
        BY <1>1, <2>3 DEF Fits
      <3>3. req' = [req EXCEPT ![r] = q]
        BY <2>3 DEF Advance
      <3> HIDE DEF q
      <3>4. Fits(q, session')
        BY <1>4, <1>5, <2>3, <3>1, <3>2
      <3>5. QED
        BY <1>2, <1>5, <3>3, <3>4, FitAfter
    <2>4. QED
      BY <1>5, <2>1, <2>2, <2>3 DEF Serve, GoesOn, Serving
  <1>6. ASSUME NEW r \in Requests, NEW s \in Sessions, BeginAction(r, s)
        PROVE  RequestsFit' /\ SessionsNeedAccount'
    <2>1. PICK q \in Actions :
              /\ req' = [req EXCEPT ![r] = q]
              /\ q.s = s /\ s \in Live
              /\ q.step \in {"check", "drop", "update", "others"} => q.op \in {"change", "reset"}
              /\ q.step = "unenroll" => q.op \in {"cancel", "remove"}
              /\ q.op # "mfa" /\ q.guarded => session[s].aal = 2
              /\ UNCHANGED <<server, spared>>
      BY <1>6, Begun
    <2>2. session[s].state = "live" /\ UNCHANGED session /\ Calls
      BY <2>1 DEF Live, server, Calls
    <2>3. Fits(q, session')
      BY <2>1, <2>2 DEF Fits
    <2>4. QED
      BY <1>2, <2>1, <2>2, <2>3, FitAfter
  <1>7. ASSUME NEW r \in Requests, NEW s \in Sessions, CheckPassword(r, s)
        PROVE  RequestsFit' /\ SessionsNeedAccount'
    <2> DEFINE q == [req[r] EXCEPT !.step = "drop", !.extra = s]
    <2>1. req[r] # Idle /\ req[r].step = "check"
      BY <1>7 DEF CheckPassword, Serving
    <2>2. Calls
      BY <1>7 DEF CheckPassword, Calls, TypeOK, AuthTypeOK
    <2>3. q.s = req[r].s /\ q.op = req[r].op /\ q.guarded = req[r].guarded /\ q.step = "drop"
      BY <1>1, <2>1 DEF Actions
    <2>4. req' = [req EXCEPT ![r] = q] /\ req[r].op \in {"change", "reset"}
      BY <1>1, <1>7, <2>1 DEF CheckPassword, Fits
    <2> HIDE DEF q
    <2>5. Fits(q, session')
      BY <1>4, <2>1, <2>2, <2>3, <2>4
    <2>6. QED
      BY <1>2, <2>2, <2>4, <2>5, FitAfter
  <1>8. ASSUME NEW r \in Requests, NEW p \in Passwords, UpdatePassword(r, p)
        PROVE  RequestsFit' /\ SessionsNeedAccount'
    <2> DEFINE q == [req[r] EXCEPT !.step = "others"]
    <2>1. req[r] # Idle /\ req[r].step = "update" /\ SetPassword(req[r].s, p)
      BY <1>8 DEF UpdatePassword, Serving
    <2>2. \A x \in Sessions : /\ session'[x].state = session[x].state
                              /\ session'[x].aal = session[x].aal
      BY <1>1, <2>1, SetPasswordGoesOnwards DEF TypeOK
    <2>3. q.s = req[r].s /\ q.op = req[r].op /\ q.guarded = req[r].guarded /\ q.step = "others"
      BY <1>1, <2>1 DEF Actions
    <2>4. \A x \in Requests \ {r} : req'[x] = req[x]
      BY <1>8 DEF UpdatePassword, Advance, TypeOK
    <2>5. req'[r] = q
      BY <1>8 DEF UpdatePassword, Advance, TypeOK
    <2>6. \A x \in Requests : req[x] \in Actions \cup {Idle} /\ Fits(req[x], session)
      BY DEF TypeOK, RequestsFit
    <2> HIDE DEF q
    <2>7. Fits(q, session')
      BY <1>1, <2>1, <2>2, <2>3 DEF Fits
    <2>8. \A x \in Requests \ {r} : Fits(req'[x], session')
      BY <1>1, <2>2, <2>4, <2>6 DEF Fits
    <2>9. Fits(req'[r], session')
      BY <2>5, <2>7 DEF Fits
    <2>10. account' = account /\ SessionsNeedAccount'
      BY <1>1, <2>1, <2>2, SetPasswordGoesOnwards DEF SessionsNeedAccount, TypeOK
    <2>11. QED
      BY <2>8, <2>9, <2>10 DEF RequestsFit
  <1>9. ASSUME NEW r \in Requests, SignOutOthers(r)
        PROVE  RequestsFit' /\ SessionsNeedAccount'
    <2>1. Calls /\ Finish(r)
      BY <1>1, <1>9 DEF SignOutOthers, Serving, Calls
    <2>2. QED
      BY <1>2, <1>3, <2>1, FitAfter DEF Finish
  <1>10. QED
    BY Cases, <1>5, <1>6, <1>7, <1>8, <1>9

-----------------------------------------------------------------------------
\* Sessions go onwards and the requests that have others to end stay, or leave
\* a mark: every outdated session was outdated before.
LEMMA StillEnding ==
    ASSUME TypeOK, SessionsNeedAccount, RequestsFit, OldOnesAreEnding, Calls,
           spared => spared',
           \A r \in Requests : req[r] # Idle /\ req[r].step = "others" =>
                                  spared' \/ req'[r] = req[r]
    PROVE  OldOnesAreEnding'
  <1> SUFFICES ASSUME NEW s \in Live', session'[s].pw \notin {NoPassword, password'}
               PROVE  spared' \/ \E r \in Requests : Ending(req'[r], session', password')
    BY DEF OldOnesAreEnding
  <1>1. /\ \A x \in Sessions : Onwards(x)
        /\ account = "confirmed" => password' = password
        /\ SessionsNeedAccount
        /\ password' # password => account # "confirmed"
    BY CallsGoOnwards DEF TypeOK
  <1>2. s \in Sessions /\ session'[s].state = "live"
    BY DEF Live
  <1>3. s \in Live /\ session[s].pw = session'[s].pw
    BY <1>1, <1>2 DEF Onwards, Live
  <1>4. password' = password
    BY <1>1, <1>3 DEF SessionsNeedAccount, Live
  <1>5. spared \/ \E r \in Requests : Ending(req[r], session, password)
    BY <1>3, <1>4 DEF OldOnesAreEnding
  <1>6. ASSUME NEW r \in Requests, Ending(req[r], session, password)
        PROVE  spared' \/ Ending(req'[r], session', password')
    <2>1. req[r].s \in Sessions /\ Fits(req[r], session) /\ req[r] # Idle
      BY <1>6 DEF Ending, TypeOK, Actions, RequestsFit
    <2>2. \/ session'[req[r].s].state # "live"
          \/ session'[req[r].s].pw = password
      BY <1>1, <1>6, <2>1 DEF Onwards, Ending, Fits
    <2>3. QED
      BY <1>4, <1>6, <2>1, <2>2 DEF Ending
  <1>7. QED
    BY <1>5, <1>6

LEMMA EndingStep ==
    ASSUME TypeOK, SessionsNeedAccount, RequestsFit, OldOnesAreEnding, [Next]_vars
    PROVE  OldOnesAreEnding'
  <1>1. CASE Calls /\ Serve
    <2>1. spared => spared'
      BY <1>1 DEF Serve, GoesOn
    <2>2. ASSUME NEW r \in Requests, req[r] # Idle, req[r].step = "others"
          PROVE  spared' \/ req'[r] = req[r]
      BY <1>1, <2>2 DEF Serve, GoesOn, Serving, Advance, Finish, TypeOK
    <2>3. QED
      BY <1>1, <2>1, <2>2, StillEnding
  <1>2. ASSUME NEW r \in Requests, NEW s \in Sessions, BeginAction(r, s)
        PROVE  OldOnesAreEnding'
    <2>1. PICK q \in Actions : req' = [req EXCEPT ![r] = q] /\ UNCHANGED <<server, spared>>
      BY <1>2, Begun
    <2>2. req[r] = Idle
      BY <1>2 DEF BeginAction, Begin
    <2>3. \A x \in Requests : req[x] # Idle => req'[x] = req[x]
      BY <2>1, <2>2 DEF TypeOK
    <2>4. Calls /\ spared' = spared
      BY <2>1 DEF Calls
    <2>5. QED
      BY <2>3, <2>4, StillEnding
  <1>3. ASSUME NEW r \in Requests, NEW s \in Sessions, CheckPassword(r, s)
        PROVE  OldOnesAreEnding'
    <2>1. Calls /\ spared' = spared
      BY <1>3 DEF CheckPassword, Calls, TypeOK, AuthTypeOK
    <2>2. \A x \in Requests : req[x] # Idle /\ req[x].step = "others" => req'[x] = req[x]
      BY <1>3 DEF CheckPassword, Serving, TypeOK
    <2>3. QED
      BY <2>1, <2>2, StillEnding
  <1>4. ASSUME NEW r \in Requests, NEW p \in Passwords, UpdatePassword(r, p)
        PROVE  OldOnesAreEnding'
    <2>1. req[r] \in Actions /\ req[r].s \in Sessions /\ SetPassword(req[r].s, p)
      BY <1>4 DEF UpdatePassword, Serving, TypeOK, Actions
    <2>2. req'[r] = [req[r] EXCEPT !.step = "others"]
      BY <1>4 DEF UpdatePassword, Advance, TypeOK
    <2>3. req'[r].s = req[r].s /\ req'[r].step = "others" /\ req'[r] \in Actions
      BY <2>1, <2>2 DEF Actions, Steps
    <2>4. session'[req[r].s].pw = p /\ password' = p
      BY <2>1, SetPasswordGoesOnwards DEF TypeOK
    <2>5. Ending(req'[r], session', password')
      BY <2>3, <2>4, IdleApart DEF Ending
    <2>6. QED
      BY <2>5 DEF OldOnesAreEnding
  <1>5. ASSUME NEW r \in Requests, SignOutOthers(r)
        PROVE  OldOnesAreEnding'
    <2> DEFINE s == req[r].s
    <2>1. /\ req[r] \in Actions /\ s \in Sessions /\ EndSession(s, "others")
          /\ req[r] # Idle /\ req[r].step = "others"
      BY <1>5 DEF SignOutOthers, Serving, TypeOK, Actions
    <2>2. /\ req' = [req EXCEPT ![r] = Idle]
          /\ s \notin Live => spared'
          /\ s \in Live => spared' = (spared /\ session[s].pw # password)
      BY <1>5 DEF SignOutOthers, Finish
    <2>3. CASE s \notin Live
      BY <2>2, <2>3 DEF OldOnesAreEnding
    <2>4. CASE s \in Live
      <3>1. /\ session' = [x \in Sessions |-> IF x \in Live \ {s} THEN Over ELSE session[x]]
            /\ UNCHANGED password
        BY <2>1, <2>4 DEF EndSession, Logout
      <3>2. /\ session'[s] = session[s]
            /\ \A x \in Sessions \ {s} : session'[x].state # "live"
        BY <2>1, <3>1 DEF Over, Live
      <3>3. SUFFICES ASSUME session[s].pw \notin {NoPassword, password}
                     PROVE  spared' \/ \E x \in Requests : Ending(req'[x], session', password')
        BY <3>1, <3>2 DEF OldOnesAreEnding, Live
      <3>4. spared \/ \E x \in Requests : Ending(req[x], session, password)
        BY <2>4, <3>3 DEF OldOnesAreEnding
      <3>5. CASE spared
        BY <2>2, <2>4, <3>3, <3>5
      <3>6. ASSUME NEW x \in Requests, Ending(req[x], session, password)
            PROVE  Ending(req'[x], session', password')
        <4>1. req[x].s \in Sessions /\ req[x].s # s
          BY <2>4, <3>3, <3>6 DEF Ending, TypeOK, Actions, Live
        <4>2. req'[x] = req[x]
          BY <2>2, <4>1 DEF TypeOK
        <4>3. QED
          BY <3>2, <3>6, <4>1, <4>2 DEF Ending
      <3>7. QED
        BY <3>4, <3>5, <3>6
    <2>5. QED
      BY <2>3, <2>4
  <1>6. QED
    BY Cases, <1>1, <1>2, <1>3, <1>4, <1>5

-----------------------------------------------------------------------------
LEMMA InitIInv == Init => IInv
  <1> SUFFICES ASSUME Init PROVE IInv
    OBVIOUS
  <1>1. \A s \in Sessions : session[s] = NotBegun
    BY DEF Init, AuthInit
  <1>2. AuthTypeOK
    BY DEF Init, AuthInit, AuthTypeOK, NotBegun
  <1>3. TypeOK
    BY <1>2 DEF Init, TypeOK
  <1>4. SessionsNeedAccount /\ Live = {}
    BY <1>1 DEF SessionsNeedAccount, Live, NotBegun
  <1>5. RequestsFit
    BY DEF Init, RequestsFit, Fits
  <1>6. QED
    BY <1>3, <1>4, <1>5 DEF IInv, OldOnesAreEnding

LEMMA StepIInv == IInv /\ [Next]_vars => IInv'
  BY TypeStep, FitsStep, EndingStep DEF IInv

LEMMA Invariant == Spec => []IInv
  BY InitIInv, StepIInv, PTL DEF Spec

\* Every variable stays in its type.  (SignIn, AuthServer.)
THEOREM TypeCorrect == Spec => []TypeOK
  <1>1. IInv => TypeOK
    BY DEF IInv
  <1>2. QED
    BY Invariant, <1>1, PTL

\* A session begun with a replaced password is over, or about to be, unless a
\* sign-out of the others never took effect.  (actions.ts: completePasswordReset
\* and changePassword.)
THEOREM OldPasswordsEnd == Spec => []OldPasswordsSignedOut
  <1>1. IInv => OldPasswordsSignedOut
    BY DEF IInv, OldOnesAreEnding, OldPasswordsSignedOut, Ending, Serving
  <1>2. QED
    BY Invariant, <1>1, PTL

\* The password of a confirmed account changes in one action alone.
LEMMA PasswordGuarded ==
    ASSUME TypeOK, RequestsFit, [Next]_vars, account = "confirmed", password' # password
    PROVE  \E r \in Requests : /\ Serving(r, "update")
                               /\ ~HasFactor \/ ~req[r].guarded \/ session[req[r].s].aal = 2
  <1>1. ~Calls
    BY CallsGoOnwards DEF TypeOK
  <1>2. PICK r \in Requests : \E p \in Passwords : UpdatePassword(r, p)
    <2>1. ASSUME NEW r \in Requests, NEW s \in Sessions, BeginAction(r, s) PROVE FALSE
      BY <1>1, <2>1, Begun DEF Calls
    <2>2. ASSUME NEW r \in Requests, NEW s \in Sessions, CheckPassword(r, s) PROVE FALSE
      BY <1>1, <2>2 DEF CheckPassword, Calls, TypeOK, AuthTypeOK
    <2>3. ASSUME NEW r \in Requests, SignOutOthers(r) PROVE FALSE
      BY <1>1, <2>3 DEF SignOutOthers, Serving, TypeOK, Actions, Calls
    <2>4. QED
      BY Cases, <1>1, <2>1, <2>2, <2>3
  <1>3. /\ req[r] # Idle /\ req[r].step = "update"
        /\ req[r] \in Actions /\ Fits(req[r], session)
        /\ session[req[r].s].state = "live"
    BY <1>2 DEF UpdatePassword, Serving, SetPassword, Live, TypeOK, RequestsFit
  <1>4. req[r].guarded => session[req[r].s].aal = 2
    BY <1>3 DEF Fits
  <1>5. QED
    BY <1>3, <1>4 DEF Serving

\* A confirmed factor is removed by an Unenroll alone.
LEMMA FactorGuarded ==
    ASSUME TypeOK, RequestsFit, [Next]_vars, NEW f \in Verified, factor'[f] = "gone"
    PROVE  \E r \in Requests : /\ req[r] # Idle
                               /\ session[req[r].s].aal = 2
                               /\ \/ f \in req[r].pending
                                  \/ req[r].op \in {"cancel", "remove"} /\ req[r].f = f
  <1>1. factor[f] = "verified" /\ f \in Factors
    BY DEF Verified
  <1>2. ASSUME UNCHANGED factor PROVE FALSE
    BY <1>1, <1>2
  <1>3. ASSUME NEW s, NEW scope, EndSession(s, scope) PROVE UNCHANGED factor
    BY <1>3 DEF EndSession, Logout, server
  <1>4. ASSUME NEW s, NEW x, Enroll(s, x) PROVE FALSE
    BY <1>1, <1>4 DEF Enroll, Pending
  <1>5. ASSUME NEW s, NEW x, AnswerChallenge(s, x) PROVE FALSE
    BY <1>1, <1>5 DEF AnswerChallenge, TypeOK, AuthTypeOK
  <1>6. ASSUME NEW s, NEW x, Unenroll(s, x) PROVE x = f /\ session[s].aal = 2
    BY <1>1, <1>6 DEF Unenroll, CanUnenroll, Verified, TypeOK, AuthTypeOK
  <1>7. PICK r \in Requests : ClearPending(r) \/ UnenrollTotp(r)
    <2>1. ASSUME NEW r \in Requests, \/ \E s \in Sessions : BeginAction(r, s) \/ CheckPassword(r, s)
                                     \/ DropCheck(r)
                                     \/ \E p \in Passwords : UpdatePassword(r, p)
                                     \/ SignOutOthers(r)
                                     \/ SignOutEverywhere(r)
                                     \/ Challenge(r)
                                     \/ GiveUp(r)
          PROVE  UNCHANGED factor
      <3>1. CASE \E s \in Sessions : BeginAction(r, s)
        BY <3>1, Begun DEF server
      <3>2. QED
        BY <1>3, <2>1, <3>1 DEF CheckPassword, GrantPassword, DropCheck, UpdatePassword,
           SetPassword, SignOutOthers, SignOutEverywhere, Challenge, GiveUp, server
    <2>2. ASSUME NEW r \in Requests, AnswerCode(r) PROVE FALSE
      BY <1>5, <2>2 DEF AnswerCode
    <2>3. ASSUME NEW r \in Requests, EnrollTotp(r) PROVE FALSE
      BY <1>4, <2>3 DEF EnrollTotp
    <2>4. ASSUME RequestLink \/ Expire \/ \E s \in Sessions : SignInStep(s) \/ SignOut(s)
          PROVE  UNCHANGED factor
      BY <2>4 DEF RequestLink, SendLink, SignUp, Expire, ExpireLink, SignInStep, GrantPassword,
         VerifyLink, ExchangeCode, SignOut, Logout
    <2>5. CASE UNCHANGED vars
      BY <1>2, <2>5 DEF vars, server
    <2>6. QED
      BY <1>2, <2>1, <2>2, <2>3, <2>4, <2>5 DEF Next
  <1>8. CASE ClearPending(r)
    <2>1. PICK x \in req[r].pending : Unenroll(req[r].s, x)
      BY <1>2, <1>8 DEF ClearPending, server
    <2>2. QED
      BY <1>6, <1>8, <2>1 DEF ClearPending, Serving
  <1>9. CASE UnenrollTotp(r)
    <2>1. req[r].f = f /\ session[req[r].s].aal = 2
      BY <1>6, <1>9 DEF UnenrollTotp
    <2>2. req[r] # Idle /\ req[r].op \in {"cancel", "remove"}
      BY <1>9 DEF UnenrollTotp, Serving, RequestsFit, Fits
    <2>3. QED
      BY <2>1, <2>2
  <1>10. QED
    BY <1>7, <1>8, <1>9

\* What a second factor guards.  (session.ts: requireSession; the server's
\* check in DELETE /factors.)
THEOREM SecondFactorHolds == Spec => SecondFactorGuards
  <1>1. IInv /\ [Next]_vars =>
          [ /\ account = "confirmed" /\ password' # password =>
                 \E r \in Requests : /\ Serving(r, "update")
                                     /\ ~HasFactor \/ ~req[r].guarded
                                                   \/ session[req[r].s].aal = 2
            /\ \A f \in Verified : factor'[f] = "gone" =>
                 \E r \in Requests : /\ req[r] # Idle
                                     /\ session[req[r].s].aal = 2
                                     /\ \/ f \in req[r].pending
                                        \/ req[r].op \in {"cancel", "remove"} /\ req[r].f = f
          ]_vars
    BY PasswordGuarded, FactorGuarded DEF IInv
  <1>2. QED
    BY Invariant, <1>1, PTL DEF Spec, SecondFactorGuards
=============================================================================
