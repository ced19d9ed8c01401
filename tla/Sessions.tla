------------------------------ MODULE Sessions ------------------------------
(***************************************************************************)
(* Sessions and CSRF tokens: internal/db/sessions.go, the two middlewares  *)
(* of internal/server (auth.go, security.go) and the login, logout and     *)
(* page handlers of handlers.go, with a browser that has several tabs.     *)
(*                                                                         *)
(* The tabs share a cookie jar.  Every tab has one request at a time; the  *)
(* requests of two tabs interleave at every query, their answers arrive in *)
(* any order, and an answer may be lost on the way.  The sessions outlive  *)
(* a restart of the process, the key that signs the CSRF tokens does not.  *)
(* A session is named by the number of its login; the hash of its token    *)
(* identifies the row, and the row is deleted by its id.                   *)
(*                                                                         *)
(* The forms with hx-post (login, logout, contests) are sent by a script   *)
(* that adds the X-CSRF-Token header (static/js/app.js); the forms of      *)
(* problems, and all forms where no script runs, are plain and carry the   *)
(* field of the page.                                                      *)
(***************************************************************************)
EXTENDS Integers, FiniteSets, FiniteSetsExt

CONSTANTS Tab,
          Form,       \* the forms that are submitted from a tab: kind, and by script or plain
          MaxLogins,  \* bound on sessions
          Expiring,   \* the sessions whose week may be over; all of them, but for a bound
          Nonces,     \* nonces in use at the same time
          Watched     \* the tab whose refusals are recorded

ASSUME SessionsAssumption ==
  /\ Form \in [Tab -> SUBSET [kind : {"login", "logout", "change"}, script : BOOLEAN]]
  /\ MaxLogins \in Nat /\ Nonces \in Nat \ {0} /\ Watched \in Tab
  /\ Expiring \subseteq 1..MaxLogins

VARIABLES row,       \* the table: [id, expired] of a session, id 0 without a row
          logins,    \* sessions created so far
          jar,       \* the cookies: session_token and csrf_token
          page,      \* the CSRF token in the page of a tab, the session it was rendered for
          pc, req, out,  \* the request of a tab: where it is, what it carries, its answer
          refused    \* the last form of the watched tab was refused

vars == <<row, logins, jar, page, pc, req, out, refused>>
browser == <<jar, page, refused>>
table == <<row, logins>>

Session == 1..MaxLogins
NoSession == 0

(* A token is a nonce and the HMAC of nonce and session cookie.  The       *)
(* tokens that another key has signed are all alike: none is valid again.  *)
Stale == [session |-> -1, nonce |-> 0]
NoToken == [session |-> -1, nonce |-> -1]
Token == [session : Session \cup {NoSession}, nonce : 1..Nonces]
Cookie == Token \cup {NoToken, Stale}
NoPage == [token |-> NoToken, session |-> -1]

NoRequest == [kind |-> "none", session |-> NoSession, csrf |-> NoToken, header |-> NoToken,
              found |-> 0]
NoAnswer == [session |-> -1, csrf |-> NoToken, page |-> NoPage]  \* -1: the cookie is left alone

Init ==
  /\ row = [s \in Session |-> [id |-> 0, expired |-> FALSE]] /\ logins = 0
  /\ jar = [session |-> NoSession, csrf |-> NoToken]
  /\ page = [t \in Tab |-> NoPage] /\ refused = FALSE
  /\ pc = [t \in Tab |-> "idle"] /\ req = [t \in Tab |-> NoRequest]
  /\ out = [t \in Tab |-> NoAnswer]

Live(s) == s # NoSession /\ row[s].id # 0

(* A request carries the cookies of the moment it is sent.                 *)
Send(t, kind, header) ==
  /\ pc[t] = "idle"
  /\ pc' = [pc EXCEPT ![t] = "identify"]
  /\ req' = [req EXCEPT ![t] = [NoRequest EXCEPT !.kind = kind, !.session = jar.session,
                                  !.csrf = jar.csrf, !.header = header]]
  /\ UNCHANGED out /\ UNCHANGED browser /\ UNCHANGED table

Get(t) == Send(t, "page", NoToken)

(* The POST of a form in the page, plain or by the script, which copies    *)
(* the csrf_token cookie, if there is one, into the header.                *)
Post(t) ==
  /\ page[t] # NoPage
  /\ \E form \in Form[t] : Send(t, form.kind, IF form.script THEN jar.csrf ELSE NoToken)

-----------------------------------------------------------------------------
(* RequestProtection and withCSRFToken.                                    *)

Go(t, step) == pc' = [pc EXCEPT ![t] = step]
Answer(t, answer) ==
  /\ Go(t, "answer") /\ out' = [out EXCEPT ![t] = answer]
  /\ req' = [req EXCEPT ![t] = NoRequest]

validSignedCSRF_Mutant(t, token) == token \in Token  \* the HMAC leaves out the session cookie

validSignedCSRF(t, token) == token \in Token /\ token.session = req[t].session

(* The header, or else the field of the form, repeats the cookie.          *)
validRequestCSRF(t) ==
  /\ req[t].csrf # NoToken
  /\ req[t].csrf = IF req[t].header # NoToken THEN req[t].header ELSE page[t].token

Protected(t) == validSignedCSRF(t, req[t].csrf) /\ validRequestCSRF(t)

InUse == {jar.csrf} \cup {page[t].token : t \in Tab} \cup {req[t].csrf : t \in Tab}
           \cup {out[t].page.token : t \in Tab}

(* The nonces that give a new token; within the bound there is one         *)
(* whenever one is needed.                                                 *)
Unused(t) == {n \in 1..Nonces : [session |-> req[t].session, nonce |-> n] \notin InUse}

(* signCSRF of a random nonce.                                             *)
signCSRF(t) == [session |-> req[t].session, nonce |-> CHOOSE n \in Unused(t) : TRUE]

withCSRFToken_Mutant(t) ==  \* a cookie is reused without a look at its signature
  IF req[t].csrf # NoToken THEN req[t].csrf ELSE signCSRF(t)

(* withCSRFToken: the token of the cookie while it is valid, else a new    *)
(* one that also becomes the cookie.                                       *)
withCSRFToken(t) ==
  IF validSignedCSRF(t, req[t].csrf) THEN req[t].csrf ELSE signCSRF(t)

Render_Mutant(t) ==  \* the page is given the token of the old cookie
  LET token == withCSRFToken(t) IN
    Answer(t, [session |-> -1, csrf |-> IF token = req[t].csrf THEN NoToken ELSE token,
               page |-> [token |-> req[t].csrf, session |-> req[t].session]])

(* A page, or the form of a failed login again.                            *)
Render(t) ==
  LET token == withCSRFToken(t) IN
    /\ validSignedCSRF(t, req[t].csrf) \/ Unused(t) # {}
    /\ Answer(t, [session |-> -1, csrf |-> IF token = req[t].csrf THEN NoToken ELSE token,
                  page |-> [token |-> token, session |-> req[t].session]])

(* Behind AuthMiddleware: every GET passes RequestProtection and gets its  *)
(* page; a form passes or is refused; a change that is neither a login nor *)
(* a logout is answered without a word on cookies.                         *)
Protect(t) ==
  \/ req[t].kind = "page" /\ Render(t) /\ UNCHANGED refused
  \/ /\ req[t].kind # "page" /\ Protected(t)
     /\ refused' = IF t = Watched THEN FALSE ELSE refused
     /\ \/ req[t].kind = "change" /\ Answer(t, NoAnswer)
        \/ req[t].kind # "change" /\ Go(t, req[t].kind) /\ UNCHANGED <<req, out>>
  \/ /\ req[t].kind # "page" /\ ~Protected(t) /\ Answer(t, NoAnswer)
     /\ refused' = IF t = Watched THEN TRUE ELSE refused

-----------------------------------------------------------------------------
(* AuthMiddleware: GetUser, then the rest.                                 *)

Identify(t) ==
  LET s == req[t].session IN
    /\ pc[t] = "identify"
    /\ \/ ~(Live(s) /\ row[s].expired) /\ Protect(t)
       \/ Live(s) /\ row[s].expired /\ Go(t, "forget")
          /\ req' = [req EXCEPT ![t].found = row[s].id] /\ UNCHANGED <<refused, out>>
    /\ UNCHANGED <<jar, page>> /\ UNCHANGED table

(* DeleteSession: by id, whatever the row holds by now.                    *)
DeleteSession(id) ==
  row' = [s \in Session |-> IF row[s].id = id THEN [id |-> 0, expired |-> FALSE] ELSE row[s]]

Forget(t) ==
  /\ pc[t] = "forget" /\ Protect(t)
  /\ DeleteSession(req[t].found) \/ UNCHANGED row  \* an error is ignored
  /\ UNCHANGED <<logins, jar, page>>

-----------------------------------------------------------------------------
(* The handlers of login and logout.                                       *)

(* A redirection that sets the cookie, or takes it away.                   *)
SessionCookie(s) == [NoAnswer EXCEPT !.session = s]

(* Login or Register is refused, or creating the session fails: the form   *)
(* again, or a redirection.                                                *)
LoginFails(t) ==
  /\ \/ pc[t] \in {"login", "insert"} /\ Render(t)
     \/ pc[t] = "insert" /\ Answer(t, NoAnswer)
  /\ UNCHANGED browser /\ UNCHANGED table

(* CreateSession: DeleteExpiredSessions, then the insert.                  *)
DeleteExpired(t) ==
  /\ pc[t] = "login" /\ Go(t, "insert")
  /\ row' = [s \in Session |-> IF row[s].expired THEN [id |-> 0, expired |-> FALSE] ELSE row[s]]
  /\ UNCHANGED <<logins, req, out>> /\ UNCHANGED browser

NewId_Mutant == 1 + Max({row[s].id : s \in Session} \cup {0})  \* the ids of deleted rows come back

NewId == logins + 1

Insert(t) ==
  /\ pc[t] = "insert" /\ logins < MaxLogins
  /\ logins' = logins + 1
  /\ row' = [row EXCEPT ![logins + 1] = [id |-> NewId, expired |-> FALSE]]
  /\ Answer(t, SessionCookie(logins + 1))
  /\ UNCHANGED browser

(* Logout: the row of the cookie, then its deletion; the cookie goes in    *)
(* any case.                                                               *)
LogoutFind(t) ==
  LET s == req[t].session IN
    /\ pc[t] = "logout"
    /\ \/ Live(s) /\ Go(t, "delete") /\ req' = [req EXCEPT ![t].found = row[s].id] /\ UNCHANGED out
       \/ ~Live(s) /\ Answer(t, SessionCookie(NoSession))
    /\ UNCHANGED browser /\ UNCHANGED table

LogoutDelete(t) ==
  /\ pc[t] = "delete" /\ Answer(t, SessionCookie(NoSession))
  /\ DeleteSession(req[t].found) \/ UNCHANGED row  \* an error is only logged
  /\ UNCHANGED logins /\ UNCHANGED browser

-----------------------------------------------------------------------------
(* The browser takes the answer: cookies, and the page if there is one; or *)
(* the answer is lost.                                                     *)
Idle(t) == Go(t, "idle") /\ out' = [out EXCEPT ![t] = NoAnswer]

Deliver(t) ==
  LET a == out[t] IN
    /\ pc[t] = "answer" /\ Idle(t)
    /\ jar' = [session |-> IF a.session = -1 THEN jar.session ELSE a.session,
               csrf |-> IF a.csrf = NoToken THEN jar.csrf ELSE a.csrf]
    /\ page' = IF a.page = NoPage THEN page ELSE [page EXCEPT ![t] = a.page]
    /\ UNCHANGED <<req, refused>> /\ UNCHANGED table

Lose(t) ==
  /\ pc[t] = "answer" /\ Idle(t)
  /\ UNCHANGED req /\ UNCHANGED browser /\ UNCHANGED table

(* ExpiresAt passes.                                                       *)
Expire(s) ==
  /\ Live(s) /\ ~row[s].expired /\ row' = [row EXCEPT ![s].expired = TRUE]
  /\ UNCHANGED <<logins, pc, req, out>> /\ UNCHANGED browser

Aged(token) == IF token = NoToken THEN NoToken ELSE Stale

(* The process ends with its requests and starts with another key.         *)
Restart ==
  /\ pc' = [t \in Tab |-> "idle"] /\ req' = [t \in Tab |-> NoRequest]
  /\ out' = [t \in Tab |-> NoAnswer]
  /\ jar' = [jar EXCEPT !.csrf = Aged(@)]
  /\ page' = [t \in Tab |-> [token |-> Aged(page[t].token), session |-> -1]]
  /\ UNCHANGED refused /\ UNCHANGED table

Serve(t) ==
  \/ Identify(t) \/ Forget(t) \/ LoginFails(t) \/ DeleteExpired(t)
  \/ Insert(t) \/ LogoutFind(t) \/ LogoutDelete(t)

Next ==
  \/ \E t \in Tab : Get(t) \/ Post(t) \/ Serve(t) \/ Deliver(t) \/ Lose(t)
  \/ \E s \in Expiring : Expire(s)
  \/ Restart

Spec == Init /\ [][Next]_vars

(* The process is not restarted for ever, the other tabs do not replace    *)
(* the session cookie for ever (each new one makes every open page old),   *)
(* the process answers the watched tab, whose user reloads and submits     *)
(* until a form goes through, and the network delivers a page that is      *)
(* asked for again and again.  Nothing else is asked of the other tabs.    *)
FairSpec ==
  /\ Spec /\ <>[][~Restart /\ UNCHANGED jar.session]_vars
  /\ WF_vars(Serve(Watched) \/ Deliver(Watched) \/ Lose(Watched))
  /\ SF_vars(Get(Watched)) /\ SF_vars(Post(Watched))
  /\ SF_vars(out[Watched].page # NoPage /\ Deliver(Watched))

-----------------------------------------------------------------------------
(* Properties.                                                             *)

TypeOK ==
  /\ row \in [Session -> [id : 0..MaxLogins, expired : BOOLEAN]]
  /\ logins \in 0..MaxLogins
  /\ jar.session \in 0..logins /\ jar.csrf \in Cookie
  /\ \A t \in Tab :
       /\ page[t].token \in Cookie /\ page[t].session \in -1..logins
       /\ pc[t] \in {"idle", "identify", "forget", "login", "insert", "logout", "delete", "answer"}
       /\ req[t].session \in 0..logins /\ req[t].found \in 0..logins
       /\ out[t].csrf \in {NoToken, out[t].page.token}
  /\ refused \in BOOLEAN

(* A valid session is never lost to someone else's request: its row goes   *)
(* only when it has expired or when a logout that carries its cookie       *)
(* deletes it, though GetUser and Logout delete by an id they have read    *)
(* earlier (auth.go:38, handlers.go:174).                                  *)
SessionKept ==
  [][\A s \in Session : Live(s) /\ ~Live(s)' =>
       row[s].expired \/ \E t \in Tab : pc[t] = "delete" /\ req[t].session = s]_vars

(* "Obtain a new token after login/logout, session rotation or server      *)
(* restart.  Tokens are HMAC signed with a per-process secret and bound to *)
(* the presented session cookie" (HTTP_API.md:11): a plain form, without   *)
(* the header, passes RequestProtection only from a page that this process *)
(* rendered for the session it now acts for.  It is not so for the forms   *)
(* that the script sends: their header follows the shared cookie, and an   *)
(* old page acts for the session that is current.                          *)
PageActsAsItself ==
  \A t \in Tab :
    /\ pc[t] # "idle" /\ req[t].kind \in {"login", "logout", "change"}
    /\ req[t].header = NoToken /\ Protected(t)
    => page[t].session = req[t].session

(* "Your form has expired. Please refresh and try again." (security.go:39):*)
(* refreshing helps in the end, once restarts and new sessions have ended, *)
(* whatever pages, failed logins and lost answers of the other tabs do to  *)
(* the shared cookie and whenever the session expires.                     *)
RefreshHelps == []<>~refused

-----------------------------------------------------------------------------
(* The inductive invariant of the proofs.                                  *)

Pages(n) == [token : Cookie, session : -1..n]
Requests(n) == [kind : {"none", "page", "login", "logout", "change"}, session : 0..n,
                csrf : Cookie, header : Cookie, found : 0..n]
Answers(n) == [session : -1..n, csrf : Cookie, page : Pages(n)]
Types ==
  /\ row \in [Session -> [id : 0..MaxLogins, expired : BOOLEAN]]
  /\ logins \in 0..MaxLogins
  /\ jar \in [session : 0..logins, csrf : Cookie]
  /\ page \in [Tab -> Pages(logins)]
  /\ pc \in [Tab -> {"idle", "identify", "forget", "login", "insert", "logout", "delete", "answer"}]
  /\ req \in [Tab -> Requests(logins)]
  /\ out \in [Tab -> Answers(logins)]
  /\ refused \in BOOLEAN

(* The row of a session has the id of its login or is gone, and the rows   *)
(* to come are not there yet.                                              *)
RowsFit == \A s \in Session : row[s].id \in {0, s} /\ (s > logins => row[s].id = 0)

(* The id that a request is about to delete is that of its own session,    *)
(* and for GetUser that session has expired and does not come back.        *)
Gone(s) == row[s].id = 0 \/ row[s].expired
FoundFits ==
  \A t \in Tab :
    /\ pc[t] \in {"identify", "forget"} => req[t].kind # "none"
    /\ pc[t] \in {"forget", "delete"} => req[t].found = req[t].session /\ req[t].found # 0
    /\ pc[t] = "forget" => Gone(req[t].found)

(* A page with a token of this process was rendered for the session that   *)
(* signed it, also while it is on its way.                                 *)
Rendered(p) == p.token \in Token => p.session = p.token.session
PagesFit ==
  \A t \in Tab : /\ Rendered(page[t]) /\ Rendered(out[t].page)
                 /\ out[t].csrf \in {NoToken, out[t].page.token}

IInv == Types /\ RowsFit /\ FoundFits /\ PagesFit
=============================================================================
