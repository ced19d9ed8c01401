--------------------------- MODULE SessionsProofs ---------------------------
(***************************************************************************)
(* Proofs about Sessions, for any number of tabs, forms, logins and        *)
(* nonces: a form that passes was rendered for the session it acts for,    *)
(* and nobody loses a valid session to the request of another.             *)
(***************************************************************************)
EXTENDS Sessions, TLAPS

Step == {"idle", "identify", "forget", "login", "insert", "logout", "delete", "answer"}
Rows == [Session -> [id : 0..MaxLogins, expired : BOOLEAN]]

-----------------------------------------------------------------------------
(* Tokens and records.                                                     *)

(* What this process has signed is neither a missing token nor an old one. *)
LEMMA TokenFacts ==
  /\ NoToken \notin Token /\ Stale \notin Token /\ NoToken # Stale
  /\ NoToken \in Cookie /\ Stale \in Cookie /\ Token \subseteq Cookie
  /\ \A token \in Token : token.session \in 0..MaxLogins
<1>1. NoToken.session = -1 /\ Stale.session = -1 /\ NoToken.nonce = -1 /\ Stale.nonce = 0
  BY DEF NoToken, Stale
<1>2. \A token \in Token : token.session \in 0..MaxLogins
  BY SessionsAssumption DEF Token, Session, NoSession
<1> QED
  BY <1>1, <1>2 DEF Cookie

(* The empty values have their types.                                      *)
LEMMA Empty ==
  ASSUME NEW n \in Nat
  PROVE  NoPage \in Pages(n) /\ NoRequest \in Requests(n) /\ NoAnswer \in Answers(n)
  BY TokenFacts DEF NoPage, NoRequest, NoAnswer, NoSession, Pages, Requests, Answers

(* A login more makes no value ill-typed.                                  *)
LEMMA Growing ==
  ASSUME NEW m \in Nat, NEW n \in Nat, m <= n
  PROVE  /\ Pages(m) \subseteq Pages(n) /\ Requests(m) \subseteq Requests(n)
         /\ Answers(m) \subseteq Answers(n) /\ 0..m \subseteq 0..n
<1>1. 0..m \subseteq 0..n /\ -1..m \subseteq -1..n
  OBVIOUS
<1>2. Pages(m) \subseteq Pages(n)
  BY <1>1 DEF Pages
<1>3. Requests(m) \subseteq Requests(n)
  BY <1>1 DEF Requests
<1> QED
  BY <1>1, <1>2, <1>3 DEF Answers

-----------------------------------------------------------------------------
(* A request is answered.                                                  *)

(* An answer whose page, if any, was rendered for the session that signed  *)
(* its token.                                                              *)
Fitting(a) == Rendered(a.page) /\ a.csrf \in {NoToken, a.page.token}

LEMMA PlainAnswers ==
  ASSUME NEW n \in Nat, NEW s \in -1..n
  PROVE  /\ NoAnswer \in Answers(n) /\ Fitting(NoAnswer)
         /\ SessionCookie(s) \in Answers(n) /\ Fitting(SessionCookie(s))
<1>1. NoAnswer.page.token = NoToken /\ NoAnswer.csrf = NoToken
  BY DEF NoAnswer, NoPage
<1>2. NoAnswer \in Answers(n)
  BY Empty
<1>3. /\ SessionCookie(s) \in Answers(n) /\ SessionCookie(s).page = NoAnswer.page
      /\ SessionCookie(s).csrf = NoAnswer.csrf
  BY <1>2 DEF SessionCookie, Answers
<1> QED
  BY <1>1, <1>2, <1>3, TokenFacts DEF Fitting, Rendered

(* The token of a page is one of this process, signed for the session of   *)
(* the request.                                                            *)
LEMMA TokenOfPage ==
  ASSUME Types, NEW t \in Tab, validSignedCSRF(t, req[t].csrf) \/ Unused(t) # {}
  PROVE  withCSRFToken(t) \in Token /\ withCSRFToken(t).session = req[t].session
<1>1. req[t] \in Requests(logins) /\ logins \in 0..MaxLogins
  BY DEF Types
<1>2. req[t].session \in Session \cup {NoSession}
  BY <1>1, SessionsAssumption DEF Requests, Session, NoSession
<1>3. Unused(t) # {} => (CHOOSE n \in Unused(t) : TRUE) \in 1..Nonces
  BY DEF Unused
<1>4. Unused(t) # {} => signCSRF(t) \in Token /\ signCSRF(t).session = req[t].session
  BY <1>2, <1>3 DEF signCSRF, Token
<1> QED
  BY <1>4 DEF withCSRFToken, validSignedCSRF

LEMMA RenderAnswers ==
  ASSUME Types, NEW t \in Tab, Render(t)
  PROVE  \E a \in Answers(logins) : Fitting(a) /\ Answer(t, a)
<1> DEFINE token == withCSRFToken(t)
           p == [token |-> token, session |-> req[t].session]
           a == [session |-> -1, csrf |-> IF token = req[t].csrf THEN NoToken ELSE token, page |-> p]
<1>1. token \in Token /\ token.session = req[t].session
  BY TokenOfPage DEF Render
<1>2. req[t] \in Requests(logins) /\ logins \in Nat
  BY SessionsAssumption DEF Types
<1>3. p \in Pages(logins)
  BY <1>1, <1>2, TokenFacts DEF Pages, Requests
<1>4. a \in Answers(logins)
  BY <1>1, <1>2, <1>3, TokenFacts DEF Answers
<1>5. Fitting(a)
  BY <1>1 DEF Fitting, Rendered
<1>6. Answer(t, a)
  BY DEF Render
<1> QED
  BY <1>4, <1>5, <1>6

(* What an answer leaves alone.                                            *)
LEMMA AnswerFrame ==
  ASSUME Types, NEW t \in Tab, NEW a, Answer(t, a)
  PROVE  /\ pc' \in [Tab -> Step] /\ pc'[t] = "answer"
         /\ req' = [req EXCEPT ![t] = NoRequest] /\ out' = [out EXCEPT ![t] = a]
         /\ \A u \in Tab \ {t} : pc'[u] = pc[u] /\ req'[u] = req[u] /\ out'[u] = out[u]
         /\ req'[t] = NoRequest /\ out'[t] = a
  BY DEF Answer, Go, Types, Step

(* A request that is answered disturbs nobody else, whatever it does to    *)
(* the table, as long as no session that was gone comes back.              *)
LEMMA AnsweredInv ==
  ASSUME Types, FoundFits, PagesFit, NEW t \in Tab,
         NEW a \in Answers(logins'), Fitting(a), Answer(t, a),
         logins' \in 0..MaxLogins, logins <= logins', row' \in Rows, refused' \in BOOLEAN,
         UNCHANGED <<jar, page>>, \A s \in 1..logins : Gone(s) => Gone(s)'
  PROVE  Types' /\ FoundFits' /\ PagesFit'
<1>1. logins \in Nat /\ logins' \in Nat
  BY SessionsAssumption DEF Types
<1>2. /\ pc' \in [Tab -> Step] /\ pc'[t] = "answer"
      /\ req' = [req EXCEPT ![t] = NoRequest] /\ out' = [out EXCEPT ![t] = a]
      /\ \A u \in Tab \ {t} : pc'[u] = pc[u] /\ req'[u] = req[u] /\ out'[u] = out[u]
      /\ req'[t] = NoRequest /\ out'[t] = a
  BY AnswerFrame
<1>3. /\ Pages(logins) \subseteq Pages(logins') /\ Requests(logins) \subseteq Requests(logins')
      /\ Answers(logins) \subseteq Answers(logins') /\ 0..logins \subseteq 0..logins'
  BY <1>1, Growing
<1>4. NoRequest \in Requests(logins')
  BY <1>1, Empty
<1>5. req' \in [Tab -> Requests(logins')] /\ out' \in [Tab -> Answers(logins')]
  BY <1>2, <1>3, <1>4 DEF Types
<1>6. page' \in [Tab -> Pages(logins')] /\ jar' \in [session : 0..logins', csrf : Cookie]
  BY <1>3 DEF Types
<1>7. Types'
  BY <1>2, <1>5, <1>6 DEF Types, Rows, Step
<1>8. FoundFits'
  <2> SUFFICES ASSUME NEW u \in Tab \ {t}
               PROVE  /\ pc[u] \in {"identify", "forget"} => req[u].kind # "none"
                      /\ pc[u] \in {"forget", "delete"} => req[u].found = req[u].session /\ req[u].found # 0
                      /\ pc[u] = "forget" => Gone(req[u].found)'
    BY <1>2 DEF FoundFits
  <2>1. pc[u] = "forget" => req[u].found \in 1..logins
    BY <1>1 DEF FoundFits, Types, Requests
  <2>2. req'[u] = req[u]
    BY <1>2
  <2> QED
    BY <2>1, <2>2 DEF FoundFits, Gone
<1>9. PagesFit'
  BY <1>2 DEF PagesFit, Fitting, Rendered
<1> QED
  BY <1>7, <1>8, <1>9

-----------------------------------------------------------------------------
(* A request goes on to its next query.                                    *)

LEMMA MovedInv ==
  ASSUME Types, FoundFits, PagesFit, NEW t \in Tab, NEW step \in Step, Go(t, step),
         req' \in [Tab -> Requests(logins)], \A u \in Tab \ {t} : req'[u] = req[u],
         row' \in Rows, refused' \in BOOLEAN, UNCHANGED <<logins, jar, page, out>>,
         \A s \in 1..logins : Gone(s) => Gone(s)',
         step \in {"identify", "forget"} => req'[t].kind # "none",
         step \in {"forget", "delete"} => req'[t].found = req'[t].session /\ req'[t].found # 0,
         step = "forget" => Gone(req[t].found)'
  PROVE  Types' /\ FoundFits' /\ PagesFit'
<1>1. logins \in Nat
  BY SessionsAssumption DEF Types
<1>2. /\ pc' \in [Tab -> Step] /\ pc'[t] = step
      /\ \A u \in Tab \ {t} : pc'[u] = pc[u]
  BY DEF Types, Go, Step
<1>3. Types'
  BY <1>2 DEF Types, Rows, Step
<1>4. FoundFits'
  <2>1. ASSUME NEW u \in Tab \ {t}
        PROVE  /\ pc'[u] \in {"identify", "forget"} => req'[u].kind # "none"
               /\ pc'[u] \in {"forget", "delete"} => req'[u].found = req'[u].session /\ req'[u].found # 0
               /\ pc'[u] = "forget" => Gone(req[u].found)'
    <3>1. pc[u] = "forget" => req[u].found \in 1..logins
      BY <1>1 DEF FoundFits, Types, Requests
    <3>2. req'[u] = req[u] /\ pc'[u] = pc[u]
      BY <1>2
    <3> QED
      BY <3>1, <3>2 DEF FoundFits, Gone
  <2>2. /\ pc'[t] \in {"identify", "forget"} => req'[t].kind # "none"
        /\ pc'[t] \in {"forget", "delete"} => req'[t].found = req'[t].session /\ req'[t].found # 0
        /\ pc'[t] = "forget" => Gone(req[t].found)'
    BY <1>2
  <2> QED
    BY <2>1, <2>2 DEF FoundFits, Gone
<1>5. PagesFit'
  BY DEF PagesFit, Rendered
<1> QED
  BY <1>3, <1>4, <1>5

(* RequestProtection answers, or lets a login or a logout through.         *)
LEMMA ProtectOutcome ==
  ASSUME Types, FoundFits, NEW t \in Tab, pc[t] \in {"identify", "forget"}, Protect(t)
  PROVE  /\ refused' \in BOOLEAN
         /\ \/ \E a \in Answers(logins) : Fitting(a) /\ Answer(t, a)
            \/ \E step \in {"login", "logout"} : Go(t, step) /\ UNCHANGED <<req, out>>
<1>1. /\ req[t].kind \in {"page", "login", "logout", "change"}
      /\ logins \in Nat /\ refused \in BOOLEAN
  BY SessionsAssumption DEF FoundFits, Types, Requests
<1>2. NoAnswer \in Answers(logins) /\ Fitting(NoAnswer)
  <2>1. -1 \in -1..logins
    BY <1>1
  <2> QED
    BY <1>1, <2>1, PlainAnswers
<1>3. CASE req[t].kind = "page" /\ Render(t) /\ UNCHANGED refused
  BY <1>1, <1>3, RenderAnswers
<1>4. CASE /\ req[t].kind # "page" /\ Protected(t)
           /\ refused' = IF t = Watched THEN FALSE ELSE refused
           /\ \/ req[t].kind = "change" /\ Answer(t, NoAnswer)
              \/ req[t].kind # "change" /\ Go(t, req[t].kind) /\ UNCHANGED <<req, out>>
  <2>1. refused' \in BOOLEAN
    BY <1>1, <1>4
  <2>2. CASE Answer(t, NoAnswer)
    BY <1>2, <2>1, <2>2
  <2>3. CASE req[t].kind # "change" /\ Go(t, req[t].kind) /\ UNCHANGED <<req, out>>
    <3>1. req[t].kind \in {"login", "logout"}
      BY <1>1, <1>4, <2>3
    <3> QED
      BY <2>1, <2>3, <3>1
  <2> QED
    BY <1>4, <2>2, <2>3
<1>5. CASE /\ req[t].kind # "page" /\ ~Protected(t) /\ Answer(t, NoAnswer)
           /\ refused' = IF t = Watched THEN TRUE ELSE refused
  BY <1>1, <1>2, <1>5
<1> QED
  BY <1>3, <1>4, <1>5 DEF Protect

(* Behind AuthMiddleware, with the table changed or not.                   *)
LEMMA ProtectInv ==
  ASSUME Types, FoundFits, PagesFit, NEW t \in Tab, pc[t] \in {"identify", "forget"}, Protect(t),
         row' \in Rows, UNCHANGED <<logins, jar, page>>,
         \A s \in 1..logins : Gone(s) => Gone(s)'
  PROVE  Types' /\ FoundFits' /\ PagesFit'
<1>1. refused' \in BOOLEAN /\ logins \in 0..MaxLogins /\ logins \in Nat
  BY ProtectOutcome, SessionsAssumption DEF Types
<1>2. CASE \E a \in Answers(logins) : Fitting(a) /\ Answer(t, a)
  BY <1>1, <1>2, AnsweredInv
<1>3. CASE \E step \in {"login", "logout"} : Go(t, step) /\ UNCHANGED <<req, out>>
  <2>1. PICK step \in {"login", "logout"} : Go(t, step) /\ UNCHANGED <<req, out>>
    BY <1>3
  <2>2. step \in Step /\ step \notin {"identify", "forget", "delete"}
    BY DEF Step
  <2>3. req' \in [Tab -> Requests(logins)] /\ \A u \in Tab \ {t} : req'[u] = req[u]
    BY <2>1 DEF Types
  <2> QED
    BY <1>1, <2>1, <2>2, <2>3, MovedInv
<1> QED
  BY <1>2, <1>3, ProtectOutcome

-----------------------------------------------------------------------------
(* The table.                                                              *)

(* A deletion by id takes the row of the session with that number.         *)
LEMMA DeleteFits ==
  ASSUME Types, RowsFit, NEW id, DeleteSession(id) \/ UNCHANGED row, UNCHANGED logins
  PROVE  /\ row' \in Rows /\ RowsFit' /\ \A s \in 1..logins : Gone(s) => Gone(s)'
         /\ \A s \in Session : Live(s) /\ ~Live(s)' => s = id
<1>1. 0 \in 0..MaxLogins
  BY SessionsAssumption
<1>2. 1..logins \subseteq Session
  BY SessionsAssumption DEF Types, Session
<1>3. CASE UNCHANGED row
  BY <1>3 DEF Types, Rows, RowsFit, Gone, Live
<1>4. CASE DeleteSession(id)
  <2>1. row' \in Rows
    BY <1>1, <1>4 DEF DeleteSession, Types, Rows
  <2>2. \A s \in Session : row'[s] = row[s] \/ (row[s].id = id /\ row'[s].id = 0)
    BY <1>4 DEF DeleteSession
  <2> QED
    BY <1>2, <2>1, <2>2 DEF RowsFit, Gone, Live
<1> QED
  BY <1>3, <1>4

-----------------------------------------------------------------------------
(* The steps.                                                              *)

LEMMA SendInv ==
  ASSUME IInv, NEW t \in Tab, NEW kind \in {"page", "login", "logout", "change"},
         NEW header \in Cookie, Send(t, kind, header)
  PROVE  IInv'
<1> DEFINE r == [NoRequest EXCEPT !.kind = kind, !.session = jar.session, !.csrf = jar.csrf,
                                  !.header = header]
<1>1. /\ logins \in Nat /\ jar.session \in 0..logins /\ jar.csrf \in Cookie /\ row \in Rows
      /\ refused \in BOOLEAN
  BY SessionsAssumption DEF IInv, Types, Rows
<1>2. r \in Requests(logins) /\ r.kind = kind
  <2>1. NoRequest \in Requests(logins)
    BY <1>1, Empty
  <2> QED
    BY <1>1, <2>1 DEF Requests
<1>3. /\ UNCHANGED <<row, logins, jar, page, refused, out>>
      /\ Go(t, "identify") /\ req' = [req EXCEPT ![t] = r]
  BY DEF Send, Go, browser, table
<1> HIDE DEF r
<1>4. /\ req' \in [Tab -> Requests(logins)] /\ req'[t] = r
      /\ \A u \in Tab \ {t} : req'[u] = req[u]
  BY <1>2, <1>3 DEF IInv, Types
<1>5. \A s \in 1..logins : Gone(s) => Gone(s)'
  BY <1>3 DEF Gone
<1>6. "identify" \in Step /\ kind # "none"
  BY DEF Step
<1>7. Types' /\ FoundFits' /\ PagesFit'
  BY <1>1, <1>2, <1>3, <1>4, <1>5, <1>6, MovedInv DEF IInv
<1>8. RowsFit'
  BY <1>3 DEF IInv, RowsFit
<1> QED
  BY <1>7, <1>8 DEF IInv

LEMMA IdentifyInv ==
  ASSUME IInv, NEW t \in Tab, Identify(t)
  PROVE  IInv'
<1> DEFINE s == req[t].session
<1>1. UNCHANGED <<row, logins, jar, page>> /\ pc[t] = "identify"
  BY DEF Identify, table
<1>2. row' \in Rows /\ \A q \in 1..logins : Gone(q) => Gone(q)'
  BY <1>1 DEF IInv, Types, Rows, Gone
<1>3. RowsFit'
  BY <1>1 DEF IInv, RowsFit
<1>4. CASE Protect(t)
  BY <1>1, <1>2, <1>3, <1>4, ProtectInv DEF IInv
<1>5. CASE /\ Live(s) /\ row[s].expired /\ Go(t, "forget")
           /\ req' = [req EXCEPT ![t].found = row[s].id] /\ UNCHANGED <<refused, out>>
  <2>1. req[t] \in Requests(logins) /\ logins \in 0..MaxLogins /\ refused' \in BOOLEAN
    BY <1>5 DEF IInv, Types
  <2>2. s \in Session /\ s \in 0..logins
    BY <1>5, <2>1, SessionsAssumption DEF Live, Requests, Session, NoSession
  <2>3. row[s].id = s /\ s # 0
    BY <1>5, <2>2 DEF IInv, RowsFit, Live, NoSession
  <2>4. /\ req' \in [Tab -> Requests(logins)] /\ \A u \in Tab \ {t} : req'[u] = req[u]
        /\ req'[t].kind = req[t].kind /\ req'[t].session = s /\ req'[t].found = s
    BY <1>5, <2>2, <2>3 DEF IInv, Types, Requests
  <2>5. req[t].kind # "none"
    BY <1>1 DEF IInv, FoundFits
  <2>6. Gone(s)'
    BY <1>1, <1>5 DEF Gone
  <2>7. "forget" \in Step
    BY DEF Step
  <2>8. Gone(req[t].found)'
    BY <2>4, <2>6 DEF Gone
  <2>9. Types' /\ FoundFits' /\ PagesFit'
    BY <1>1, <1>2, <1>5, <2>1, <2>3, <2>4, <2>5, <2>7, <2>8, MovedInv DEF IInv
  <2> QED
    BY <1>3, <2>9 DEF IInv
<1> QED
  BY <1>4, <1>5 DEF Identify

LEMMA ForgetInv ==
  ASSUME IInv, NEW t \in Tab, Forget(t)
  PROVE  IInv'
<1>1. UNCHANGED <<logins, jar, page>> /\ pc[t] = "forget" /\ Protect(t)
  BY DEF Forget
<1>2. row' \in Rows /\ RowsFit' /\ \A q \in 1..logins : Gone(q) => Gone(q)'
  BY <1>1, DeleteFits DEF Forget, IInv
<1> QED
  BY <1>1, <1>2, ProtectInv DEF IInv

(* The handlers that only answer.                                          *)
LEMMA AnswerInv ==
  ASSUME IInv, NEW t \in Tab, NEW a \in Answers(logins), Fitting(a), Answer(t, a),
         UNCHANGED <<jar, page, refused, logins>>, row' \in Rows, RowsFit',
         \A q \in 1..logins : Gone(q) => Gone(q)'
  PROVE  IInv'
<1>1. logins \in 0..MaxLogins /\ logins \in Nat /\ refused' \in BOOLEAN
  BY SessionsAssumption DEF IInv, Types
<1> QED
  BY <1>1, AnsweredInv DEF IInv

LEMMA LoginFailsInv ==
  ASSUME IInv, NEW t \in Tab, LoginFails(t)
  PROVE  IInv'
<1>1. UNCHANGED <<row, logins, jar, page, refused>> /\ (Render(t) \/ Answer(t, NoAnswer))
  BY DEF LoginFails, browser, table
<1>2. row' \in Rows /\ RowsFit' /\ \A q \in 1..logins : Gone(q) => Gone(q)'
  BY <1>1 DEF IInv, Types, Rows, RowsFit, Gone
<1>3. NoAnswer \in Answers(logins) /\ Fitting(NoAnswer)
  <2>1. logins \in Nat /\ -1 \in -1..logins
    BY SessionsAssumption DEF IInv, Types
  <2> QED
    BY <2>1, PlainAnswers
<1>4. PICK a \in Answers(logins) : Fitting(a) /\ Answer(t, a)
  BY <1>1, <1>3, RenderAnswers DEF IInv
<1> QED
  BY <1>1, <1>2, <1>4, AnswerInv

LEMMA DeleteExpiredInv ==
  ASSUME IInv, NEW t \in Tab, DeleteExpired(t)
  PROVE  IInv'
<1>1. UNCHANGED <<logins, jar, page, refused, req, out>> /\ Go(t, "insert")
  BY DEF DeleteExpired, browser
<1>2. 0 \in 0..MaxLogins /\ 1..logins \subseteq Session
  BY SessionsAssumption DEF IInv, Types, Session
<1>3. row' \in Rows
  BY <1>2 DEF DeleteExpired, IInv, Types, Rows
<1>4. \A s \in Session : row'[s] = row[s] \/ row'[s].id = 0
  BY DEF DeleteExpired
<1>5. RowsFit' /\ \A q \in 1..logins : Gone(q) => Gone(q)'
  BY <1>1, <1>2, <1>4 DEF IInv, RowsFit, Gone
<1>6. /\ req' \in [Tab -> Requests(logins)] /\ \A u \in Tab \ {t} : req'[u] = req[u]
      /\ refused' \in BOOLEAN
  BY <1>1 DEF IInv, Types
<1>7. "insert" \in Step
  BY DEF Step
<1>8. Types' /\ FoundFits' /\ PagesFit'
  BY <1>1, <1>3, <1>5, <1>6, <1>7, MovedInv DEF IInv
<1> QED
  BY <1>5, <1>8 DEF IInv

LEMMA InsertInv ==
  ASSUME IInv, NEW t \in Tab, Insert(t)
  PROVE  IInv'
<1>1. /\ UNCHANGED <<jar, page, refused>> /\ logins' = logins + 1 /\ logins < MaxLogins
      /\ row' = [row EXCEPT ![logins + 1] = [id |-> logins + 1, expired |-> FALSE]]
      /\ Answer(t, SessionCookie(logins + 1))
  BY DEF Insert, browser, NewId
<1>2. /\ logins \in 0..MaxLogins /\ logins' \in 0..MaxLogins /\ logins' \in Nat
      /\ logins + 1 \in Session /\ logins + 1 \in -1..logins' /\ logins <= logins'
  BY <1>1, SessionsAssumption DEF IInv, Types, Session
<1>3. row' \in Rows
  BY <1>1, <1>2 DEF IInv, Types, Rows
<1>4. \A s \in Session \ {logins + 1} : row'[s] = row[s]
  BY <1>1 DEF IInv, Types
<1>5. row'[logins + 1].id = logins + 1
  BY <1>1, <1>2 DEF IInv, Types
<1>6. RowsFit'
  BY <1>1, <1>2, <1>4, <1>5, SessionsAssumption DEF IInv, RowsFit, Session
<1>7. \A q \in 1..logins : Gone(q) => Gone(q)'
  BY <1>2, <1>4, SessionsAssumption DEF Gone, Session
<1>8. SessionCookie(logins + 1) \in Answers(logins') /\ Fitting(SessionCookie(logins + 1))
  BY <1>2, PlainAnswers
<1>9. refused' \in BOOLEAN
  BY <1>1 DEF IInv, Types
<1>10. Types' /\ FoundFits' /\ PagesFit'
  BY <1>1, <1>2, <1>3, <1>7, <1>8, <1>9, AnsweredInv DEF IInv
<1> QED
  BY <1>6, <1>10 DEF IInv

LEMMA LogoutFindInv ==
  ASSUME IInv, NEW t \in Tab, LogoutFind(t)
  PROVE  IInv'
<1> DEFINE s == req[t].session
<1>1. UNCHANGED <<row, logins, jar, page, refused>> /\ logins \in Nat
  BY SessionsAssumption DEF LogoutFind, browser, table, IInv, Types
<1>2. row' \in Rows /\ RowsFit' /\ \A q \in 1..logins : Gone(q) => Gone(q)'
  BY <1>1 DEF IInv, Types, Rows, RowsFit, Gone
<1>3. CASE Answer(t, SessionCookie(NoSession))
  <2>1. NoSession \in -1..logins
    BY <1>1 DEF NoSession
  <2>2. SessionCookie(NoSession) \in Answers(logins) /\ Fitting(SessionCookie(NoSession))
    BY <1>1, <2>1, PlainAnswers
  <2> QED
    BY <1>1, <1>2, <1>3, <2>2, AnswerInv
<1>4. CASE Live(s) /\ Go(t, "delete") /\ req' = [req EXCEPT ![t].found = row[s].id] /\ UNCHANGED out
  <2>1. req[t] \in Requests(logins) /\ logins \in 0..MaxLogins /\ refused' \in BOOLEAN
    BY <1>1 DEF IInv, Types
  <2>2. s \in Session /\ s \in 0..logins
    BY <1>4, <2>1, SessionsAssumption DEF Live, Requests, Session, NoSession
  <2>3. row[s].id = s /\ s # 0
    BY <1>4, <2>2 DEF IInv, RowsFit, Live, NoSession
  <2>4. /\ req' \in [Tab -> Requests(logins)] /\ \A u \in Tab \ {t} : req'[u] = req[u]
        /\ req'[t].session = s /\ req'[t].found = s
    BY <1>4, <2>2, <2>3 DEF IInv, Types, Requests
  <2>5. "delete" \in Step
    BY DEF Step
  <2>6. Types' /\ FoundFits' /\ PagesFit'
    BY <1>1, <1>2, <1>4, <2>1, <2>3, <2>4, <2>5, MovedInv DEF IInv
  <2> QED
    BY <1>2, <2>6 DEF IInv
<1> QED
  BY <1>3, <1>4 DEF LogoutFind

LEMMA LogoutDeleteInv ==
  ASSUME IInv, NEW t \in Tab, LogoutDelete(t)
  PROVE  IInv'
<1>1. UNCHANGED <<logins, jar, page, refused>> /\ Answer(t, SessionCookie(NoSession))
  BY DEF LogoutDelete, browser
<1>2. row' \in Rows /\ RowsFit' /\ \A q \in 1..logins : Gone(q) => Gone(q)'
  BY <1>1, DeleteFits DEF LogoutDelete, IInv
<1>3. logins \in Nat /\ NoSession \in -1..logins
  BY SessionsAssumption DEF IInv, Types, NoSession
<1>4. SessionCookie(NoSession) \in Answers(logins) /\ Fitting(SessionCookie(NoSession))
  BY <1>3, PlainAnswers
<1> QED
  BY <1>1, <1>2, <1>4, AnswerInv

(* A request whose answer has come or is lost: the tab is idle again.      *)
LEMMA IdleFrame ==
  ASSUME Types, NEW t \in Tab, Idle(t)
  PROVE  /\ pc' \in [Tab -> Step] /\ pc'[t] = "idle" /\ out' \in [Tab -> Answers(logins)]
         /\ out'[t] = NoAnswer
         /\ \A u \in Tab \ {t} : pc'[u] = pc[u] /\ out'[u] = out[u]
<1>1. NoAnswer \in Answers(logins)
  <2>1. logins \in Nat
    BY SessionsAssumption DEF Types
  <2> QED
    BY <2>1, Empty
<1> QED
  BY <1>1 DEF Idle, Go, Types, Step

LEMMA ArriveInv ==
  ASSUME IInv, NEW t \in Tab, Idle(t), UNCHANGED <<row, logins, req, refused>>,
         jar' \in [session : 0..logins, csrf : Cookie],
         page' \in [Tab -> Pages(logins)], \A u \in Tab : Rendered(page'[u])
  PROVE  IInv'
<1>1. /\ pc' \in [Tab -> Step] /\ pc'[t] = "idle" /\ out' \in [Tab -> Answers(logins)]
      /\ out'[t] = NoAnswer
      /\ \A u \in Tab \ {t} : pc'[u] = pc[u] /\ out'[u] = out[u]
  BY IdleFrame DEF IInv
<1>2. Types'
  BY <1>1 DEF IInv, Types, Step
<1>3. RowsFit'
  BY DEF IInv, RowsFit
<1>4. FoundFits'
  BY <1>1 DEF IInv, FoundFits, Gone
<1>5. PagesFit'
  <2>1. Fitting(NoAnswer)
    <3>1. logins \in Nat /\ -1 \in -1..logins
      BY SessionsAssumption DEF IInv, Types
    <3> QED
      BY <3>1, PlainAnswers
  <2> QED
    BY <1>1, <2>1 DEF IInv, PagesFit, Fitting, Rendered
<1> QED
  BY <1>2, <1>3, <1>4, <1>5 DEF IInv

LEMMA DeliverInv ==
  ASSUME IInv, NEW t \in Tab, Deliver(t)
  PROVE  IInv'
<1> DEFINE a == out[t]
<1>1. /\ Idle(t) /\ UNCHANGED <<row, logins, req, refused>>
      /\ jar' = [session |-> IF a.session = -1 THEN jar.session ELSE a.session,
                 csrf |-> IF a.csrf = NoToken THEN jar.csrf ELSE a.csrf]
      /\ page' = IF a.page = NoPage THEN page ELSE [page EXCEPT ![t] = a.page]
  BY DEF Deliver, table
<1>2. a \in Answers(logins) /\ Rendered(a.page) /\ logins \in Nat
  BY SessionsAssumption DEF IInv, Types, PagesFit
<1>3. a.page \in Pages(logins) /\ a.session \in -1..logins /\ a.csrf \in Cookie
  BY <1>2 DEF Answers
<1> HIDE DEF a
<1>4. jar' \in [session : 0..logins, csrf : Cookie]
  BY <1>1, <1>2, <1>3 DEF IInv, Types
<1>5. page' \in [Tab -> Pages(logins)]
  BY <1>1, <1>3 DEF IInv, Types
<1>6. \A u \in Tab : Rendered(page'[u])
  BY <1>1, <1>2 DEF IInv, Types, PagesFit
<1> QED
  BY <1>1, <1>4, <1>5, <1>6, ArriveInv

LEMMA LoseInv ==
  ASSUME IInv, NEW t \in Tab, Lose(t)
  PROVE  IInv'
<1>1. Idle(t) /\ UNCHANGED <<row, logins, req, refused, jar, page>>
  BY DEF Lose, browser, table
<1>2. /\ jar' \in [session : 0..logins, csrf : Cookie]
      /\ page' \in [Tab -> Pages(logins)] /\ \A u \in Tab : Rendered(page'[u])
  BY <1>1 DEF IInv, Types, PagesFit
<1> QED
  BY <1>1, <1>2, ArriveInv

LEMMA ExpireInv ==
  ASSUME IInv, NEW s \in Session, Expire(s)
  PROVE  IInv'
<1>1. UNCHANGED <<logins, jar, page, pc, req, out, refused>>
  BY DEF Expire, browser
<1>2. row' \in Rows
  BY DEF Expire, IInv, Types, Rows
<1>3. \A q \in Session : row'[q].id = row[q].id /\ (row[q].expired => row'[q].expired)
  BY DEF Expire, IInv, Types
<1>4. Types'
  BY <1>1, <1>2 DEF IInv, Types, Rows
<1>5. RowsFit'
  BY <1>1, <1>3 DEF IInv, RowsFit
<1>6. \A q \in Session : Gone(q) => Gone(q)'
  BY <1>3 DEF Gone
<1>7. FoundFits'
  <2>1. \A t \in Tab : pc[t] = "forget" => req[t].found \in Session
    BY SessionsAssumption DEF IInv, FoundFits, Types, Requests, Session
  <2> QED
    BY <1>1, <1>6, <2>1 DEF IInv, FoundFits, Gone
<1>8. PagesFit'
  BY <1>1 DEF IInv, PagesFit, Rendered
<1> QED
  BY <1>4, <1>5, <1>7, <1>8 DEF IInv

(* After a restart no token is of this process.                            *)
LEMMA RestartInv ==
  ASSUME IInv, Restart
  PROVE  IInv'
<1>1. /\ UNCHANGED <<row, logins, refused>> /\ logins \in Nat
      /\ pc' = [t \in Tab |-> "idle"] /\ req' = [t \in Tab |-> NoRequest]
      /\ out' = [t \in Tab |-> NoAnswer] /\ jar' = [jar EXCEPT !.csrf = Aged(@)]
      /\ page' = [t \in Tab |-> [token |-> Aged(page[t].token), session |-> -1]]
  BY SessionsAssumption DEF Restart, table, IInv, Types
<1>2. \A token : Aged(token) \in Cookie /\ Aged(token) \notin Token
  BY TokenFacts DEF Aged
<1>3. jar' \in [session : 0..logins, csrf : Cookie]
  BY <1>1, <1>2 DEF IInv, Types
<1>4. \A t \in Tab : page'[t] \in Pages(logins) /\ Rendered(page'[t])
  BY <1>1, <1>2 DEF Pages, Rendered
<1>5. page' \in [Tab -> Pages(logins)]
  BY <1>1, <1>4
<1>6. NoRequest \in Requests(logins) /\ NoAnswer \in Answers(logins)
  BY <1>1, Empty
<1>7. Types'
  BY <1>1, <1>3, <1>5, <1>6 DEF IInv, Types
<1>8. RowsFit' /\ FoundFits'
  BY <1>1 DEF IInv, RowsFit, FoundFits
<1>9. PagesFit'
  <2>1. Fitting(NoAnswer)
    <3>1. -1 \in -1..logins
      BY <1>1
    <3> QED
      BY <1>1, <3>1, PlainAnswers
  <2> QED
    BY <1>1, <1>4, <2>1 DEF PagesFit, Fitting, Rendered
<1> QED
  BY <1>7, <1>8, <1>9 DEF IInv

-----------------------------------------------------------------------------
(* The invariant.                                                          *)

LEMMA InitInv == Init => IInv
<1> SUFFICES ASSUME Init PROVE IInv
  OBVIOUS
<1>1. 0 \in 0..MaxLogins /\ 0 \in Nat
  BY SessionsAssumption
<1>2. NoPage \in Pages(0) /\ NoRequest \in Requests(0) /\ NoAnswer \in Answers(0)
  BY <1>1, Empty
<1>3. Fitting(NoAnswer)
  <2>1. -1 \in -1..0
    OBVIOUS
  <2> QED
    BY <1>1, <2>1, PlainAnswers
<1>4. Rendered(NoPage)
  BY TokenFacts DEF NoPage, Rendered
<1>5. Types
  <2>1. logins = 0 /\ jar \in [session : 0..0, csrf : Cookie]
    BY TokenFacts DEF Init, NoSession
  <2>2. /\ row \in [Session -> [id : 0..MaxLogins, expired : BOOLEAN]]
        /\ pc \in [Tab -> Step]
    BY <1>1 DEF Init, Step
  <2>3. /\ page \in [Tab -> Pages(0)] /\ req \in [Tab -> Requests(0)]
        /\ out \in [Tab -> Answers(0)] /\ refused \in BOOLEAN
    BY <1>2 DEF Init
  <2> QED
    BY <1>1, <2>1, <2>2, <2>3 DEF Types, Step
<1>6. RowsFit /\ FoundFits
  BY DEF Init, RowsFit, FoundFits
<1>7. PagesFit
  BY <1>3, <1>4 DEF Init, PagesFit, Fitting
<1> QED
  BY <1>5, <1>6, <1>7 DEF IInv

LEMMA NextInv == IInv /\ [Next]_vars => IInv'
<1> SUFFICES ASSUME IInv, [Next]_vars PROVE IInv'
  OBVIOUS
<1>1. ASSUME NEW t \in Tab, Get(t) PROVE IInv'
  BY <1>1, SendInv DEF Get, Cookie
<1>2. ASSUME NEW t \in Tab, Post(t) PROVE IInv'
  <2>1. PICK form \in Form[t] : Send(t, form.kind, IF form.script THEN jar.csrf ELSE NoToken)
    BY <1>2 DEF Post
  <2>2. form \in [kind : {"login", "logout", "change"}, script : BOOLEAN]
    BY SessionsAssumption
  <2>3. form.kind \in {"page", "login", "logout", "change"}
    BY <2>2
  <2>4. (IF form.script THEN jar.csrf ELSE NoToken) \in Cookie
    BY DEF IInv, Types, Cookie
  <2> QED
    BY <2>1, <2>3, <2>4, SendInv
<1>3. ASSUME NEW t \in Tab, Serve(t) PROVE IInv'
  BY <1>3, IdentifyInv, ForgetInv, LoginFailsInv, DeleteExpiredInv, InsertInv, LogoutFindInv,
     LogoutDeleteInv DEF Serve
<1>4. ASSUME NEW t \in Tab, Deliver(t) \/ Lose(t) PROVE IInv'
  BY <1>4, DeliverInv, LoseInv
<1>5. ASSUME NEW s \in Expiring, Expire(s) PROVE IInv'
  <2>1. s \in Session
    BY SessionsAssumption DEF Session
  <2> QED
    BY <1>5, <2>1, ExpireInv
<1>6. CASE UNCHANGED vars
  BY <1>6 DEF vars, IInv, Types, RowsFit, FoundFits, Gone, PagesFit, Rendered
<1> QED
  BY <1>1, <1>2, <1>3, <1>4, <1>5, <1>6, RestartInv DEF Next

LEMMA Invariance == Spec => []IInv
  BY InitInv, NextInv, PTL DEF Spec

(* The variables keep their types: the cookies, pages and requests name    *)
(* only sessions that a login has created.                                 *)
THEOREM TypeCorrect == Spec => []TypeOK
<1>1. IInv => TypeOK
  BY DEF IInv, Types, PagesFit, TypeOK, Pages, Requests, Answers
<1> QED
  BY <1>1, Invariance, PTL

(* A plain form passes RequestProtection only from a page that this        *)
(* process rendered for the session of the request, in whatever order the  *)
(* tabs log in and out, by plain forms or by script, lose answers and see  *)
(* the process restart (security.go:78-96).                                *)
THEOREM FormsActForTheirPage == Spec => []PageActsAsItself
<1>1. ASSUME PagesFit PROVE PageActsAsItself
  BY <1>1 DEF PagesFit, Rendered, PageActsAsItself, Protected, validSignedCSRF, validRequestCSRF
<1> QED
  BY <1>1, Invariance, PTL DEF IInv

(* The row of a session that has not expired is deleted only by a logout   *)
(* with its cookie: the ids that GetUser and Logout read before they       *)
(* delete are never those of another session by then (auth.go:38,          *)
(* handlers.go:174).                                                       *)
THEOREM SessionsKept == Spec => SessionKept
<1> DEFINE Fate(s) == Live(s) /\ ~Live(s)' =>
                        row[s].expired \/ \E t \in Tab : pc[t] = "delete" /\ req[t].session = s
<1>1. ASSUME IInv, [Next]_vars, NEW s \in Session PROVE Fate(s)
  <2>1. CASE UNCHANGED row
    BY <2>1 DEF Live
  <2>2. ASSUME NEW t \in Tab, Forget(t) PROVE Fate(s)
    <3>1. Live(s) /\ ~Live(s)' => s = req[t].found
      BY <2>2, <1>1, DeleteFits DEF Forget, IInv
    <3>2. Gone(req[t].found)
      BY <1>1, <2>2 DEF IInv, FoundFits, Forget
    <3> QED
      BY <3>1, <3>2 DEF Gone, Live
  <2>3. ASSUME NEW t \in Tab, LogoutDelete(t) PROVE Fate(s)
    <3>1. Live(s) /\ ~Live(s)' => s = req[t].found
      BY <2>3, <1>1, DeleteFits DEF LogoutDelete, IInv
    <3>2. pc[t] = "delete" /\ req[t].found = req[t].session
      BY <1>1, <2>3 DEF IInv, FoundFits, LogoutDelete
    <3> QED
      BY <3>1, <3>2
  <2>4. ASSUME NEW t \in Tab, DeleteExpired(t) PROVE Fate(s)
    BY <2>4 DEF DeleteExpired, Live
  <2>5. ASSUME NEW t \in Tab, Insert(t) PROVE Fate(s)
    <3>1. /\ row' = [row EXCEPT ![logins + 1] = [id |-> logins + 1, expired |-> FALSE]]
          /\ logins \in Nat /\ row \in Rows
      BY <1>1, <2>5, SessionsAssumption DEF Insert, NewId, IInv, Types, Rows
    <3>2. row'[s] = row[s] \/ row'[s].id = logins + 1
      BY <3>1 DEF Rows
    <3> QED
      BY <3>1, <3>2 DEF Live
  <2>6. ASSUME NEW q \in Expiring, Expire(q) PROVE Fate(s)
    <3>1. row'[s].id = row[s].id
      BY <1>1, <2>6, SessionsAssumption DEF Expire, IInv, Types, Session
    <3> QED
      BY <3>1 DEF Live
  <2>7. ASSUME NEW t \in Tab,
               \/ Get(t) \/ Post(t) \/ Identify(t) \/ LoginFails(t) \/ LogoutFind(t)
               \/ Deliver(t) \/ Lose(t)
        PROVE  UNCHANGED row
    BY <2>7 DEF Get, Post, Send, Identify, LoginFails, LogoutFind, Deliver, Lose, table
  <2>8. CASE Restart
    BY <2>1, <2>8 DEF Restart, table
  <2>9. CASE UNCHANGED vars
    BY <2>1, <2>9 DEF vars
  <2> QED
    BY <1>1, <2>1, <2>2, <2>3, <2>4, <2>5, <2>6, <2>7, <2>8, <2>9 DEF Next, Serve
<1>2. IInv /\ [Next]_vars => [\A s \in Session : Fate(s)]_vars
  BY <1>1
<1> QED
  BY <1>2, Invariance, PTL DEF Spec, SessionKept
=============================================================================
