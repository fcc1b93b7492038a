---------------------------- MODULE SettingsProofs ----------------------------
(***************************************************************************)
(* The settings and sessions of a document, for any browsers, titles and   *)
(* passwords and any number of requests under way: the type invariant,     *)
(* that a change of the password ends the sessions it should, and what a   *)
(* save may change.                                                        *)
(***************************************************************************)
EXTENDS Settings, TLAPS

-----------------------------------------------------------------------------
(***************************************************************************)
(* Types.                                                                  *)
(***************************************************************************)

\* A new request is one.
LEMMA NewRequest ==
  ASSUME NEW b \in Browsers, NEW kind \in {"view", "auth", "load", "blur", "save"},
         NEW token \in 0 .. made, NEW body \in Form
  PROVE  Call(b, kind, token, body) \in Request
BY DEF Call, Request, Running

\* What users do keeps the types.
LEMMA UserTypes ==
  ASSUME SettingsTypeOK, NEW b \in Browsers, User(b)
  PROVE  SettingsTypeOK'
<1> USE DEF storeVars, browserVars, historyVars
<1>a. NoToken \in 0 .. made /\ cookie[b] \in 0 .. made
  BY DEF SettingsTypeOK, NoToken
<1>b. BlankForm \in Form
  BY SettingsAssumption DEF BlankForm, Form, Secrets
<1>c. form[b] \in Form /\ page[b] \in Page
  BY DEF SettingsTypeOK
<1>d. Event => events' \in 0 .. MaxEvents
  BY SettingsAssumption DEF SettingsTypeOK, Event
<1>e. ASSUME NEW kind \in {"view", "auth", "load", "blur", "save"}, NEW body \in Form,
             Asks(b, kind, body)
      PROVE  calls' \subseteq Request /\ events' \in 0 .. MaxEvents
  BY <1>a, <1>d, <1>e, NewRequest DEF Asks, SettingsTypeOK
<1>1. CASE Open(b)
  BY <1>1, <1>b, <1>e DEF Open, SettingsTypeOK, Request
<1>2. ASSUME NEW p \in Passwords, Login(b, p)
      PROVE  SettingsTypeOK'
  <2>1. [BlankForm EXCEPT !.secret = p] \in Form
    BY <1>b DEF Form, Secrets
  <2> QED
    BY <1>2, <1>e, <2>1 DEF Login, SettingsTypeOK, Request
<1>3. CASE ShowForm(b)
  <2>1. form' \in [Browsers -> Form]
    BY <1>3, <1>c DEF ShowForm, SettingsTypeOK, Form
  <2> QED
    BY <1>3, <1>b, <1>e, <2>1 DEF ShowForm, SettingsTypeOK, Request
<1>4. CASE HideForm(b)
  <2>1. form' \in [Browsers -> Form]
    BY <1>4, <1>c DEF HideForm, SettingsTypeOK, Form
  <2> QED
    BY <1>4, <1>d, <2>1 DEF HideForm, SettingsTypeOK, Request
<1>5. CASE Save(b)
  BY <1>5, <1>c, <1>e DEF Save, SettingsTypeOK, Request
<1>6. ASSUME NEW t \in Titles, Blur(b, t)
      PROVE  SettingsTypeOK'
  <2>1. [BlankForm EXCEPT !.title = t, !.panel = page[b].panel] \in Form
    BY <1>b, <1>c DEF Form, Page
  <2>2. page' \in [Browsers -> Page]
    BY <1>6, <1>c DEF Blur, SettingsTypeOK, Page
  <2> QED
    BY <1>6, <1>e, <2>1, <2>2 DEF Blur, SettingsTypeOK, Request
<1>7. ASSUME NEW field, NEW value, EditForm(b, field, value),
             \/ field = "title" /\ value \in Titles
             \/ field = "panel" /\ value \in BOOLEAN
             \/ field = "secret" /\ value \in Secrets
      PROVE  SettingsTypeOK'
  <2> DEFINE edited == [form[b] EXCEPT ![field] = value, !.touched = @ \cup {field}]
  <2>0. field \in Fields
    BY <1>7 DEF Fields
  <2>1. edited \in Form
    BY <1>7, <1>c, <2>0 DEF Form
  <2>2. form' = [form EXCEPT ![b] = edited]
    BY <1>7, <1>c DEF EditForm, SettingsTypeOK, Form
  <2>3. form' \in [Browsers -> Form]
    BY <2>1, <2>2 DEF SettingsTypeOK
  <2> QED
    BY <1>7, <1>d, <2>3 DEF EditForm, SettingsTypeOK, Request
<1> QED
  BY <1>1, <1>2, <1>3, <1>4, <1>5, <1>6, <1>7 DEF User

\* A statement of a handler keeps the types.
LEMMA HandlerTypes ==
  ASSUME SettingsTypeOK, NEW c \in calls, Handler(c)
  PROVE  SettingsTypeOK'
<1> USE DEF storeVars, browserVars, historyVars
<1>a. c \in Request
  BY DEF SettingsTypeOK
<1>d. Event => events' \in 0 .. MaxEvents
  BY SettingsAssumption DEF SettingsTypeOK, Event
<1>e. ASSUME NEW d \in Request, Becomes(c, d)
      PROVE  calls' \subseteq Request
  BY <1>e DEF Becomes, SettingsTypeOK
<1>1. CASE GetDocument(c)
  <2>1. [c EXCEPT !.step = "read", !.seen = {row}] \in Request
    BY <1>a DEF Request, Running, SettingsTypeOK
  <2>2. calls' \subseteq Request
    BY <1>1, <1>e, <2>1 DEF GetDocument
  <2> QED
    BY <1>1, <2>2 DEF GetDocument, SettingsTypeOK, Request
<1>2. CASE CheckAccess(c)
  <2>1. /\ [c EXCEPT !.step = "denied", !.seen = {}] \in Request
        /\ [c EXCEPT !.step = "ok"] \in Request
        /\ [c EXCEPT !.step = "granted", !.seen = {}] \in Request
    BY <1>a DEF Request, Running, Answers
  <2>2. calls' \subseteq Request
    BY <1>2, <1>e, <2>1 DEF CheckAccess
  <2> QED
    BY <1>2, <2>2 DEF CheckAccess, SettingsTypeOK, Request
<1>3. CASE NoLogin(c)
  <2>1. \A step \in {"ok", "denied"} : [c EXCEPT !.step = step, !.seen = {}] \in Request
    BY <1>a DEF Request, Answers
  <2>2. calls' \subseteq Request
    BY <1>3, <1>e, <2>1 DEF NoLogin
  <2> QED
    BY <1>3, <2>2 DEF NoLogin, SettingsTypeOK, Request
<1>4. CASE CreateSession(c)
  <2> DEFINE d == [c EXCEPT !.step = "ok", !.token = made', !.seen = {}]
  <2>1. made \in Nat /\ made' = made + 1 /\ made' \in Nat /\ made' \in 1 .. made'
    BY <1>4 DEF CreateSession, SettingsTypeOK
  <2>2. 0 .. made \subseteq 0 .. made' /\ 1 .. made \subseteq 1 .. made'
    BY <2>1
  <2>3. calls' \subseteq Request'
    <3>1. Request \subseteq Request'
      BY <2>2 DEF Request
    <3>2. made' \in 0 .. made'
      BY <2>1
    <3>3. d \in Request'
      BY <1>a, <2>2, <3>2 DEF Request, Answers
    <3> QED
      BY <1>4, <3>1, <3>3 DEF CreateSession, Becomes, SettingsTypeOK
  <2>4. sessions' \subseteq 1 .. made' /\ spared' \subseteq 1 .. made'
    BY <1>4, <2>1, <2>2 DEF CreateSession, SettingsTypeOK
  <2>5. checked' \in [1 .. made' -> Passwords \cup {NoPassword}]
    <3>1. c.body.secret \in Passwords \cup {NoPassword}
      BY <1>4, <1>a DEF CreateSession, SettingsTypeOK, Row, Request
    <3>2. \A t \in 1 .. made' : t # made' => t \in 1 .. made
      BY <2>1
    <3> QED
      BY <1>4, <3>1, <3>2 DEF CreateSession, SettingsTypeOK
  <2>6. cookie' \in [Browsers -> 0 .. made']
    BY <1>4, <2>2 DEF CreateSession, SettingsTypeOK
  <2> QED
    BY <1>4, <2>1, <2>3, <2>4, <2>5, <2>6 DEF CreateSession, SettingsTypeOK
<1>5. CASE UpdateDocumentSettings(c)
  <2>1. \A step \in {"ok", "updated"} : [c EXCEPT !.step = step] \in Request
    BY <1>a DEF Request, Running, Answers
  <2>2. calls' \subseteq Request
    BY <1>5, <1>e, <2>1 DEF UpdateDocumentSettings
  <2>3. c.body \in Form
    BY <1>a DEF Request
  <2>4. NewPassword(c.body.secret) \in Passwords \cup {NoPassword}
    BY <2>3 DEF NewPassword, Form, Secrets, SettingsTypeOK, Row
  <2>5. row' \in Row
    BY <1>5, <2>3, <2>4 DEF UpdateDocumentSettings, Row, Form
  <2>6. spared' \subseteq 1 .. made
    BY <1>5 DEF UpdateDocumentSettings, SettingsTypeOK
  <2> QED
    BY <1>5, <2>2, <2>5, <2>6 DEF UpdateDocumentSettings, SettingsTypeOK, Request
<1>6. CASE DeleteSessionsExcept(c) \/ DeleteFails(c)
  <2>1. [c EXCEPT !.step = "ok"] \in Request
    BY <1>a DEF Request, Answers
  <2>2. calls' \subseteq Request
    BY <1>6, <1>e, <2>1 DEF DeleteSessionsExcept, DeleteFails
  <2> QED
    BY <1>6, <1>d, <2>2 DEF DeleteSessionsExcept, DeleteFails, SettingsTypeOK, Request
<1>7. CASE Breaks(c)
  <2>1. [c EXCEPT !.step = "failed", !.seen = {}] \in Request
    BY <1>a DEF Request, Answers
  <2>2. calls' \subseteq Request
    BY <1>7, <1>e, <2>1 DEF Breaks
  <2> QED
    BY <1>7, <1>d, <2>2 DEF Breaks, SettingsTypeOK, Request
<1> QED
  BY <1>1, <1>2, <1>3, <1>4, <1>5, <1>6, <1>7 DEF Handler

\* So does an answer that arrives.
LEMMA ArrivalTypes ==
  ASSUME SettingsTypeOK, NEW c \in calls, Arrival(c)
  PROVE  SettingsTypeOK'
<1> USE DEF storeVars, browserVars, historyVars
<1>a. /\ c \in Request /\ c.by \in Browsers /\ c.token \in 0 .. made
      /\ c.body \in Form /\ c.seen \subseteq Row
  BY DEF SettingsTypeOK, Request
<1>b. BlankForm \in Form
  BY SettingsAssumption DEF BlankForm, Form, Secrets
<1>c. calls \ {c} \subseteq Request
  BY DEF SettingsTypeOK
<1>d. ASSUME NEW token \in 0 .. made, Reload(c, token)
      PROVE  calls' \subseteq Request
  <2>1. Call(c.by, "view", token, BlankForm) \in Request
    BY <1>a, <1>b, NewRequest
  <2> QED
    BY <1>c, <1>d, <2>1 DEF Reload
<1>p. \A r \in Row : \A what \in {"blank", "password", "document"} :
        Shows(what, r) \in Page
  BY DEF Shows, Page, Row
<1>r. NewRow \in Row
  BY SettingsAssumption DEF NewRow, Row
<1>o. form[c.by] \in Form /\ page[c.by] \in Page
  BY <1>a DEF SettingsTypeOK
<1>1. CASE ViewArrives(c)
  <2>1. calls' \subseteq Request
    <3>1. \A d \in calls : [d EXCEPT !.heard = @ /\ d.by # c.by] \in Request
      BY DEF SettingsTypeOK, Request
    <3> QED
      BY <1>1, <3>1 DEF ViewArrives
  <2>2. page' \in [Browsers -> Page]
    <3>1. \E p \in Page : page' = [page EXCEPT ![c.by] = p]
      BY <1>1, <1>a, <1>p, <1>r DEF ViewArrives
    <3> QED
      BY <3>1 DEF SettingsTypeOK
  <2>3. form' \in [Browsers -> Form]
    BY <1>1, <1>b DEF ViewArrives, SettingsTypeOK
  <2> QED
    BY <1>1, <2>1, <2>2, <2>3 DEF ViewArrives, SettingsTypeOK, Request
<1>2. CASE AuthArrives(c)
  <2>1. calls' \subseteq Request
    BY <1>2, <1>a, <1>c, <1>d DEF AuthArrives
  <2>2. cookie' \in [Browsers -> 0 .. made]
    BY <1>2, <1>a DEF AuthArrives, SettingsTypeOK
  <2> QED
    BY <1>2, <2>1, <2>2 DEF AuthArrives, SettingsTypeOK, Request
<1>3. CASE LoadArrives(c)
  <2>1. \A r \in Row : FillIn(form[c.by], r) \in Form
    BY <1>o DEF FillIn, Form, Row, Secrets
  <2>2. form' \in [Browsers -> Form]
    BY <1>3, <1>a, <2>1 DEF LoadArrives, SettingsTypeOK
  <2> QED
    BY <1>3, <1>c, <2>2 DEF LoadArrives, SettingsTypeOK, Request
<1>4. CASE BlurArrives(c)
  <2>1. page' \in [Browsers -> Page]
    BY <1>4, <1>a, <1>o DEF BlurArrives, SettingsTypeOK, Page, Form
  <2> QED
    BY <1>4, <1>c, <2>1 DEF BlurArrives, SettingsTypeOK, Request
<1>5. CASE SaveArrives(c)
  <2>1. calls' \subseteq Request
    BY <1>5, <1>a, <1>c, <1>d DEF SaveArrives, SettingsTypeOK
  <2>2. page' \in [Browsers -> Page]
    <3>1. \/ page' = page
          \/ page' = [page EXCEPT ![c.by] =
               [page[c.by] EXCEPT !.wrote = {c.body.panel},
                                  !.title = IF c.body.secret = "keep" THEN c.body.title ELSE @]]
          \/ page' = [page EXCEPT ![c.by] =
               [page[c.by] EXCEPT !.wrote = {c.body.panel}, !.title = c.body.title]]
      BY <1>5, <1>a DEF SaveArrives, SettingsTypeOK
    <3>2. {c.body.panel} \in SUBSET BOOLEAN /\ c.body.title \in Titles
      BY <1>a DEF Form
    <3>3. /\ [page[c.by] EXCEPT !.wrote = {c.body.panel},
                               !.title = IF c.body.secret = "keep" THEN c.body.title ELSE @]
               \in Page
          /\ [page[c.by] EXCEPT !.wrote = {c.body.panel}, !.title = c.body.title] \in Page
      BY <1>o, <3>2 DEF Page
    <3>4. \E p \in Page : page' = page \/ page' = [page EXCEPT ![c.by] = p]
      BY <1>o, <3>1, <3>3
    <3> QED
      BY <3>4 DEF SettingsTypeOK
  <2>3. form' \in [Browsers -> Form]
    <3>1. form' = form \/ form' = [form EXCEPT ![c.by] = [form[c.by] EXCEPT !.shown = FALSE]]
      BY <1>5 DEF SaveArrives
    <3>2. [form[c.by] EXCEPT !.shown = FALSE] \in Form
      BY <1>o DEF Form
    <3>3. \E f \in Form : form' = form \/ form' = [form EXCEPT ![c.by] = f]
      BY <3>1, <3>2
    <3> QED
      BY <3>3 DEF SettingsTypeOK
  <2> QED
    BY <1>5, <2>1, <2>2, <2>3 DEF SaveArrives, SettingsTypeOK, Request
<1>6. CASE Unheard(c)
  BY <1>6, <1>c DEF Unheard, SettingsTypeOK, Request
<1> QED
  BY <1>1, <1>2, <1>3, <1>4, <1>5, <1>6 DEF Arrival

LEMMA TypesStep ==
  ASSUME SettingsTypeOK, [Next]_vars
  PROVE  SettingsTypeOK'
<1>1. ASSUME NEW t \in sessions, Expire(t)
      PROVE  SettingsTypeOK'
  <2>1. cookie' \in [Browsers -> 0 .. made]
    BY <1>1 DEF Expire, SettingsTypeOK, NoToken
  <2>2. events' \in 0 .. MaxEvents
    BY <1>1, SettingsAssumption DEF Expire, Event, SettingsTypeOK
  <2> QED
    BY <1>1, <2>1, <2>2 DEF Expire, SettingsTypeOK, historyVars, Request
<1>2. CASE UNCHANGED vars
  BY <1>2 DEF vars, storeVars, browserVars, historyVars, SettingsTypeOK, Request
<1> QED
  BY <1>1, <1>2, UserTypes, HandlerTypes, ArrivalTypes DEF Next

LEMMA InitTypes ==
  ASSUME Init
  PROVE  SettingsTypeOK
<1>1. PICK pw \in Passwords \cup {NoPassword}, maker \in Browsers, filled \in BOOLEAN :
        LET in == {b \in Browsers : b = maker \/ pw = NoPassword}
        IN  /\ row = [NewRow EXCEPT !.password = pw]
            /\ checked = [t \in {1} |-> pw]
            /\ cookie = [b \in Browsers |-> IF b = maker THEN 1 ELSE NoToken]
            /\ page = [b \in Browsers |->
                         Shows(IF b \in in THEN "document" ELSE "password", NewRow)]
            /\ form = [b \in Browsers |->
                         IF b \in in /\ filled
                         THEN [BlankForm EXCEPT !.shown = TRUE, !.panel = TRUE, !.basis = {row}]
                         ELSE BlankForm]
  BY DEF Init
<1>2. NewRow \in Row /\ row \in Row
  BY <1>1, SettingsAssumption DEF NewRow, Row
<1>3. BlankForm \in Form
  BY SettingsAssumption DEF BlankForm, Form, Secrets
<1>4. [BlankForm EXCEPT !.shown = TRUE, !.panel = TRUE, !.basis = {row}] \in Form
  BY <1>2, <1>3 DEF Form
<1>5. \A what \in {"document", "password"} : Shows(what, NewRow) \in Page
  BY <1>2 DEF Shows, Page, Row
<1>6. form \in [Browsers -> Form] /\ page \in [Browsers -> Page]
  BY <1>1, <1>3, <1>4, <1>5
<1>7. made = 1 /\ 1 .. made = {1} /\ {0, 1} \subseteq 0 .. made
  BY DEF Init
<1>8. cookie \in [Browsers -> 0 .. made] /\ checked \in [1 .. made -> Passwords \cup {NoPassword}]
  BY <1>1, <1>7 DEF NoToken
<1> QED
  BY <1>2, <1>6, <1>7, <1>8, SettingsAssumption DEF Init, SettingsTypeOK

\* The type invariant: rows, cookies, pages, forms and requests are what the code can
\* make of them, whatever answers come late and whatever fails (handlers.go:60-250).
THEOREM SettingsTypes == Spec => []SettingsTypeOK
BY InitTypes, TypesStep, PTL DEF Spec

-----------------------------------------------------------------------------
(***************************************************************************)
(* Sessions.                                                               *)
(***************************************************************************)

\* Only the two kinds of posts get as far as the statements that write.
WritersPost ==
  \A c \in calls : c.step \in {"granted", "updated"} => c.kind \in {"blur", "save"}

\* OldSessionsEnd, also between the two statements of a save, when the deletion that
\* is still to come takes a session with it.
Excused(t) ==
  \/ checked[t] = row.password
  \/ t \in spared
  \/ \E c \in calls : c.step = "updated" /\ c.token # t

SessionsExcused == row.password # NoPassword => \A t \in sessions : Excused(t)

SessionsInv == WritersPost /\ SessionsExcused

\* Requests between the two statements stay there.
UpdatedStay ==
  \A c \in calls : c.step = "updated" => \E d \in calls' : d.step = "updated" /\ d.token = c.token

LEMMA ExcusesStay ==
  ASSUME SessionsExcused, UpdatedStay, row'.password = row.password,
         sessions' \subseteq sessions, spared \subseteq spared',
         \A t \in sessions : checked'[t] = checked[t]
  PROVE  SessionsExcused'
<1> SUFFICES ASSUME row'.password # NoPassword, NEW t \in sessions'
             PROVE  Excused(t)'
  BY DEF SessionsExcused
<1>1. Excused(t) /\ t \in sessions
  BY DEF SessionsExcused
<1> QED
  BY <1>1 DEF Excused, UpdatedStay

\* No user ends a request.
LEMMA UserSessions ==
  ASSUME SessionsInv, NEW b \in Browsers, User(b)
  PROVE  SessionsInv'
<1>1. UNCHANGED <<row, sessions, checked, spared>>
  BY DEF User, Open, Login, ShowForm, HideForm, EditForm, Save, Blur, storeVars, historyVars
<1>2. /\ calls \subseteq calls'
      /\ \A c \in calls' : c \in calls \/ c.step = "sent"
  <2>1. \A kind, token, body : Call(b, kind, token, body).step = "sent"
    BY DEF Call
  <2>2. \/ calls' = calls
        \/ \E kind, body : calls' = calls \cup {Call(b, kind, cookie[b], body)}
    BY DEF User, Open, Login, ShowForm, HideForm, EditForm, Save, Blur, Asks
  <2> QED
    BY <2>1, <2>2
<1>3. WritersPost' /\ UpdatedStay
  BY <1>2 DEF SessionsInv, WritersPost, UpdatedStay
<1> QED
  BY <1>1, <1>3, ExcusesStay DEF SessionsInv

\* Only a request that was answered ends when its answer arrives.
LEMMA ArrivalSessions ==
  ASSUME SessionsInv, NEW c \in calls, Arrival(c)
  PROVE  SessionsInv'
<1>1. UNCHANGED <<row, sessions, checked, spared>>
  BY DEF Arrival, ViewArrives, AuthArrives, LoadArrives, BlurArrives, SaveArrives,
         Unheard, storeVars, historyVars
<1>2. c.step # "updated"
  BY DEF Arrival, ViewArrives, AuthArrives, LoadArrives, BlurArrives, SaveArrives,
         Unheard, Arrives, Answers
<1>3. CASE ViewArrives(c)
  <2>1. calls' = {[d EXCEPT !.heard = @ /\ d.by # c.by] : d \in calls \ {c}}
    BY <1>3 DEF ViewArrives
  <2>2. \A d \in calls : LET e == [d EXCEPT !.heard = @ /\ d.by # c.by]
                         IN  e.step = d.step /\ e.kind = d.kind /\ e.token = d.token
    OBVIOUS
  <2>3. \A d \in calls \ {c} : \E e \in calls' : e.step = d.step /\ e.token = d.token
    BY <2>1, <2>2
  <2>4. ASSUME NEW e \in calls'
        PROVE  \E d \in calls : e.step = d.step /\ e.kind = d.kind
    <3>1. PICK d \in calls \ {c} : e = [d EXCEPT !.heard = @ /\ d.by # c.by]
      BY <2>1
    <3> QED
      BY <2>2, <3>1
  <2>5. WritersPost'
    BY <2>4 DEF SessionsInv, WritersPost
  <2>6. UpdatedStay
    BY <1>2, <2>3 DEF UpdatedStay
  <2> QED
    BY <1>1, <2>5, <2>6, ExcusesStay DEF SessionsInv
<1>4. CASE AuthArrives(c) \/ LoadArrives(c) \/ BlurArrives(c) \/ SaveArrives(c) \/ Unheard(c)
  <2>1. \/ calls' = calls \ {c}
        \/ \E token : Reload(c, token)
    BY <1>4 DEF AuthArrives, LoadArrives, BlurArrives, SaveArrives, Unheard
  <2>2. CASE calls' = calls \ {c}
    BY <1>1, <1>2, <2>2, ExcusesStay DEF SessionsInv, WritersPost, UpdatedStay
  <2>3. ASSUME NEW token, Reload(c, token)
        PROVE  SessionsInv'
    <3>1. \A d \in calls' : d \in calls \/ d.step = "sent"
      BY <2>3 DEF Reload, Call
    <3>2. \A d \in calls : d.step = "updated" => d \in calls'
      BY <1>2, <2>3 DEF Reload, SessionsInv, WritersPost
    <3>3. WritersPost' /\ UpdatedStay
      BY <3>1, <3>2 DEF SessionsInv, WritersPost, UpdatedStay
    <3> QED
      BY <1>1, <3>3, ExcusesStay DEF SessionsInv
  <2> QED
    BY <2>1, <2>2, <2>3
<1> QED
  BY <1>3, <1>4 DEF Arrival

\* A change of the password, a deletion, and a login are the steps that matter.
LEMMA HandlerSessions ==
  ASSUME SettingsTypeOK, SessionsInv, NEW c \in calls, Handler(c)
  PROVE  SessionsInv'
<1> USE DEF SessionsInv
<1>a. c \in Request
  BY DEF SettingsTypeOK
<1>b. ASSUME NEW d, Becomes(c, d), d.kind = c.kind,
             d.step \in {"granted", "updated"} => c.kind \in {"blur", "save"}
      PROVE  WritersPost'
  BY <1>b DEF Becomes, WritersPost
<1>c. ASSUME NEW d, Becomes(c, d), c.step # "updated"
      PROVE  UpdatedStay
  BY <1>c DEF Becomes, UpdatedStay
<1>1. CASE GetDocument(c)
  <2> DEFINE d == [c EXCEPT !.step = "read", !.seen = {row}]
  <2>1. Becomes(c, d) /\ d.kind = c.kind /\ d.step = "read" /\ c.step # "updated"
    BY <1>1, <1>a DEF GetDocument, Request
  <2>2. WritersPost' /\ UpdatedStay
    BY <1>b, <1>c, <2>1
  <2> QED
    BY <1>1, <2>2, ExcusesStay DEF GetDocument, storeVars, historyVars
<1>2. CASE CheckAccess(c)
  <2> DEFINE denied == [c EXCEPT !.step = "denied", !.seen = {}]
             ok == [c EXCEPT !.step = "ok"]
             granted == [c EXCEPT !.step = "granted", !.seen = {}]
  <2>1. /\ denied.kind = c.kind /\ denied.step = "denied"
        /\ ok.kind = c.kind /\ ok.step = "ok"
        /\ granted.kind = c.kind
        /\ c.step # "updated" /\ c.kind # "auth"
    BY <1>2, <1>a DEF CheckAccess, Request
  <2>2. \/ Becomes(c, denied) \/ Becomes(c, ok)
        \/ Becomes(c, granted) /\ c.kind \notin {"view", "load"}
    BY <1>2 DEF CheckAccess
  <2>3. c.kind \in {"view", "auth", "load", "blur", "save"}
    BY <1>a DEF Request
  <2>4. WritersPost' /\ UpdatedStay
    BY <1>b, <1>c, <2>1, <2>2, <2>3
  <2> QED
    BY <1>2, <2>4, ExcusesStay DEF CheckAccess, storeVars, historyVars
<1>3. CASE NoLogin(c)
  <2>0. \A step : LET d == [c EXCEPT !.step = step, !.seen = {}]
                 IN  d.kind = c.kind /\ d.step = step
    BY <1>a DEF Request
  <2>1. \E d : Becomes(c, d) /\ d.kind = c.kind /\ d.step \in {"ok", "denied"}
    <3>1. PICK step \in {"ok", "denied"} : Becomes(c, [c EXCEPT !.step = step, !.seen = {}])
      BY <1>3 DEF NoLogin
    <3> QED
      BY <2>0, <3>1
  <2>2. WritersPost' /\ UpdatedStay
    BY <1>3, <1>b, <1>c, <2>1 DEF NoLogin
  <2> QED
    BY <1>3, <2>2, ExcusesStay DEF NoLogin, storeVars, historyVars
<1>4. CASE CreateSession(c)
  <2> DEFINE d == [c EXCEPT !.step = "ok", !.token = made', !.seen = {}]
  <2>1. Becomes(c, d) /\ d.kind = c.kind /\ d.step = "ok" /\ c.step # "updated"
    BY <1>4, <1>a DEF CreateSession, Request
  <2>2. WritersPost' /\ UpdatedStay
    BY <1>b, <1>c, <2>1
  <2>3. /\ made' = made + 1 /\ made \in Nat /\ sessions \subseteq 1 .. made
        /\ row' = row /\ spared \subseteq spared'
    BY <1>4 DEF CreateSession, SettingsTypeOK
  <2>4. \A t \in sessions : t # made' /\ checked'[t] = checked[t]
    BY <1>4, <2>3 DEF CreateSession
  <2>5. ASSUME NEW t \in sessions, row.password # NoPassword
        PROVE  Excused(t)'
    BY <2>2, <2>3, <2>4, <2>5 DEF SessionsExcused, Excused, UpdatedStay
  <2>6. ASSUME NEW t, t = made'
        PROVE  Excused(t)'
    <3>1. t \in 1 .. made'
      BY <2>3, <2>6
    <3>2. checked'[t] = c.body.secret
      BY <1>4, <2>6, <3>1 DEF CreateSession
    <3>3. c.body.secret = row.password \/ t \in spared'
      BY <1>4, <2>6 DEF CreateSession
    <3> QED
      BY <2>3, <3>2, <3>3 DEF Excused
  <2>7. sessions' = sessions \cup {made'}
    BY <1>4 DEF CreateSession
  <2> QED
    BY <2>2, <2>3, <2>5, <2>6, <2>7 DEF SessionsExcused
<1>5. CASE UpdateDocumentSettings(c)
  <2>1. c.kind \in {"blur", "save"} /\ c.step # "updated"
    BY <1>5 DEF UpdateDocumentSettings, WritersPost
  <2>2. CASE c.body.secret = "keep"
    <3>1. row'.password = row.password
      BY <1>5, <2>2 DEF UpdateDocumentSettings, NewPassword
    <3>2. WritersPost' /\ UpdatedStay
      BY <1>5, <1>a, <1>b, <1>c, <2>1, <2>2 DEF UpdateDocumentSettings, Request
    <3> QED
      BY <1>5, <2>2, <3>1, <3>2, ExcusesStay DEF UpdateDocumentSettings
  <2>3. CASE c.body.secret # "keep"
    <3> DEFINE d == [c EXCEPT !.step = "updated"]
    <3>1. /\ Becomes(c, d) /\ d.kind = c.kind /\ d.step = "updated" /\ d.token = c.token
          /\ d \in calls'
      BY <1>5, <1>a, <2>3 DEF UpdateDocumentSettings, Request, Becomes
    <3>2. WritersPost'
      BY <1>b, <2>1, <3>1
    <3>3. ASSUME NEW t \in sessions
          PROVE  Excused(t)'
      \* the deletion to come takes it, or it is the one of who changed the password
      <4>1. CASE t # c.token
        BY <3>1, <4>1 DEF Excused
      <4>2. CASE t = c.token
        BY <1>5, <2>3, <4>2 DEF UpdateDocumentSettings, Excused
      <4> QED
        BY <4>1, <4>2
    <3> QED
      BY <1>5, <3>2, <3>3 DEF UpdateDocumentSettings, SessionsExcused
  <2> QED
    BY <2>2, <2>3
<1>6. CASE DeleteSessionsExcept(c)
  <2> DEFINE d == [c EXCEPT !.step = "ok"]
  <2>1. Becomes(c, d) /\ d.kind = c.kind /\ d.step = "ok"
    BY <1>6, <1>a DEF DeleteSessionsExcept, Request
  <2>2. WritersPost'
    BY <1>b, <2>1
  <2>3. UNCHANGED <<row, checked, spared>> /\ sessions' = sessions \cap {c.token}
    BY <1>6 DEF DeleteSessionsExcept, historyVars
  <2>4. ASSUME NEW t \in sessions', row'.password # NoPassword
        PROVE  Excused(t)'
    \* a deletion that excuses the session left is another one
    BY <2>1, <2>3, <2>4 DEF SessionsExcused, Excused, Becomes
  <2> QED
    BY <2>2, <2>4 DEF SessionsExcused
<1>7. CASE DeleteFails(c) \/ Breaks(c)
  <2>1. \E d : Becomes(c, d) /\ d.kind = c.kind /\ d.step \in {"ok", "failed"}
    <3> DEFINE ok == [c EXCEPT !.step = "ok"]
               failed == [c EXCEPT !.step = "failed", !.seen = {}]
    <3>1. ok.kind = c.kind /\ ok.step = "ok" /\ failed.kind = c.kind /\ failed.step = "failed"
      BY <1>a DEF Request
    <3>2. Becomes(c, ok) \/ Becomes(c, failed)
      BY <1>7 DEF DeleteFails, Breaks
    <3> QED
      BY <3>1, <3>2
  <2>2. WritersPost'
    BY <1>b, <2>1
  <2>3. UNCHANGED <<row, sessions, checked>>
    BY <1>7 DEF DeleteFails, Breaks, storeVars
  <2>4. CASE sessions \subseteq spared'
    BY <2>2, <2>3, <2>4 DEF SessionsExcused, Excused
  <2>5. CASE c.step # "updated" /\ spared \subseteq spared'
    <3>1. UpdatedStay
      BY <1>c, <2>1, <2>5
    <3> QED
      BY <2>2, <2>3, <2>5, <3>1, ExcusesStay
  <2> QED
    BY <1>7, <2>4, <2>5 DEF DeleteFails, Breaks
<1> QED
  BY <1>1, <1>2, <1>3, <1>4, <1>5, <1>6, <1>7 DEF Handler

LEMMA SessionsStep ==
  ASSUME SettingsTypeOK, SessionsInv, [Next]_vars
  PROVE  SessionsInv'
<1>1. ASSUME NEW t \in sessions, Expire(t)
      PROVE  SessionsInv'
  <2>1. WritersPost' /\ UpdatedStay
    BY <1>1 DEF Expire, SessionsInv, WritersPost, UpdatedStay
  <2> QED
    BY <1>1, <2>1, ExcusesStay DEF Expire, SessionsInv, historyVars
<1>2. CASE UNCHANGED vars
  <2>1. WritersPost' /\ UpdatedStay
    BY <1>2 DEF vars, SessionsInv, WritersPost, UpdatedStay
  <2> QED
    BY <1>2, <2>1, ExcusesStay DEF vars, storeVars, SessionsInv, historyVars
<1> QED
  BY <1>1, <1>2, UserSessions, HandlerSessions, ArrivalSessions DEF Next

\* Whatever logins, saves and failures run against each other, a protected document has
\* no session of an earlier password but those the last change may leave
\* (handlers.go:239-250).
THEOREM OldSessionsAreEnded == Spec => []OldSessionsEnd
<1>1. Init => SessionsInv
  BY DEF Init, SessionsInv, WritersPost, SessionsExcused, Excused, NewRow
<1>2. SettingsTypeOK /\ SessionsInv /\ [Next]_vars => SessionsInv'
  BY SessionsStep
<1>3. SessionsInv => OldSessionsEnd
  BY DEF SessionsInv, SessionsExcused, Excused, OldSessionsEnd
<1> QED
  BY <1>1, <1>2, <1>3, SettingsTypes, PTL DEF Spec

-----------------------------------------------------------------------------
(***************************************************************************)
(* Saves.                                                                  *)
(***************************************************************************)

\* What differs from the settings a form was filled in from was touched since.
Kept(f) ==
  /\ f.secret # "keep" => "secret" \in f.touched
  /\ \A r \in f.basis : /\ f.title # r.title => "title" \in f.touched
                        /\ f.panel # r.panel => "panel" \in f.touched

\* The form a request carries is kept, and a title carries no password.
CallInv(c) ==
  /\ c.step \in {"granted", "updated"} => c.kind \in {"blur", "save"}
  /\ c.kind \notin {"save", "auth"} => c.body.secret = "keep"
  /\ c.kind = "save" => Kept(c.body)

SavesInv ==
  /\ \A b \in Browsers : Kept(form[b])
  /\ \A c \in calls : CallInv(c)

\* Two requests of a kind and a body are as far as this goes alike.
LEMMA SameCallInv ==
  ASSUME NEW c, NEW d, CallInv(c), d.kind = c.kind, d.body = c.body,
         d.step \in {"granted", "updated"} => c.kind \in {"blur", "save"}
  PROVE  CallInv(d)
BY DEF CallInv

LEMMA NewCallInv ==
  ASSUME NEW b, NEW kind, NEW token, NEW body,
         kind \notin {"save", "auth"} => body.secret = "keep",
         kind = "save" => Kept(body)
  PROVE  CallInv(Call(b, kind, token, body))
BY DEF CallInv, Call

LEMMA UserSaves ==
  ASSUME SettingsTypeOK, SavesInv, NEW b \in Browsers, User(b)
  PROVE  SavesInv'
<1>a. BlankForm.secret = "keep" /\ Kept(BlankForm)
  BY DEF BlankForm, Kept
<1>c. form[b] \in Form /\ Kept(form[b])
  BY DEF SettingsTypeOK, SavesInv
<1>d. ASSUME NEW kind, NEW body, Asks(b, kind, body),
             kind \notin {"save", "auth"} => body.secret = "keep",
             kind = "save" => Kept(body)
      PROVE  \A c \in calls' : CallInv(c)
  BY <1>d, NewCallInv DEF Asks, SavesInv
<1>e. ASSUME NEW f, Kept(f), form' = [form EXCEPT ![b] = f]
      PROVE  \A a \in Browsers : Kept(form'[a])
  BY <1>e DEF SavesInv, SettingsTypeOK
<1>1. CASE Open(b)
  BY <1>1, <1>a, <1>d DEF Open, SavesInv, browserVars
<1>2. ASSUME NEW p \in Passwords, Login(b, p)
      PROVE  SavesInv'
  BY <1>2, <1>d DEF Login, SavesInv, browserVars
<1>3. CASE ShowForm(b)
  <2>1. Kept([form[b] EXCEPT !.shown = TRUE])
    BY <1>c DEF Kept, Form
  <2>2. \A a \in Browsers : Kept(form'[a])
    BY <1>3, <1>e, <2>1 DEF ShowForm
  <2> QED
    BY <1>3, <1>a, <1>d, <2>2 DEF ShowForm, SavesInv
<1>4. CASE HideForm(b)
  <2>1. Kept([form[b] EXCEPT !.shown = FALSE])
    BY <1>c DEF Kept, Form
  <2>2. \A a \in Browsers : Kept(form'[a])
    BY <1>4, <1>e, <2>1 DEF HideForm
  <2> QED
    BY <1>4, <2>2 DEF HideForm, SavesInv
<1>5. CASE Save(b)
  BY <1>5, <1>c, <1>d DEF Save, SavesInv, browserVars
<1>6. ASSUME NEW t \in Titles, Blur(b, t)
      PROVE  SavesInv'
  <2>1. [BlankForm EXCEPT !.title = t, !.panel = page[b].panel].secret = "keep"
    BY DEF BlankForm
  <2> QED
    BY <1>6, <1>d, <2>1 DEF Blur, SavesInv
<1>7. ASSUME NEW field \in Fields, NEW value, EditForm(b, field, value)
      PROVE  SavesInv'
  <2> DEFINE edited == [form[b] EXCEPT ![field] = value, !.touched = @ \cup {field}]
  <2>1. Kept(edited)
    BY <1>7, <1>c DEF Kept, Form, Fields
  <2>2. form' = [form EXCEPT ![b] = edited]
    BY <1>7, <1>c DEF EditForm, SettingsTypeOK, Form, Fields
  <2>3. \A a \in Browsers : Kept(form'[a])
    BY <1>e, <2>1, <2>2
  <2> QED
    BY <1>7, <2>3 DEF EditForm, SavesInv
<1> QED
  BY <1>1, <1>2, <1>3, <1>4, <1>5, <1>6, <1>7 DEF User, Fields

LEMMA HandlerSaves ==
  ASSUME SettingsTypeOK, SavesInv, NEW c \in calls, Handler(c)
  PROVE  SavesInv'
<1>a. c \in Request /\ CallInv(c)
  BY DEF SettingsTypeOK, SavesInv
<1>1. UNCHANGED form
  BY DEF Handler, GetDocument, CheckAccess, NoLogin, CreateSession, UpdateDocumentSettings,
         DeleteSessionsExcept, DeleteFails, Breaks, browserVars
<1> DEFINE Follows(d) ==
             /\ d.kind = c.kind /\ d.body = c.body
             /\ d.step \in {"granted", "updated"} => c.kind \in {"blur", "save"}
<1>b. ASSUME NEW d, Becomes(c, d), Follows(d)
      PROVE  \A e \in calls' : CallInv(e)
  <2>1. CallInv(d)
    BY <1>a, <1>b, SameCallInv
  <2> QED
    BY <1>b, <2>1 DEF Becomes, SavesInv
<1>c. ASSUME NEW step, step \in {"granted", "updated"} => c.kind \in {"blur", "save"}
      PROVE  /\ Follows([c EXCEPT !.step = step])
             /\ \A seen : Follows([c EXCEPT !.step = step, !.seen = seen])
             /\ \A token, seen : Follows([c EXCEPT !.step = step, !.token = token, !.seen = seen])
  BY <1>a, <1>c DEF Request
<1>3. \A d \in calls' : CallInv(d)
  <2>1. CASE CheckAccess(c)
    <3> DEFINE granted == [c EXCEPT !.step = "granted", !.seen = {}]
    <3>1. \/ Becomes(c, [c EXCEPT !.step = "denied", !.seen = {}])
          \/ Becomes(c, [c EXCEPT !.step = "ok"])
          \/ Becomes(c, granted) /\ c.kind \notin {"auth", "view", "load"}
      BY <2>1 DEF CheckAccess
    <3>2. c.kind \in {"view", "auth", "load", "blur", "save"}
      BY <1>a DEF Request
    <3>3. CASE Becomes(c, granted) /\ c.kind \notin {"auth", "view", "load"}
      <4>1. Follows(granted)
        BY <1>c, <3>2, <3>3
      <4> QED
        BY <1>b, <3>3, <4>1
    <3>4. Follows([c EXCEPT !.step = "denied", !.seen = {}]) /\ Follows([c EXCEPT !.step = "ok"])
      BY <1>c
    <3> QED
      BY <1>b, <3>1, <3>3, <3>4
  <2>2. CASE UpdateDocumentSettings(c)
    <3>1. c.kind \in {"blur", "save"}
      BY <1>a, <2>2 DEF UpdateDocumentSettings, CallInv
    <3>2. Follows([c EXCEPT !.step = "ok"]) /\ Follows([c EXCEPT !.step = "updated"])
      BY <1>c, <3>1
    <3> QED
      BY <1>b, <2>2, <3>2 DEF UpdateDocumentSettings
  <2>3. CASE GetDocument(c)
    <3>1. Follows([c EXCEPT !.step = "read", !.seen = {row}])
      BY <1>c
    <3> QED
      BY <1>b, <2>3, <3>1 DEF GetDocument
  <2>4. CASE NoLogin(c)
    <3>1. \A step \in {"ok", "denied"} : Follows([c EXCEPT !.step = step, !.seen = {}])
      BY <1>c
    <3>2. \E step \in {"ok", "denied"} : Becomes(c, [c EXCEPT !.step = step, !.seen = {}])
      BY <2>4 DEF NoLogin
    <3> QED
      BY <1>b, <3>1, <3>2
  <2>5. CASE DeleteSessionsExcept(c) \/ DeleteFails(c)
    <3>1. Follows([c EXCEPT !.step = "ok"])
      BY <1>c
    <3> QED
      BY <1>b, <2>5, <3>1 DEF DeleteSessionsExcept, DeleteFails
  <2>6. CASE Breaks(c)
    <3>1. Follows([c EXCEPT !.step = "failed", !.seen = {}])
      BY <1>c
    <3> QED
      BY <1>b, <2>6, <3>1 DEF Breaks
  <2>7. CASE CreateSession(c)
    <3>1. Follows([c EXCEPT !.step = "ok", !.token = made', !.seen = {}])
      BY <1>c
    <3> QED
      BY <1>b, <2>7, <3>1 DEF CreateSession
  <2> QED
    BY <2>1, <2>2, <2>3, <2>4, <2>5, <2>6, <2>7 DEF Handler
<1> QED
  BY <1>1, <1>3 DEF SavesInv

LEMMA ArrivalSaves ==
  ASSUME SettingsTypeOK, SavesInv, NEW c \in calls, Arrival(c)
  PROVE  SavesInv'
<1>a. BlankForm.secret = "keep" /\ Kept(BlankForm)
  BY DEF BlankForm, Kept
<1>b. c.by \in Browsers /\ form[c.by] \in Form /\ Kept(form[c.by])
  BY DEF SettingsTypeOK, Request, SavesInv
<1>1. \A d \in calls' : CallInv(d)
  <2>1. CASE ViewArrives(c)
    <3>1. SUFFICES ASSUME NEW e \in calls'
                   PROVE  CallInv(e)
      OBVIOUS
    <3>2. PICK d \in calls \ {c} : e = [d EXCEPT !.heard = @ /\ d.by # c.by]
      BY <2>1 DEF ViewArrives
    <3>3. e.kind = d.kind /\ e.body = d.body /\ e.step = d.step
      BY <3>2 DEF SettingsTypeOK, Request
    <3> QED
      BY <3>3 DEF SavesInv, CallInv
  <2>2. \A token : CallInv(Call(c.by, "view", token, BlankForm))
    BY <1>a, NewCallInv
  <2>3. CASE \/ AuthArrives(c) \/ LoadArrives(c) \/ BlurArrives(c) \/ SaveArrives(c)
             \/ Unheard(c)
    <3>1. \/ calls' = calls \ {c}
          \/ \E token : Reload(c, token)
      BY <2>3 DEF AuthArrives, LoadArrives, BlurArrives, SaveArrives, Unheard
    <3> QED
      BY <2>2, <3>1 DEF Reload, SavesInv
  <2> QED
    BY <2>1, <2>3 DEF Arrival
<1>2. \A b \in Browsers : Kept(form'[b])
  <2>1. \A r \in Row : Kept(FillIn(form[c.by], r))
    BY <1>b DEF FillIn, Form, Kept
  <2>2. Kept([form[c.by] EXCEPT !.shown = FALSE])
    BY <1>b DEF Form, Kept
  <2>3. \/ form' = form
        \/ \E f : Kept(f) /\ form' = [form EXCEPT ![c.by] = f]
    <3>1. CASE LoadArrives(c)
      BY <3>1, <2>1 DEF LoadArrives, SettingsTypeOK, Request
    <3>2. CASE SaveArrives(c)
      BY <3>2, <2>2 DEF SaveArrives
    <3>3. CASE ViewArrives(c)
      BY <3>3, <1>a DEF ViewArrives
    <3>4. CASE AuthArrives(c) \/ BlurArrives(c) \/ Unheard(c)
      BY <3>4 DEF AuthArrives, BlurArrives, Unheard, browserVars
    <3> QED
      BY <3>1, <3>2, <3>3, <3>4 DEF Arrival
  <2> QED
    BY <2>3 DEF SavesInv, SettingsTypeOK
<1> QED
  BY <1>1, <1>2 DEF SavesInv

LEMMA SavesInvariant == Spec => []SavesInv
<1>1. Init => SavesInv
  <2> SUFFICES ASSUME Init
               PROVE  SavesInv
    OBVIOUS
  <2>1. NewRow \in Row /\ row.title = NewRow.title /\ row.panel = TRUE
    BY SettingsAssumption DEF Init, NewRow, Row
  <2>2. Kept(BlankForm)
    BY DEF BlankForm, Kept
  <2>3. Kept([BlankForm EXCEPT !.shown = TRUE, !.panel = TRUE, !.basis = {row}])
    BY <2>1 DEF BlankForm, Kept, NewRow
  <2>4. calls = {} /\ \A b \in Browsers : Kept(form[b])
    BY <2>2, <2>3 DEF Init
  <2> QED
    BY <2>4 DEF SavesInv
<1>2. ASSUME SettingsTypeOK, SavesInv, [Next]_vars
      PROVE  SavesInv'
  <2>1. ASSUME NEW t \in sessions, Expire(t)
        PROVE  SavesInv'
    <3>1. form' = form /\ calls' = calls
      BY <2>1 DEF Expire
    <3> QED
      BY <1>2, <3>1 DEF SavesInv
  <2>2. CASE UNCHANGED vars
    <3>1. form' = form /\ calls' = calls
      BY <2>2 DEF vars, browserVars
    <3> QED
      BY <1>2, <3>1 DEF SavesInv
  <2> QED
    BY <1>2, <2>1, <2>2, UserSaves, HandlerSaves, ArrivalSaves DEF Next
<1> QED
  BY <1>1, <1>2, SettingsTypes, PTL DEF Spec

\* The row of documents has one writer.
LEMMA OnlySettingsWrite ==
  ASSUME [Next]_vars, row' # row
  PROVE  \E c \in calls : UpdateDocumentSettings(c)
<1>1. ASSUME NEW b \in Browsers, User(b)
      PROVE  row' = row
  BY <1>1 DEF User, Open, Login, ShowForm, HideForm, EditForm, Save, Blur, storeVars
<1>2. ASSUME NEW c \in calls, Arrival(c)
      PROVE  row' = row
  BY <1>2 DEF Arrival, ViewArrives, AuthArrives, LoadArrives, BlurArrives, SaveArrives,
              Unheard, storeVars
<1>3. ASSUME NEW c \in calls, Handler(c)
      PROVE  row' = row \/ UpdateDocumentSettings(c)
  BY <1>3 DEF Handler, GetDocument, CheckAccess, NoLogin, CreateSession,
              DeleteSessionsExcept, DeleteFails, Breaks, storeVars
<1> QED
  BY <1>1, <1>2, <1>3 DEF Next, Expire, vars, storeVars

\* No title that is left, and no save that keeps the password, changes it, whatever it
\* was when their handlers read the row (handlers.go:222-243, documents.go:71-88).
THEOREM PasswordsAreChosen == Spec => PasswordIsChosen
<1> DEFINE Chosen ==
             row'.password # row.password
               => \E c \in calls : /\ c.step = "granted"
                                   /\ c.kind = "save"
                                   /\ row'.password = NewPassword(c.body.secret)
                                   /\ "secret" \in c.body.touched
<1>1. ASSUME SavesInv, [Next]_vars
      PROVE  [Chosen]_vars
  <2> SUFFICES ASSUME row'.password # row.password
               PROVE  Chosen
    OBVIOUS
  <2>1. PICK c \in calls : UpdateDocumentSettings(c)
    BY <1>1, OnlySettingsWrite
  <2>2. row'.password = NewPassword(c.body.secret) /\ c.body.secret # "keep"
    BY <2>1 DEF UpdateDocumentSettings, NewPassword
  <2>3. c.step = "granted" /\ c.kind = "save" /\ Kept(c.body)
    BY <1>1, <2>1, <2>2 DEF UpdateDocumentSettings, SavesInv, CallInv
  <2> QED
    BY <2>2, <2>3 DEF Kept
<1> QED
  BY <1>1, SavesInvariant, PTL DEF Spec, PasswordIsChosen

\* A save whose form was filled in from the row it finds changes what its user touched
\* (editor.mjs:227-236, 374-379).
THEOREM SavesChangeTouched == Spec => SaveChangesTouched
<1> DEFINE Own(c) ==
             (c.kind = "save" /\ c.step = "granted" /\ row \in c.body.basis /\ row' # row
                /\ c \notin calls')
               => /\ row'.title # row.title => "title" \in c.body.touched
                  /\ row'.panel # row.panel => "panel" \in c.body.touched
                  /\ row'.password # row.password => "secret" \in c.body.touched
<1>1. ASSUME SavesInv, [Next]_vars
      PROVE  [\A c \in calls : Own(c)]_vars
  <2> SUFFICES ASSUME NEW c \in calls, c.kind = "save", row \in c.body.basis,
                      row' # row, c \notin calls'
               PROVE  /\ row'.title # row.title => "title" \in c.body.touched
                      /\ row'.panel # row.panel => "panel" \in c.body.touched
                      /\ row'.password # row.password => "secret" \in c.body.touched
    OBVIOUS
  <2>1. PICK d \in calls : UpdateDocumentSettings(d)
    BY <1>1, OnlySettingsWrite
  <2>2. c = d
    BY <2>1 DEF UpdateDocumentSettings, Becomes
  <2>3. /\ row'.title = c.body.title /\ row'.panel = c.body.panel
        /\ row'.password = NewPassword(c.body.secret)
    BY <2>1, <2>2 DEF UpdateDocumentSettings
  <2>4. Kept(c.body)
    BY <1>1 DEF SavesInv, CallInv
  <2> QED
    BY <2>3, <2>4 DEF Kept, NewPassword
<1> QED
  BY <1>1, SavesInvariant, PTL DEF Spec, SaveChangesTouched

-----------------------------------------------------------------------------
(***************************************************************************)
(* The panel of a page.                                                    *)
(***************************************************************************)

\* One request for a page at a time, whose answer is awaited.
OneView ==
  \A c \in calls : c.kind = "view" =>
    /\ c.heard
    /\ \A d \in calls : (d.kind = "view" /\ d.by = c.by) => d = c

\* A title on its way carries the panel of the page that waits for it.
BlurCarries ==
  \A c \in calls : (c.kind = "blur" /\ c.heard) => c.body.panel = page[c.by].panel

WroteOwn(b) == Busy(b, {"view"}) \/ page[b].wrote \subseteq {page[b].panel}

PanelInv == OneView /\ BlurCarries /\ \A b \in Browsers : WroteOwn(b)

\* Handlers change neither what a request is nor whether it is heard.
LEMMA HandlerCalls ==
  ASSUME SettingsTypeOK, NEW c \in calls, Handler(c)
  PROVE  /\ \E d : /\ Becomes(c, d) /\ d.by = c.by /\ d.kind = c.kind
                   /\ d.body = c.body /\ d.heard = c.heard
         /\ UNCHANGED page
<1>a. c \in Request
  BY DEF SettingsTypeOK
<1> DEFINE Alike(d) == d.by = c.by /\ d.kind = c.kind /\ d.body = c.body /\ d.heard = c.heard
<1>b. ASSUME NEW step
      PROVE  /\ Alike([c EXCEPT !.step = step])
             /\ \A seen : Alike([c EXCEPT !.step = step, !.seen = seen])
             /\ \A token, seen : Alike([c EXCEPT !.step = step, !.token = token, !.seen = seen])
  BY <1>a DEF Request
<1>1. UNCHANGED page
  BY DEF Handler, GetDocument, CheckAccess, NoLogin, CreateSession, UpdateDocumentSettings,
         DeleteSessionsExcept, DeleteFails, Breaks, browserVars
<1>2. \E step :
        \/ Becomes(c, [c EXCEPT !.step = step])
        \/ \E seen : Becomes(c, [c EXCEPT !.step = step, !.seen = seen])
        \/ \E token, seen : Becomes(c, [c EXCEPT !.step = step, !.token = token, !.seen = seen])
  <2>1. CASE GetDocument(c) \/ CheckAccess(c)
    BY <2>1 DEF GetDocument, CheckAccess
  <2>2. CASE NoLogin(c)
    BY <2>2 DEF NoLogin
  <2>3. CASE CreateSession(c)
    BY <2>3 DEF CreateSession
  <2>4. CASE UpdateDocumentSettings(c) \/ DeleteSessionsExcept(c) \/ DeleteFails(c) \/ Breaks(c)
    BY <2>4 DEF UpdateDocumentSettings, DeleteSessionsExcept, DeleteFails, Breaks
  <2> QED
    BY <2>1, <2>2, <2>3, <2>4 DEF Handler
<1>3. \E d : Becomes(c, d) /\ Alike(d)
  <2>1. PICK step :
          \/ Becomes(c, [c EXCEPT !.step = step])
          \/ \E seen : Becomes(c, [c EXCEPT !.step = step, !.seen = seen])
          \/ \E token, seen : Becomes(c, [c EXCEPT !.step = step, !.token = token, !.seen = seen])
    BY <1>2
  <2>2. CASE Becomes(c, [c EXCEPT !.step = step])
    BY <1>b, <2>2
  <2>3. ASSUME NEW seen, Becomes(c, [c EXCEPT !.step = step, !.seen = seen])
        PROVE  \E d : Becomes(c, d) /\ Alike(d)
    <3>1. Alike([c EXCEPT !.step = step, !.seen = seen])
      BY <1>b
    <3> QED
      BY <2>3, <3>1
  <2>4. ASSUME NEW token, NEW seen,
               Becomes(c, [c EXCEPT !.step = step, !.token = token, !.seen = seen])
        PROVE  \E d : Becomes(c, d) /\ Alike(d)
    <3>1. Alike([c EXCEPT !.step = step, !.token = token, !.seen = seen])
      BY <1>b
    <3> QED
      BY <2>4, <3>1
  <2> QED
    BY <2>1, <2>2, <2>3, <2>4
<1> QED
  BY <1>1, <1>3

LEMMA HandlerPanel ==
  ASSUME SettingsTypeOK, PanelInv, NEW c \in calls, Handler(c)
  PROVE  PanelInv'
<1>1. PICK d : /\ Becomes(c, d) /\ d.by = c.by /\ d.kind = c.kind
               /\ d.body = c.body /\ d.heard = c.heard
  BY HandlerCalls
<1>2. page' = page
  BY HandlerCalls
<1>3. OneView' /\ BlurCarries'
  BY <1>1, <1>2 DEF PanelInv, OneView, BlurCarries, Becomes
<1>4. \A b \in Browsers : Busy(b, {"view"}) => Busy(b, {"view"})'
  BY <1>1 DEF Busy, Becomes
<1> QED
  BY <1>2, <1>3, <1>4 DEF PanelInv, WroteOwn

LEMMA UserPanel ==
  ASSUME SettingsTypeOK, PanelInv, NEW b \in Browsers, User(b)
  PROVE  PanelInv'
<1>1. \A a \in Browsers : page'[a].panel = page[a].panel /\ page'[a].wrote = page[a].wrote
  <2>1. \/ page' = page
        \/ \E t \in Titles : page' = [page EXCEPT ![b].title = t]
    BY DEF User, Open, Login, ShowForm, HideForm, EditForm, Save, Blur, browserVars
  <2> QED
    BY <2>1 DEF SettingsTypeOK, Page
<1>2. \/ calls' = calls
      \/ \E kind, body : /\ ~Busy(b, {kind})
                         /\ calls' = calls \cup {Call(b, kind, cookie[b], body)}
                         /\ kind = "blur" => body.panel = page[b].panel
  <2>1. CASE \E t \in Titles : Blur(b, t)
    <3>1. PICK t \in Titles : Blur(b, t)
      BY <2>1
    <3>2. [BlankForm EXCEPT !.title = t, !.panel = page[b].panel].panel = page[b].panel
      BY DEF BlankForm
    <3> QED
      BY <3>1, <3>2 DEF Blur, Asks
  <2>2. CASE ~\E t \in Titles : Blur(b, t)
    <3>1. \/ calls' = calls
          \/ \E kind \in {"view", "auth", "load", "save"} : \E body : Asks(b, kind, body)
      BY <2>2 DEF User, Open, Login, ShowForm, HideForm, EditForm, Save
    <3> QED
      BY <3>1 DEF Asks
  <2> QED
    BY <2>1, <2>2
<1>3. \A c \in calls : c.by \in Browsers
  BY DEF SettingsTypeOK, Request
<1>4. CASE calls' = calls
  BY <1>1, <1>3, <1>4 DEF PanelInv, OneView, BlurCarries, WroteOwn, Busy
<1>5. ASSUME NEW kind, NEW body, ~Busy(b, {kind}),
             calls' = calls \cup {Call(b, kind, cookie[b], body)},
             kind = "blur" => body.panel = page[b].panel
      PROVE  PanelInv'
  <2> DEFINE d == Call(b, kind, cookie[b], body)
  <2>1. d.by = b /\ d.kind = kind /\ d.body = body /\ d.heard = TRUE
    BY DEF Call
  <2>2. OneView'
    BY <1>5, <2>1 DEF PanelInv, OneView, Busy
  <2>3. BlurCarries'
    BY <1>1, <1>3, <1>5, <2>1 DEF PanelInv, BlurCarries
  <2>4. \A a \in Browsers : WroteOwn(a)'
    BY <1>1, <1>5 DEF PanelInv, WroteOwn, Busy
  <2> QED
    BY <2>2, <2>3, <2>4 DEF PanelInv
<1> QED
  BY <1>2, <1>4, <1>5

\* A reload leaves one request for the page of its browser.
LEMMA ReloadPanel ==
  ASSUME SettingsTypeOK, PanelInv, NEW c \in calls, NEW token, Reload(c, token),
         \A a \in Browsers : page'[a].panel = page[a].panel,
         \A a \in Browsers : a # c.by => page'[a].wrote = page[a].wrote
  PROVE  PanelInv'
<1> DEFINE d == Call(c.by, "view", token, BlankForm)
<1>1. d.by = c.by /\ d.kind = "view" /\ d.heard = TRUE
  BY DEF Call
<1>2. \A e \in calls' : e = d \/ (e \in calls /\ ~(e.by = c.by /\ e.kind = "view"))
  BY DEF Reload
<1>3. OneView'
  BY <1>1, <1>2 DEF PanelInv, OneView
<1>4. BlurCarries'
  <2>1. \A e \in calls : e.by \in Browsers
    BY DEF SettingsTypeOK, Request
  <2> QED
    BY <1>1, <1>2, <2>1 DEF PanelInv, BlurCarries
<1>5. ASSUME NEW a \in Browsers
      PROVE  WroteOwn(a)'
  <2>1. CASE a = c.by
    BY <1>1, <2>1 DEF Reload, WroteOwn, Busy
  <2>2. CASE a # c.by
    <3>1. CASE \E e \in calls : e.by = a /\ e.kind = "view" /\ e # c
      BY <2>2, <3>1 DEF Reload, WroteOwn, Busy
    <3>2. CASE ~\E e \in calls : e.by = a /\ e.kind = "view" /\ e # c
      BY <2>2, <3>2 DEF PanelInv, WroteOwn, Busy
    <3> QED
      BY <3>1, <3>2
  <2> QED
    BY <2>1, <2>2
<1> QED
  BY <1>3, <1>4, <1>5 DEF PanelInv

\* An answer that is not a page leaves the requests for pages as they are.
LEMMA AnswerPanel ==
  ASSUME SettingsTypeOK, PanelInv, NEW c \in calls, c.kind # "view", calls' = calls \ {c},
         \A a \in Browsers : page'[a].panel = page[a].panel,
         \A a \in Browsers : page'[a].wrote \in {page[a].wrote, {page[a].panel}}
  PROVE  PanelInv'
<1>1. \A e \in calls : e.by \in Browsers
  BY DEF SettingsTypeOK, Request
<1>2. OneView' /\ BlurCarries'
  BY <1>1 DEF PanelInv, OneView, BlurCarries
<1>3. \A a \in Browsers : Busy(a, {"view"}) => Busy(a, {"view"})'
  BY DEF Busy
<1> QED
  BY <1>2, <1>3 DEF PanelInv, WroteOwn

LEMMA ArrivalPanel ==
  ASSUME SettingsTypeOK, PanelInv, NEW c \in calls, Arrival(c)
  PROVE  PanelInv'
<1>a. c.by \in Browsers /\ page[c.by] \in Page /\ page \in [Browsers -> Page]
  BY DEF SettingsTypeOK, Request
<1>1. CASE ViewArrives(c)
  <2>1. c.kind = "view" /\ \A d \in calls : (d.kind = "view" /\ d.by = c.by) => d = c
    BY <1>1 DEF ViewArrives, Arrives, PanelInv, OneView
  <2>2. ASSUME NEW e \in calls'
        PROVE  \E d \in calls \ {c} :
                 /\ e.by = d.by /\ e.kind = d.kind /\ e.body = d.body
                 /\ e.heard = (d.heard /\ d.by # c.by)
                 /\ e = [d EXCEPT !.heard = @ /\ d.by # c.by]
    <3>1. PICK d \in calls \ {c} : e = [d EXCEPT !.heard = @ /\ d.by # c.by]
      BY <1>1 DEF ViewArrives
    <3>2. d \in Request
      BY DEF SettingsTypeOK
    <3> QED
      BY <3>1, <3>2 DEF Request
  <2>3. \A a \in Browsers : a # c.by => page'[a] = page[a]
    BY <1>1, <1>a DEF ViewArrives
  <2>4. page'[c.by].wrote = {}
    <3>1. \E what, r : page' = [page EXCEPT ![c.by] = Shows(what, r)]
      BY <1>1 DEF ViewArrives
    <3>2. \A what, r : Shows(what, r).wrote = {}
      BY DEF Shows
    <3> QED
      BY <1>a, <3>1, <3>2
  <2>5. OneView'
    <3> SUFFICES ASSUME NEW e \in calls', e.kind = "view"
                 PROVE  /\ e.heard
                        /\ \A f \in calls' : (f.kind = "view" /\ f.by = e.by) => f = e
      BY DEF OneView
    <3>1. PICK d \in calls \ {c} :
            /\ e.by = d.by /\ e.kind = d.kind /\ e.heard = (d.heard /\ d.by # c.by)
            /\ e = [d EXCEPT !.heard = @ /\ d.by # c.by]
      BY <2>2
    <3>2. d.heard /\ d.by # c.by
      BY <2>1, <3>1 DEF PanelInv, OneView
    <3>3. ASSUME NEW f \in calls', f.kind = "view", f.by = e.by
          PROVE  f = e
      <4>1. PICK g \in calls \ {c} :
              /\ f.by = g.by /\ f.kind = g.kind
              /\ f = [g EXCEPT !.heard = @ /\ g.by # c.by]
        BY <2>2
      <4>2. g = d
        BY <3>1, <3>3, <4>1 DEF PanelInv, OneView
      <4> QED
        BY <3>1, <4>1, <4>2
    <3> QED
      BY <3>1, <3>2, <3>3
  <2>6. BlurCarries'
    <3>1. \A d \in calls : d.by \in Browsers
      BY DEF SettingsTypeOK, Request
    <3> SUFFICES ASSUME NEW e \in calls', e.kind = "blur", e.heard
                 PROVE  e.body.panel = page'[e.by].panel
      BY DEF BlurCarries
    <3>2. PICK d \in calls \ {c} :
            /\ e.by = d.by /\ e.kind = d.kind /\ e.body = d.body
            /\ e.heard = (d.heard /\ d.by # c.by)
      BY <2>2
    <3>3. d.kind = "blur" /\ d.heard /\ d.by # c.by
      BY <3>2
    <3>4. d.body.panel = page[d.by].panel
      BY <3>3 DEF PanelInv, BlurCarries
    <3> QED
      BY <2>3, <3>1, <3>2, <3>3, <3>4
  <2>7. ASSUME NEW a \in Browsers
        PROVE  WroteOwn(a)'
    <3>1. CASE a = c.by
      BY <2>4, <3>1 DEF WroteOwn
    <3>2. CASE a # c.by /\ ~Busy(a, {"view"})
      BY <2>3, <3>2 DEF PanelInv, WroteOwn
    <3>3. CASE a # c.by /\ Busy(a, {"view"})
      <4>1. PICK d \in calls : d.by = a /\ d.kind = "view"
        BY <3>3 DEF Busy
      <4>2. d \in Request /\ d # c
        BY <3>3, <4>1 DEF SettingsTypeOK
      <4>3. LET e == [d EXCEPT !.heard = @ /\ d.by # c.by]
            IN  e.by = a /\ e.kind = "view" /\ e \in calls'
        BY <1>1, <4>1, <4>2 DEF ViewArrives, Request
      <4> QED
        BY <4>3 DEF WroteOwn, Busy
    <3> QED
      BY <3>1, <3>2, <3>3
  <2> QED
    BY <2>5, <2>6, <2>7 DEF PanelInv
<1>2. CASE AuthArrives(c)
  <2>1. page' = page /\ c.kind = "auth"
    BY <1>2 DEF AuthArrives, Arrives
  <2>2. Reload(c, c.token) \/ calls' = calls \ {c}
    BY <1>2 DEF AuthArrives
  <2> QED
    BY <2>1, <2>2, ReloadPanel, AnswerPanel
<1>3. CASE LoadArrives(c)
  <2>1. page' = page /\ c.kind = "load" /\ calls' = calls \ {c}
    BY <1>3 DEF LoadArrives, Arrives
  <2> QED
    BY <2>1, AnswerPanel
<1>4. CASE BlurArrives(c)
  <2>1. c.kind = "blur" /\ calls' = calls \ {c} /\ c.body.panel = page[c.by].panel
    BY <1>4 DEF BlurArrives, Arrives, PanelInv, BlurCarries
  <2>2. \A a \in Browsers : /\ page'[a].panel = page[a].panel
                            /\ page'[a].wrote \in {page[a].wrote, {page[a].panel}}
    BY <1>4, <1>a, <2>1 DEF BlurArrives, Page
  <2> QED
    BY <2>1, <2>2, AnswerPanel
<1>5. CASE SaveArrives(c)
  <2>1. c.kind = "save"
    BY <1>5 DEF SaveArrives, Arrives
  <2>2. /\ \A a \in Browsers : page'[a].panel = page[a].panel
        /\ \A a \in Browsers : a # c.by => page'[a].wrote = page[a].wrote
    BY <1>5, <1>a DEF SaveArrives, Page
  <2>3. CASE c.step = "ok" /\ Reloads(c)
    <3>1. Reload(c, cookie[c.by])
      BY <1>5, <2>3 DEF SaveArrives
    <3> QED
      BY <2>2, <3>1, ReloadPanel
  <2>4. CASE ~(c.step = "ok" /\ Reloads(c))
    <3>1. calls' = calls \ {c}
      BY <1>5, <2>4 DEF SaveArrives
    <3>2. page'[c.by].wrote \in {page[c.by].wrote, {page[c.by].panel}}
      BY <1>5, <1>a, <2>4 DEF SaveArrives, Reloads, Page
    <3> QED
      BY <2>1, <2>2, <3>1, <3>2, AnswerPanel
  <2> QED
    BY <2>3, <2>4
<1>6. CASE Unheard(c)
  <2>1. page' = page /\ c.kind # "view" /\ calls' = calls \ {c}
    BY <1>6 DEF Unheard, PanelInv, OneView, browserVars
  <2> QED
    BY <2>1, AnswerPanel
<1> QED
  BY <1>1, <1>2, <1>3, <1>4, <1>5, <1>6 DEF Arrival

\* A page that was told that it changed the panel has it so, or is being replaced: titles
\* it sends from then on do not undo its own choice (editor.mjs:217, 390-397).
THEOREM PanelsAreOwn == Spec => []PanelIsOwn
<1>1. Init => PanelInv
  <2> SUFFICES ASSUME Init
               PROVE  PanelInv
    OBVIOUS
  <2>1. calls = {} /\ \A b \in Browsers : page[b].wrote = {}
    BY DEF Init, Shows
  <2> QED
    BY <2>1 DEF PanelInv, OneView, BlurCarries, WroteOwn
<1>2. ASSUME SettingsTypeOK, PanelInv, [Next]_vars
      PROVE  PanelInv'
  <2>1. CASE UNCHANGED <<page, calls>>
    BY <1>2, <2>1 DEF PanelInv, OneView, BlurCarries, WroteOwn, Busy
  <2> QED
    BY <1>2, <2>1, UserPanel, HandlerPanel, ArrivalPanel DEF Next, Expire, vars, browserVars
<1>3. PanelInv => PanelIsOwn
  BY DEF PanelInv, WroteOwn, PanelIsOwn
<1> QED
  BY <1>1, <1>2, <1>3, SettingsTypes, PTL DEF Spec
=============================================================================
