------------------------------ MODULE Settings ------------------------------
(***************************************************************************)
(* The settings and the password of one document: its row of documents and *)
(* its rows of document_sessions, the handlers that read and write them    *)
(* (internal/server/handlers.go, session.go), and the pages of the         *)
(* browsers (web/js-src/editor.mjs 205-241 and 372-402).                   *)
(*                                                                         *)
(* A handler is a sequence of statements on the database, and between two  *)
(* of them others run.  A browser has a cookie and one page.  A password   *)
(* and its hash are one value.                                             *)
(***************************************************************************)
EXTENDS Naturals

CONSTANTS
  Browsers,
  Titles, NoTitle,        \* the titles; NoTitle is the empty one
  Passwords, NoPassword,  \* NoPassword is the NULL of the column
  MaxEvents               \* bound on what users do and on what goes wrong, in Event

ASSUME SettingsAssumption ==
  /\ NoTitle \in Titles /\ NoPassword \notin Passwords
  /\ {"keep", "clear"} \cap (Passwords \cup {NoPassword}) = {}
  /\ MaxEvents \in Nat

VARIABLES
  row,       \* the row of documents: title, panel, password
  sessions,  \* the tokens of the rows of document_sessions that did not expire
  made,      \* the number of tokens made so far; a token is a number
  cookie,    \* the token in a browser's cookie, or NoToken
  page,      \* what a browser shows, and what its page captured
  form,      \* the settings form of the page
  calls,     \* the requests under way
  events,    \* the number of things users did and that went wrong so far
  checked,   \* history: the password that a session was made for
  spared     \* history: the sessions the last change of the password may leave

storeVars == <<row, sessions, made>>
browserVars == <<cookie, page, form>>
historyVars == <<checked, spared>>
vars == <<storeVars, browserVars, calls, events, historyVars>>

NoToken == 0   \* no cookie

Row == [title : Titles, panel : BOOLEAN, password : Passwords \cup {NoPassword}]
Secrets == Passwords \cup {"keep", "clear"}
Fields == {"title", "panel", "secret"}

\* A form as it is shown, the fields that were touched since it was filled in,
\* and what it was filled in from (both history), if it was.
Form == [shown : BOOLEAN, title : Titles, panel : BOOLEAN, secret : Secrets,
         touched : SUBSET Fields, basis : SUBSET Row]

BlankForm == [shown |-> FALSE, title |-> NoTitle, panel |-> FALSE, secret |-> "keep",
              touched |-> {}, basis |-> {}]

\* A request: who made it with which token and what body, the row its handler
\* read, how far it is, and whether the page that made it is still there.
Call(b, kind, token, body) ==
  [by |-> b, kind |-> kind, token |-> token, body |-> body, seen |-> {},
   step |-> "sent", heard |-> TRUE]

\* Steps of a handler, and its three kinds of answers.
Running == {"sent", "read", "granted", "updated"}
Answers == {"ok", "denied", "failed"}

Request ==
  [by : Browsers, kind : {"view", "auth", "load", "blur", "save"}, token : 0 .. made,
   body : Form, seen : SUBSET Row, step : Running \cup Answers, heard : BOOLEAN]

\* A page: what it captured, and the panel it wrote last (history), if it did.
Page == [shows : {"blank", "password", "document"}, title : Titles, panel : BOOLEAN,
         wrote : SUBSET BOOLEAN]

SettingsTypeOK ==
  /\ row \in Row
  /\ made \in Nat /\ sessions \subseteq 1 .. made
  /\ cookie \in [Browsers -> 0 .. made]
  /\ page \in [Browsers -> Page]
  /\ form \in [Browsers -> Form]
  /\ calls \subseteq Request
  /\ events \in 0 .. MaxEvents
  /\ checked \in [1 .. made -> Passwords \cup {NoPassword}]
  /\ spared \subseteq 1 .. made

Shows(what, r) ==
  [shows |-> what, title |-> r.title, panel |-> r.panel, wrote |-> {}]

NewRow == [title |-> NoTitle, panel |-> TRUE, password |-> NoPassword]

\* handleNewDoc has made the document and a session for its maker, and every browser
\* has opened it; or a password was set, and who set it is in.  The forms of the pages
\* may have been opened and filled in.
Init ==
  /\ \E pw \in Passwords \cup {NoPassword}, maker \in Browsers, filled \in BOOLEAN :
       LET in == {b \in Browsers : b = maker \/ pw = NoPassword}
       IN  /\ row = [NewRow EXCEPT !.password = pw]
           /\ checked = [t \in {1} |-> pw]
           /\ cookie = [b \in Browsers |-> IF b = maker THEN 1 ELSE NoToken]
           /\ page = [b \in Browsers |->
                        Shows(IF b \in in THEN "document" ELSE "password", NewRow)]
           /\ form = [b \in Browsers |->
                        IF b \in in /\ filled
                        THEN [BlankForm EXCEPT !.shown = TRUE, !.panel = TRUE, !.basis = {row}]
                        ELSE BlankForm]
  /\ made = 1 /\ sessions = {1}
  /\ calls = {} /\ events = 0 /\ spared = {}

-----------------------------------------------------------------------------
(***************************************************************************)
(* What users do.                                                          *)
(***************************************************************************)
Event == events < MaxEvents /\ events' = events + 1

Busy(b, kinds) == \E c \in calls : c.by = b /\ c.kind \in kinds

\* A browser has one request of a kind at a time.
Asks(b, kind, body) ==
  /\ ~Busy(b, {kind})
  /\ Event
  /\ calls' = calls \cup {Call(b, kind, cookie[b], body)}

\* The address is opened, or the page reloaded.
Open(b) ==
  /\ ~Busy(b, {"auth"}) /\ Asks(b, "view", BlankForm)
  /\ UNCHANGED <<storeVars, browserVars, historyVars>>

\* The form of password.html is sent.
Login(b, p) ==
  /\ page[b].shows = "password"
  /\ ~Busy(b, {"view"}) /\ Asks(b, "auth", [BlankForm EXCEPT !.secret = p])
  /\ UNCHANGED <<storeVars, browserVars, historyVars>>

\* show.bs.modal: the form is shown as it was, and the settings are asked for.
ShowForm(b) ==
  /\ page[b].shows = "document" /\ ~form[b].shown
  /\ Asks(b, "load", BlankForm)
  /\ form' = [form EXCEPT ![b].shown = TRUE]
  /\ UNCHANGED <<storeVars, cookie, page, historyVars>>

\* The form is closed; what is in it stays there.
HideForm(b) ==
  /\ form[b].shown /\ form' = [form EXCEPT ![b].shown = FALSE]
  /\ Event /\ UNCHANGED <<storeVars, cookie, page, calls, historyVars>>

\* A field of the form is changed.
EditForm(b, field, value) ==
  /\ form[b].shown /\ form[b][field] # value
  /\ form' = [form EXCEPT ![b][field] = value,
                          ![b].touched = @ \cup {field}]
  /\ Event /\ UNCHANGED <<storeVars, cookie, page, calls, historyVars>>

\* The button of the form is clicked.
Save(b) ==
  /\ form[b].shown /\ Asks(b, "save", form[b])
  /\ UNCHANGED <<storeVars, browserVars, historyVars>>

\* The title field is left, with another title or not; the setting of the panel is
\* that of the page.
Blur(b, t) ==
  /\ page[b].shows = "document"
  /\ Asks(b, "blur", [BlankForm EXCEPT !.title = t, !.panel = page[b].panel])
  /\ page' = [page EXCEPT ![b].title = t]
  /\ UNCHANGED <<storeVars, cookie, form, historyVars>>

\* The session of a token expires, in the table and in the browser.
Expire(t) ==
  /\ t \in sessions /\ sessions' = sessions \ {t}
  /\ cookie' = [b \in Browsers |-> IF cookie[b] = t THEN NoToken ELSE cookie[b]]
  /\ Event /\ UNCHANGED <<row, made, page, form, calls, historyVars>>

-----------------------------------------------------------------------------
(***************************************************************************)
(* The handlers.                                                           *)
(***************************************************************************)
Becomes(c, d) == calls' = (calls \ {c}) \cup {d}

\* GetDocument
GetDocument(c) ==
  /\ c.step = "sent" /\ Becomes(c, [c EXCEPT !.step = "read", !.seen = {row}])
  /\ UNCHANGED <<storeVars, browserVars, events, historyVars>>

\* HasAccess with the row that was read; the session is looked up now.
HasAccess(c) ==
  \/ \E r \in c.seen : r.password = NoPassword
  \/ c.token \in sessions

\* handleDocView and handleSettingsGet answer, the other two go on.
CheckAccess(c) ==
  /\ c.step = "read" /\ c.kind # "auth"
  /\ Becomes(c, IF ~HasAccess(c) THEN [c EXCEPT !.step = "denied", !.seen = {}]
                ELSE IF c.kind \in {"view", "load"} THEN [c EXCEPT !.step = "ok"]
                ELSE [c EXCEPT !.step = "granted", !.seen = {}])
  /\ UNCHANGED <<storeVars, browserVars, events, historyVars>>

\* handleDocAuth: the document has no password, or it is another one.
NoLogin(c) ==
  /\ c.step = "read" /\ c.kind = "auth"
  /\ \E r \in c.seen :
       /\ r.password # c.body.secret
       /\ Becomes(c, [c EXCEPT !.step = IF r.password = NoPassword THEN "ok" ELSE "denied",
                               !.seen = {}])
  /\ UNCHANGED <<storeVars, browserVars, events, historyVars>>

\* handleDocAuth, CreateSession.  The session comes late if the password changed
\* since the row was read.
CreateSession(c) ==
  /\ c.step = "read" /\ c.kind = "auth"
  /\ \E r \in c.seen : r.password = c.body.secret
  /\ made' = made + 1 /\ sessions' = sessions \cup {made'}
  /\ Becomes(c, [c EXCEPT !.step = "ok", !.token = made', !.seen = {}])
  /\ checked' = [t \in 1 .. made' |-> IF t = made' THEN c.body.secret ELSE checked[t]]
  /\ spared' = IF c.body.secret = row.password THEN spared ELSE spared \cup {made'}
  /\ UNCHANGED <<row, browserVars, events>>

\* Mutant of NewPassword: a password is set also when it is to be cleared.
SecretAsSent(secret) == IF secret = "keep" THEN row.password ELSE secret

\* What UpdateDocumentSettings makes of the password.
NewPassword(secret) ==
  IF secret = "keep" THEN row.password
  ELSE IF secret = "clear" THEN NoPassword ELSE secret

\* The first statement of handleSettingsPost; the second one if there is a secret.
UpdateDocumentSettings(c) ==
  /\ c.step = "granted"
  /\ row' = [title |-> c.body.title, panel |-> c.body.panel,
             password |-> NewPassword(c.body.secret)]
  /\ IF c.body.secret = "keep"
     THEN Becomes(c, [c EXCEPT !.step = "ok"]) /\ UNCHANGED spared
     ELSE Becomes(c, [c EXCEPT !.step = "updated"]) /\ spared' = {c.token} \cap sessions
  /\ UNCHANGED <<sessions, made, browserVars, events, checked>>

\* Mutant of DeleteSessionsExcept: who has no session deletes none.
DeleteUnlessNoToken(c) ==
  /\ c.step = "updated" /\ Becomes(c, [c EXCEPT !.step = "ok"])
  /\ sessions' = IF c.token = NoToken THEN sessions ELSE sessions \cap {c.token}
  /\ UNCHANGED <<row, made, browserVars, events, historyVars>>

\* DeleteSessionsExcept, after a change of the password
DeleteSessionsExcept(c) ==
  /\ c.step = "updated" /\ Becomes(c, [c EXCEPT !.step = "ok"])
  /\ sessions' = sessions \cap {c.token}
  /\ UNCHANGED <<row, made, browserVars, events, historyVars>>

\* The deletion fails, which is only logged.
DeleteFails(c) ==
  /\ c.step = "updated" /\ Becomes(c, [c EXCEPT !.step = "ok"])
  /\ spared' = spared \cup sessions
  /\ Event /\ UNCHANGED <<storeVars, browserVars, checked>>

\* A statement fails, or the connection: the context of the request is cancelled
\* and what is left of the handler does nothing.
Breaks(c) ==
  /\ c.step # "failed" /\ Becomes(c, [c EXCEPT !.step = "failed", !.seen = {}])
  /\ spared' = IF c.step = "updated" THEN spared \cup sessions ELSE spared
  /\ Event /\ UNCHANGED <<storeVars, browserVars, checked>>

-----------------------------------------------------------------------------
(***************************************************************************)
(* The answers.                                                            *)
(***************************************************************************)
Arrives(c, kind) == c.kind = kind /\ c.step \in Answers /\ c.heard

\* window.location.reload, or a redirect: the page is asked for with the token.
Reload(c, token) ==
  calls' = {d \in calls \ {c} : ~(d.by = c.by /\ d.kind = "view")}
             \cup {Call(c.by, "view", token, BlankForm)}

\* A page takes the place of another, whose requests nobody waits for any more.
ViewArrives(c) ==
  /\ Arrives(c, "view")
  /\ calls' = {[d EXCEPT !.heard = @ /\ d.by # c.by] : d \in calls \ {c}}
  /\ \/ /\ c.step = "ok"
        /\ \E r \in c.seen : page' = [page EXCEPT ![c.by] = Shows("document", r)]
     \/ c.step = "denied" /\ page' = [page EXCEPT ![c.by] = Shows("password", NewRow)]
     \/ c.step = "failed" /\ page' = [page EXCEPT ![c.by] = Shows("blank", NewRow)]
  /\ form' = [form EXCEPT ![c.by] = BlankForm]
  /\ UNCHANGED <<storeVars, cookie, events, historyVars>>

\* The answer to the form of password.html; the redirect brings a cookie.
AuthArrives(c) ==
  /\ Arrives(c, "auth")
  /\ \/ /\ c.step = "ok"
        /\ Reload(c, c.token) /\ cookie' = [cookie EXCEPT ![c.by] = c.token]
     \/ c.step # "ok" /\ calls' = calls \ {c} /\ UNCHANGED cookie
  /\ UNCHANGED <<storeVars, page, form, events, historyVars>>

\* Mutant of FillIn: a password typed before stays in the form.
FillInVisible(f, r) ==
  [f EXCEPT !.title = r.title, !.panel = r.panel, !.touched = {}, !.basis = {r}]

\* Mutant of FillIn: the title is taken from the page, the panel from nowhere.
FillInSecret(f, r) == [f EXCEPT !.secret = "keep", !.touched = {}, !.basis = {r}]

\* What show.bs.modal does with the settings it gets.
FillIn(f, r) ==
  [f EXCEPT !.title = r.title, !.panel = r.panel, !.secret = "keep",
            !.touched = {}, !.basis = {r}]

\* The answer to show.bs.modal.
LoadArrives(c) ==
  /\ Arrives(c, "load") /\ calls' = calls \ {c}
  /\ IF c.step = "ok"
     THEN \E r \in c.seen : form' = [form EXCEPT ![c.by] = FillIn(@, r)]
     ELSE UNCHANGED form
  /\ UNCHANGED <<storeVars, cookie, page, events, historyVars>>

\* The answer to a title is not looked at.
BlurArrives(c) ==
  /\ Arrives(c, "blur") /\ calls' = calls \ {c}
  /\ page' = [page EXCEPT ![c.by].wrote = IF c.step = "ok" THEN {c.body.panel} ELSE @]
  /\ UNCHANGED <<storeVars, cookie, form, events, historyVars>>

\* Mutant of Reloads: only a password needs another page.
ReloadsForPassword(c) == c.body.secret # "keep"

\* Whether the page is reloaded after a save.
Reloads(c) == c.body.secret # "keep" \/ c.body.panel # page[c.by].panel

\* The answer to the button: an error is shown, or the page reloaded, or the form hidden.
SaveArrives(c) ==
  /\ Arrives(c, "save")
  /\ \/ /\ c.step # "ok" /\ calls' = calls \ {c} /\ UNCHANGED <<page, form>>
     \/ /\ c.step = "ok" /\ Reloads(c) /\ Reload(c, cookie[c.by])
        /\ page' = [page EXCEPT ![c.by].wrote = {c.body.panel},
                      ![c.by].title = IF c.body.secret = "keep" THEN c.body.title ELSE @]
        /\ UNCHANGED form
     \/ /\ c.step = "ok" /\ ~Reloads(c) /\ calls' = calls \ {c}
        /\ page' = [page EXCEPT ![c.by].wrote = {c.body.panel}, ![c.by].title = c.body.title]
        /\ form' = [form EXCEPT ![c.by].shown = FALSE]
  /\ UNCHANGED <<storeVars, cookie, events, historyVars>>

\* The answer to a page that is gone.
Unheard(c) ==
  /\ c.step \in Answers /\ ~c.heard /\ calls' = calls \ {c}
  /\ UNCHANGED <<storeVars, browserVars, events, historyVars>>

-----------------------------------------------------------------------------
User(b) ==
  \/ Open(b) \/ (\E p \in Passwords : Login(b, p))
  \/ ShowForm(b) \/ HideForm(b) \/ Save(b) \/ (\E t \in Titles : Blur(b, t))
  \/ \E t \in Titles : EditForm(b, "title", t)
  \/ \E p \in BOOLEAN : EditForm(b, "panel", p)
  \/ \E s \in Secrets : EditForm(b, "secret", s)

Handler(c) ==
  \/ GetDocument(c) \/ CheckAccess(c) \/ NoLogin(c) \/ CreateSession(c)
  \/ UpdateDocumentSettings(c) \/ DeleteSessionsExcept(c) \/ DeleteFails(c) \/ Breaks(c)

Arrival(c) ==
  \/ ViewArrives(c) \/ AuthArrives(c) \/ LoadArrives(c) \/ BlurArrives(c)
  \/ SaveArrives(c) \/ Unheard(c)

Next ==
  \/ \E b \in Browsers : User(b)
  \/ \E t \in sessions : Expire(t)
  \/ \E c \in calls : Handler(c) \/ Arrival(c)

Spec == Init /\ [][Next]_vars

-----------------------------------------------------------------------------
\* With no save between its two statements, a protected document has sessions of its
\* present password only, and those that the last change may leave: the one of who
\* changed it, of logins that had read the row before, and those whose deletion
\* failed (handlers.go:239-250).
OldSessionsEnd ==
  (row.password # NoPassword /\ \A c \in calls : c.step # "updated")
     => \A t \in sessions : checked[t] = row.password \/ t \in spared

\* The password is what the last save that chose one says, whatever other saves and
\* titles, whose handlers had read the row before, are written after it
\* (handlers.go:222-243, documents.go:71-88).
PasswordIsChosen ==
  [][row'.password # row.password
       => \E c \in calls : /\ c.step = "granted"
                           /\ c.kind = "save"
                           /\ row'.password = NewPassword(c.body.secret)
                           /\ "secret" \in c.body.touched]_vars

\* If nobody wrote since the form was filled in, a save changes what its user touched
\* and nothing else (editor.mjs:227-236, 374-379).
SaveChangesTouched ==
  [][\A c \in calls :
       (c.kind = "save" /\ c.step = "granted" /\ row \in c.body.basis /\ row' # row
          /\ c \notin calls')
         => /\ row'.title # row.title => "title" \in c.body.touched
            /\ row'.panel # row.panel => "panel" \in c.body.touched
            /\ row'.password # row.password => "secret" \in c.body.touched]_vars

\* A page that has been told that it changed the panel has it so, or is reloading: what
\* it sends with a title from then on is its own choice (editor.mjs:217, 390-397).  A
\* title sent before, while the answer was on its way, still has the old panel.
PanelIsOwn ==
  \A b \in Browsers :
    (page[b].shows = "document" /\ ~Busy(b, {"view"})) => page[b].wrote \subseteq {page[b].panel}
=============================================================================
