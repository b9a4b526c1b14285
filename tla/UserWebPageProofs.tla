------------------------- MODULE UserWebPageProofs -------------------------
(***************************************************************************)
(* What the page of UserWeb shows: whose account, rows, profile and images *)
(* they are, for any accounts, images, owners and bounds.                  *)
(***************************************************************************)
EXTENDS UserWebProofs, FiniteSetTheorems

-----------------------------------------------------------------------------
(* Who owns what: the page, the form that verifies and the calls in flight. *)

AcctOf(ss, t) == IF t = 0 THEN Nobody ELSE ss[t]
Answered0(c, ss) == AcctOf(ss, IF c.got.tok # 0 THEN c.got.tok ELSE c.tok)

\* Call c, among sessions ss and on a page with token t
CallOwns(c, ss, t) ==
  /\ c.kind = "load" /\ c.live => c.tok = t
  /\ c.kind = "verify" => c.tok # 0 /\ AcctOf(ss, c.tok) = c.arg
  /\ c.at = "ok" /\ c.kind \in Bringing =>
       c.got.user.of = Answered0(c, ss) /\ Answered0(c, ss) \in Accounts
  /\ c.at = "ok" /\ c.kind \in {"login", "register", "callback", "verify"} => c.got.tok # 0
  /\ c.got.tok # 0 => c.kind \in {"login", "register", "callback", "verify"}
  /\ c.at = "ok" /\ c.kind = "register" => AcctOf(ss, c.got.tok) = c.arg
  /\ c.at = "ok" /\ c.kind \in {"upload", "import", "profile"} => c.tok # 0
  /\ c.kind \in {"upload", "import"} /\ c.tok # 0 => AcctOf(ss, c.tok) = Owner[c.arg]

\* App in state p, with k in localStorage and s out of step
PageOwns(p, k, ss, s) ==
  /\ k = p.token
  /\ p.user = NoUser => p.usage = Nobody
  /\ p.user # NoUser /\ "session" \notin s =>
       /\ p.token # 0 /\ AcctOf(ss, p.token) = p.user.of
       /\ "usage" \notin s => p.usage \in {Nobody, p.user.of}

\* The registration that a code is awaited for
PendingOwns(x, ss) == x = NoContext \/ (x.tok # 0 /\ AcctOf(ss, x.tok) = x.of)

OwnInv ==
  /\ CheckInv
  /\ PageOwns(app, kept, sessions, astray)
  /\ PendingOwns(ui.pending, sessions)
  /\ \A c \in wire : CallOwns(c, sessions, app.token)

LEMMA AcctIs ==
  ASSUME NEW t
  PROVE  Acct(t) = AcctOf(sessions, t)
  BY DEF Acct, AcctOf

LEMMA AboutIs ==
  ASSUME NEW c
  PROVE  About(c) = Answered0(c, sessions)
  BY DEF About, Acct, Answered0, AcctOf

\* The sessions of later hold those of earlier.
Grows(ss, later, n) == \A t \in 0..n : AcctOf(later, t) = AcctOf(ss, t)

LEMMA GrowsAppend ==
  ASSUME NEW ss \in Seq(Accounts), NEW a \in Accounts
  PROVE  /\ Grows(ss, Append(ss, a), Len(ss))
         /\ AcctOf(Append(ss, a), Len(ss) + 1) = a /\ Len(Append(ss, a)) = Len(ss) + 1
  BY DEF Grows, AcctOf

LEMMA OwnsLater ==
  ASSUME NEW n, NEW ss, NEW later, Grows(ss, later, n), NEW e, CallShape(e, n), NEW d, Kin(e, d),
         NEW t, NEW u, CallOwns(e, ss, t), d.kind = "load" /\ d.live => e.live /\ u = t
  PROVE  CallOwns(d, later, u)
<1>1. e.tok \in 0..n /\ e.got.tok \in 0..n
  BY DEF CallShape, AnswerShape
<1>2. AcctOf(later, e.tok) = AcctOf(ss, e.tok) /\ AcctOf(later, e.got.tok) = AcctOf(ss, e.got.tok)
  BY <1>1 DEF Grows
<1>3. Answered0(d, later) = Answered0(e, ss)
  BY <1>2 DEF Answered0, Kin
<1> QED
  BY <1>2, <1>3 DEF CallOwns, Kin

LEMMA OwnsLost ==
  ASSUME NEW n, NEW ss, NEW later, Grows(ss, later, n), NEW c, CallShape(c, n), NEW t, CallOwns(c, ss, t)
  PROVE  CallOwns(Lost(c), later, t)
<1>1. c.tok \in 0..n /\ c.got.tok \in 0..n
  BY DEF CallShape, AnswerShape
<1>2. AcctOf(later, c.tok) = AcctOf(ss, c.tok)
  BY <1>1 DEF Grows
<1>3. /\ Lost(c).kind = c.kind /\ Lost(c).tok = c.tok /\ Lost(c).arg = c.arg
      /\ Lost(c).live = c.live /\ Lost(c).at = "failed" /\ Lost(c).got = c.got
  BY LostFields
<1> QED
  BY <1>2, <1>3 DEF CallOwns

LEMMA OwnsAsk ==
  ASSUME NEW kind, NEW t, NEW ss, kind \notin {"verify", "upload", "import"}
  PROVE  CallOwns(Ask(kind, t, Nobody), ss, t)
  BY DEF CallOwns, Ask, NoAnswer

LEMMA OwnsRender ==
  ASSUME NEW n, NEW p, NEW g, NEW w, NEW a, NEW again, NEW ss, Calls(w, n),
         \A c \in w : CallOwns(c, ss, app.token), Render(p, g, w, a, again)
  PROVE  \A d \in wire' : CallOwns(d, ss, p.token)
<1>1. ASSUME NEW d \in wire'
      PROVE  CallOwns(d, ss, p.token)
  <2>1. CASE \E c \in w : /\ Kin(c, d)
                          /\ d.live => c.live /\ ~(p.token # app.token /\ c.kind = "load")
    <3>1. PICK c \in w : /\ Kin(c, d)
                         /\ d.live => c.live /\ ~(p.token # app.token /\ c.kind = "load")
      BY <2>1
    <3>2. Grows(ss, ss, n) /\ CallShape(c, n) /\ CallOwns(c, ss, app.token)
      BY DEF Grows, Calls
    <3>3. d.kind = "load" /\ d.live => c.live /\ p.token = app.token
      BY <3>1 DEF Kin
    <3> QED
      BY <3>1, <3>2, <3>3, OwnsLater
  <2>2. CASE d \in {Ask("load", p.token, Nobody), Ask("orders", p.token, Nobody), Ask("keys", p.token, Nobody)}
    BY <2>2, OwnsAsk
  <2>3. \/ \E c \in w : /\ Kin(c, d)
                        /\ d.live => c.live /\ ~(p.token # app.token /\ c.kind = "load")
        \/ d \in {Ask("load", p.token, Nobody), Ask("orders", p.token, Nobody), Ask("keys", p.token, Nobody)}
    BY RenderWire
  <2> QED
    BY <2>1, <2>2, <2>3
<1> QED
  BY <1>1

\* A step of the page
LEMMA OwnPage ==
  ASSUME OwnInv, CheckInv', NEW p, NEW g, NEW w, NEW a, NEW again, UiShape(g, Len(sessions)),
         Calls(w, Len(sessions)), \A c \in w : CallOwns(c, sessions, app.token),
         Render(p, g, w, a, again), sessions' = sessions,
         PageOwns(p, kept', sessions, a), PendingOwns(g.pending, sessions)
  PROVE  OwnInv'
<1>1. \A d \in wire' : CallOwns(d, sessions, p.token)
  BY OwnsRender
<1>2. app' = p /\ (astray' = a \/ astray' = a \ {"rows", "detail"})
  BY DEF Render
<1>3. PageOwns(p, kept', sessions, astray')
  BY <1>2 DEF PageOwns
<1>4. ui'.pending = NoContext \/ ui'.pending = g.pending
  <2>1. \/ ui' = Mounted(p)
        \/ ui'.pending = g.pending
    BY RenderUi
  <2>2. Mounted(p).pending = NoContext
    BY DEF Mounted
  <2> QED
    BY <2>1, <2>2
<1>5. PendingOwns(ui'.pending, sessions)
  BY <1>4 DEF PendingOwns
<1> QED
  BY <1>1, <1>2, <1>3, <1>5 DEF OwnInv

LEMMA OwnFacts ==
  ASSUME OwnInv
  PROVE  /\ CheckInv /\ PageOwns(app, kept, sessions, astray) /\ PendingOwns(ui.pending, sessions)
         /\ \A c \in wire : CallOwns(c, sessions, app.token)
         /\ Calls(wire, Len(sessions)) /\ UiShape(ui, Len(sessions))
  BY PageFacts DEF OwnInv

\* A step that leaves the user, the usage and the token as they are
LEMMA OwnSame ==
  ASSUME OwnInv, CheckInv', NEW p, NEW g, NEW w, NEW a, NEW again, UiShape(g, Len(sessions)),
         Calls(w, Len(sessions)), \A c \in w : CallOwns(c, sessions, app.token),
         Render(p, g, w, a, again), ByClient, kept' = kept,
         p.user = app.user, p.usage = app.usage, p.token = app.token,
         "session" \in astray => "session" \in a, "usage" \in astray => "usage" \in a,
         PendingOwns(g.pending, sessions)
  PROVE  OwnInv'
<1>1. PageOwns(p, kept', sessions, a)
  BY OwnFacts DEF PageOwns
<1>2. sessions' = sessions
  BY DEF ByClient, server
<1> QED
  BY <1>1, <1>2, OwnPage

LEMMA OwnSending ==
  ASSUME OwnInv, CheckInv', NEW g, NEW c, Sending(g, c)
  PROVE  OwnInv'
<1>1. /\ Render(app, g, wire \cup {c}, astray, FALSE) /\ ByClient /\ kept' = kept
      /\ UiShape(g, Len(sessions)) /\ g.pending = ui.pending
      /\ CallShape(c, Len(sessions)) /\ CallTrue(c) /\ Asked(c)
  BY DEF Sending, Send, Alike
<1>2. Calls(wire \cup {c}, Len(sessions))
  BY <1>1, OwnFacts DEF Calls
<1>3. CallOwns(c, sessions, app.token)
  <2>1. c.at = "sent" /\ c.kind # "load" /\ c.got.tok = 0
    BY <1>1 DEF Asked, NoAnswer
  <2>2. c.kind = "verify" => c.tok # 0 /\ AcctOf(sessions, c.tok) = c.arg
    BY <1>1, OwnFacts DEF Asked, PendingOwns
  <2>3. c.kind \in {"upload", "import"} /\ c.tok # 0 => AcctOf(sessions, c.tok) = Owner[c.arg]
    BY <1>1, AcctIs DEF Asked
  <2> QED
    BY <2>1, <2>2, <2>3 DEF CallOwns
<1> QED
  BY <1>1, <1>2, <1>3, OwnFacts, OwnSame

LEMMA OwnReopen ==
  ASSUME OwnInv, CheckInv', NEW v, NEW calls, calls \subseteq {Ask("callback", 0, Nobody)}, Reopen(v, calls)
  PROVE  OwnInv'
<1>1. /\ app' = Opened(v) /\ ui' = Mounted(app') /\ sessions' = sessions /\ kept' = kept
      /\ wire' = LoadEffect(app', TRUE) \cup calls /\ astray' = {}
  BY DEF Reopen, server
<1>2. app'.user = NoUser /\ app'.usage = Nobody /\ app'.token = kept
  BY <1>1 DEF Opened
<1>3. ui'.pending = NoContext
  BY <1>1 DEF Mounted
<1>4. CallOwns(Ask("load", app'.token, Nobody), sessions, app'.token)
  BY OwnsAsk
<1>5. CallOwns(Ask("callback", 0, Nobody), sessions, app'.token)
  BY DEF CallOwns, Ask, NoAnswer
<1>6. \A c \in wire' : CallOwns(c, sessions, app'.token)
  BY <1>1, <1>4, <1>5 DEF LoadEffect
<1> QED
  BY <1>1, <1>2, <1>3, <1>6 DEF OwnInv, PageOwns, PendingOwns

LEMMA OwnAct ==
  ASSUME OwnInv, CheckInv', Act
  PROVE  OwnInv'
<1>0. CheckInv
  BY OwnFacts
<1>1. ASSUME NEW v, Show(v)
      PROVE  OwnInv'
  <2> DEFINE p == AppRec(v, app.user, app.usage, app.token, app.ifpay, app.gallery)
  <2>1. Render(p, ui, wire, astray, FALSE) /\ ByClient /\ kept' = kept
    BY <1>0, <1>1, ShowDoes DEF Show
  <2>2. p.user = app.user /\ p.usage = app.usage /\ p.token = app.token
    BY DEF AppRec
  <2> HIDE DEF p
  <2> QED
    BY <2>1, <2>2, OwnFacts, OwnSame
<1>2. CASE Logout
  <2> DEFINE p == AppRec("landing", NoUser, Nobody, 0, FALSE, app.gallery)
  <2>1. Render(p, ui, wire, astray \ {"session"}, FALSE) /\ sessions' = sessions /\ kept' = 0
    BY <1>0, <1>2, LogoutDoes DEF Logout, ByClient, server
  <2>2. p.user = NoUser /\ p.usage = Nobody /\ p.token = 0
    BY DEF AppRec
  <2> HIDE DEF p
  <2>3. PageOwns(p, kept', sessions, astray \ {"session"})
    BY <2>1, <2>2 DEF PageOwns
  <2> QED
    BY <2>1, <2>3, OwnFacts, OwnPage
<1>3. ASSUME NEW item, Select(item)
      PROVE  OwnInv'
  <2>1. /\ Render(app, [ui EXCEPT !.selected = item], wire, astray \ {"detail"}, FALSE)
        /\ ByClient /\ kept' = kept
    BY <1>3 DEF Select
  <2>2. UiShape([ui EXCEPT !.selected = item], Len(sessions)) /\ [ui EXCEPT !.selected = item].pending = ui.pending
    BY <1>0, SelectDoes
  <2> QED
    BY <2>1, <2>2, OwnFacts, OwnSame
<1>4. CASE Back
  <2>1. UiShape([ui EXCEPT !.selected = NoItem], Len(sessions)) /\ [ui EXCEPT !.selected = NoItem].pending = ui.pending
    BY <1>0, SelectDoes
  <2> QED
    BY <1>4, <2>1, OwnFacts, OwnSame DEF Back, Set
<1>5. ASSUME NEW m \in Modes, SwitchMode(m)
      PROVE  OwnInv'
  <2>1. UiShape([ui EXCEPT !.mode = m], Len(sessions)) /\ [ui EXCEPT !.mode = m].pending = ui.pending
    BY <1>0, AppFacts, AlikeUi DEF Alike
  <2> QED
    BY <1>5, <2>1, OwnFacts, OwnSame DEF SwitchMode, Set
<1>6. ASSUME NEW x \in Names, EditAlias(x)
      PROVE  OwnInv'
  <2>1. UiShape([ui EXCEPT !.alias = x], Len(sessions)) /\ [ui EXCEPT !.alias = x].pending = ui.pending
    BY <1>0, AliasDoes
  <2> QED
    BY <1>6, <2>1, OwnFacts, OwnSame DEF EditAlias, Set
<1>7. CASE Set([ui EXCEPT !.rows = NoRows])
  <2>1. UiShape([ui EXCEPT !.rows = NoRows], Len(sessions)) /\ [ui EXCEPT !.rows = NoRows].pending = ui.pending
    BY <1>0, RowsDoes
  <2> QED
    BY <1>7, <2>1, OwnFacts, OwnSame DEF Set
<1>8. ASSUME NEW v, Reload(v)
      PROVE  OwnInv'
  BY <1>8, OwnReopen DEF Reload
<1> QED
  BY <1>0, <1>1, <1>2, <1>3, <1>4, <1>5, <1>6, <1>7, <1>8, ActDoes, OwnSending

\* The answer to c is handled.
LEMMA OwnDone ==
  ASSUME OwnInv, CheckInv', NEW c \in wire, NEW p, NEW g, NEW a, UiShape(g, Len(sessions)),
         Done(c, p, g, a), PageOwns(p, kept', sessions, a), PendingOwns(g.pending, sessions)
  PROVE  OwnInv'
<1>1. Render(p, Local(c, g), wire \ {c}, a, FALSE) /\ sessions' = sessions
  BY DEF Done, ByClient, server
<1>2. UiShape(Local(c, g), Len(sessions)) /\ PendingOwns(Local(c, g).pending, sessions)
  BY OwnFacts DEF Local
<1>3. Calls(wire \ {c}, Len(sessions)) /\ \A e \in wire \ {c} : CallOwns(e, sessions, app.token)
  BY OwnFacts DEF Calls
<1> QED
  BY <1>1, <1>2, <1>3, OwnPage

\* It leaves the user, the usage and the token as they are.
LEMMA OwnKeeps ==
  ASSUME OwnInv, CheckInv', NEW c \in wire, NEW p, NEW g, NEW a, UiShape(g, Len(sessions)),
         Done(c, p, g, a), kept' = kept, p.user = app.user, p.usage = app.usage, p.token = app.token,
         "session" \in astray => "session" \in a, "usage" \in astray => "usage" \in a,
         PendingOwns(g.pending, sessions)
  PROVE  OwnInv'
<1>1. PageOwns(p, kept', sessions, a)
  BY OwnFacts DEF PageOwns
<1> QED
  BY <1>1, OwnDone

\* What an answer says of the account it is for
LEMMA OwnAnswer ==
  ASSUME OwnInv, NEW c \in wire
  PROVE  /\ c.at = "ok" /\ c.kind \in Bringing =>
              c.got.user.of = About(c) /\ About(c) \in Accounts /\ c.got.user # NoUser /\ About(c) # Nobody
         /\ c.at = "ok" /\ c.kind \in {"login", "register", "callback", "verify"} =>
              c.got.tok # 0 /\ About(c) = Acct(c.got.tok)
         /\ c.kind \notin {"login", "register", "callback", "verify"} => About(c) = Acct(c.tok)
<1>1. CallOwns(c, sessions, app.token)
  BY OwnFacts
<1>2. c.at = "ok" /\ c.kind \in Bringing => c.got.user # NoUser
  BY OwnFacts, AnswerFacts
<1>3. c.at = "ok" /\ c.kind \in {"login", "register", "callback", "verify"} =>
        c.got.tok # 0 /\ About(c) = Acct(c.got.tok)
  BY <1>1 DEF CallOwns, About
<1>4. c.kind \notin {"login", "register", "callback", "verify"} => About(c) = Acct(c.tok)
  BY <1>1 DEF CallOwns, About
<1>5. c.at = "ok" /\ c.kind \in Bringing => c.got.user.of = About(c) /\ About(c) \in Accounts
  BY <1>1, AboutIs DEF CallOwns
<1> QED
  BY <1>2, <1>3, <1>4, <1>5, AccountAssumption

LEMMA OwnSignedIn ==
  ASSUME OwnInv, CheckInv', NEW c \in wire, SignedIn(c)
  PROVE  OwnInv'
<1> DEFINE p == AppRec("dashboard", c.got.user, Nobody, c.got.tok, app.ifpay, app.gallery)
           a == Checked(astray, c, {"session", "profile"})
<1>1. PICK g : UiShape(g, Len(sessions)) /\ Alike(g, ui) /\ Done(c, p, g, a)
  BY OwnFacts, SignedInDoes
<1>2. p.user = c.got.user /\ p.usage = Nobody /\ p.token = c.got.tok
  BY DEF AppRec
<1> HIDE DEF p
<1>3. c.at = "ok" /\ c.kind \in {"login", "verify"} /\ kept' = c.got.tok
  BY DEF SignedIn, Answered
<1>4. /\ c.got.tok # 0 /\ c.got.user # NoUser /\ c.got.user.of = AcctOf(sessions, c.got.tok)
  BY <1>3, OwnAnswer, AcctIs DEF Bringing
<1>5. PageOwns(p, kept', sessions, a)
  BY <1>2, <1>3, <1>4 DEF PageOwns
<1>6. PendingOwns(g.pending, sessions)
  BY <1>1, OwnFacts DEF Alike
<1> HIDE DEF a
<1> QED
  BY <1>1, <1>5, <1>6, OwnDone

LEMMA OwnCallback ==
  ASSUME OwnInv, CheckInv', NEW c \in wire, IFPayCallback(c)
  PROVE  OwnInv'
<1> DEFINE p == AppRec("pricing", c.got.user, app.usage, c.got.tok, TRUE, app.gallery)
           a == Checked(IF app.usage \in {Nobody, c.got.user.of} THEN astray ELSE astray \cup {"usage"},
                        c, {"session", "profile"})
<1>1. Done(c, p, ui, a)
  BY OwnFacts, CallbackDoes
<1>2. p.user = c.got.user /\ p.usage = app.usage /\ p.token = c.got.tok
  BY DEF AppRec
<1> HIDE DEF p
<1>3. c.at = "ok" /\ c.kind = "callback" /\ kept' = c.got.tok
  BY DEF IFPayCallback, Answered
<1>4. /\ c.got.tok # 0 /\ c.got.user # NoUser /\ c.got.user.of = AcctOf(sessions, c.got.tok)
  BY <1>3, OwnAnswer, AcctIs DEF Bringing
<1>5. "usage" \notin a => app.usage \in {Nobody, c.got.user.of}
  BY DEF Checked
<1>6. PageOwns(p, kept', sessions, a)
  BY <1>2, <1>3, <1>4, <1>5 DEF PageOwns
<1> HIDE DEF a
<1> QED
  BY <1>1, <1>6, OwnFacts, OwnDone

LEMMA OwnAuth ==
  ASSUME OwnInv, CheckInv', NEW c \in wire, AuthAnswered(c)
  PROVE  OwnInv'
<1>1. PICK g : /\ UiShape(g, Len(sessions)) /\ Done(c, app, g, astray)
               /\ \/ g.pending = ui.pending
                  \/ c.kind = "register" /\ g.pending = [of |-> c.arg, tok |-> c.got.tok]
  BY OwnFacts, AuthDoes
<1>2. c.at = "ok" /\ kept' = kept
  BY DEF AuthAnswered, Answered
<1>3. c.kind = "register" => c.got.tok # 0 /\ AcctOf(sessions, c.got.tok) = c.arg
  BY <1>2, OwnFacts DEF CallOwns
<1>4. PendingOwns(g.pending, sessions)
  BY <1>1, <1>3, OwnFacts DEF PendingOwns
<1> QED
  BY <1>1, <1>2, <1>4, OwnKeeps

LEMMA OwnLoaded ==
  ASSUME OwnInv, CheckInv', NEW c \in wire, Loaded(c)
  PROVE  OwnInv'
<1>0. kept' = kept /\ c.at = "ok" /\ c.kind = "load"
  BY DEF Loaded, Answered
<1>1. CASE c.live
  <2> DEFINE p == AppRec(IF app.view \in {"landing", "auth"} THEN "dashboard" ELSE app.view, c.got.user,
                         c.got.user.of, app.token, app.ifpay, c.got.items)
             a == Detached(Checked(astray, c, {"session", "usage", "gallery", "profile"}), c.got.items)
  <2>1. Done(c, p, ui, a)
    BY <1>1, OwnFacts, LoadedDoes
  <2>2. p.user = c.got.user /\ p.usage = c.got.user.of /\ p.token = app.token
    BY DEF AppRec
  <2> HIDE DEF p, a
  <2>3. c.tok = app.token
    BY <1>0, <1>1, OwnFacts DEF CallOwns
  <2>4. /\ c.got.user # NoUser /\ c.got.user.of = AcctOf(sessions, app.token)
        /\ app.token # 0
    BY <1>0, <2>3, OwnAnswer, AcctIs DEF Bringing, Acct
  <2>5. PageOwns(p, kept', sessions, a)
    BY <1>0, <2>2, <2>4, OwnFacts DEF PageOwns
  <2> QED
    BY <2>1, <2>5, OwnFacts, OwnDone
<1>2. CASE ~c.live
  <2>1. Done(c, app, ui, astray)
    BY <1>2 DEF Loaded
  <2> QED
    BY <1>0, <2>1, OwnFacts, OwnKeeps
<1> QED
  BY <1>1, <1>2

LEMMA OwnLoadFailed ==
  ASSUME OwnInv, CheckInv', NEW c \in wire, LoadFailed(c)
  PROVE  OwnInv'
<1> DEFINE p == AppRec(app.view, app.user, app.usage, 0, app.ifpay, app.gallery)
           a == IF app.user = NoUser THEN astray ELSE astray \cup {"session"}
<1>1. Done(c, p, ui, a)
  BY OwnFacts, LoadFailedDoes
<1>2. p.user = app.user /\ p.usage = app.usage /\ p.token = 0 /\ kept' = 0
  BY DEF AppRec, LoadFailed
<1> HIDE DEF p
<1>3. PageOwns(p, kept', sessions, a)
  BY <1>2, OwnFacts DEF PageOwns
<1> HIDE DEF a
<1> QED
  BY <1>1, <1>3, OwnFacts, OwnDone

LEMMA OwnMe ==
  ASSUME OwnInv, CheckInv', NEW c \in wire, MeAnswered(c)
  PROVE  OwnInv'
<1> DEFINE p == AppRec(app.view, c.got.user, c.got.user.of, app.token, app.ifpay, app.gallery)
           a == Full(astray, c, {"session", "usage", "profile"})
<1>1. Done(c, p, ui, a)
  BY OwnFacts, MeDoes
<1>2. p.user = c.got.user /\ p.usage = c.got.user.of /\ p.token = app.token
  BY DEF AppRec
<1> HIDE DEF p
<1>3. kept' = kept /\ c.at = "ok" /\ c.kind = "me"
  BY DEF MeAnswered, Answered
<1>4. c.got.user # NoUser /\ c.got.user.of = About(c) /\ About(c) # Nobody
  BY <1>3, OwnAnswer DEF Bringing
<1>5. "session" \notin a => About(c) = Acct(app.token)
  BY DEF Full, Partial, Foreign
<1>6. "session" \notin a => app.token # 0 /\ AcctOf(sessions, app.token) = c.got.user.of
  BY <1>4, <1>5, AcctIs DEF Acct
<1>7. PageOwns(p, kept', sessions, a)
  BY <1>2, <1>3, <1>4, <1>6, OwnFacts DEF PageOwns
<1> HIDE DEF a
<1> QED
  BY <1>1, <1>7, OwnFacts, OwnDone

LEMMA OwnProfile ==
  ASSUME OwnInv, CheckInv', NEW c \in wire, ProfileSaved(c)
  PROVE  OwnInv'
<1> DEFINE p == AppRec(app.view, c.got.user, app.usage, app.token, app.ifpay, app.gallery)
           a == Partial(astray \ {"profile"}, c, {"session", "profile"})
<1>1. Done(c, p, ui, a)
  BY OwnFacts, ProfileDoes
<1>2. p.user = c.got.user /\ p.usage = app.usage /\ p.token = app.token
  BY DEF AppRec
<1> HIDE DEF p
<1>3. kept' = kept /\ c.at = "ok" /\ c.kind = "profile"
  BY DEF ProfileSaved, Answered
<1>4. c.got.user # NoUser /\ c.got.user.of = About(c) /\ About(c) # Nobody
  BY <1>3, OwnAnswer DEF Bringing
<1>5. /\ "session" \notin a => About(c) = Acct(app.token) /\ "session" \notin astray
      /\ "usage" \notin a => "usage" \notin astray
  BY DEF Partial, Foreign
<1>6. "session" \notin a => app.token # 0 /\ AcctOf(sessions, app.token) = c.got.user.of
  BY <1>4, <1>5, AcctIs DEF Acct
<1>7. "session" \notin a /\ "usage" \notin a => app.usage \in {Nobody, c.got.user.of}
  BY <1>5, <1>6, OwnFacts DEF PageOwns
<1>8. PageOwns(p, kept', sessions, a)
  BY <1>2, <1>3, <1>4, <1>6, <1>7, OwnFacts DEF PageOwns
<1> HIDE DEF a
<1> QED
  BY <1>1, <1>8, OwnFacts, OwnDone

\* No answer but the four above and the session check puts the user in step.
LEMMA StrayKept ==
  ASSUME NEW s, NEW c, NEW items
  PROVE  /\ \A x \in {"session", "usage"} : x \in s => x \in Detached(s, items) /\ x \in Orphaned(s, c)
         /\ \A x \in {"session", "usage"} : x \in s =>
              /\ x \in Full(s, c, {"gallery"}) /\ x \in Full(s, c, {"rows"}) /\ x \in Checked(s, c, {"rows"})
              /\ x \in Partial(s, c, {"gallery"}) /\ x \in Partial(s, c, {"gallery", "detail"})
  BY DEF Detached, Orphaned, Full, Checked, Partial

LEMMA OwnGallery ==
  ASSUME OwnInv, CheckInv', NEW c \in wire, ImagesAnswered(c) \/ DeleteAnswered(c) \/ ToggleAnswered(c)
  PROVE  OwnInv'
<1>0. CheckInv /\ PendingOwns(ui.pending, sessions) /\ UiShape(ui, Len(sessions))
  BY OwnFacts
<1>1. PICK s, g, a :
        /\ Done(c, AppRec(app.view, app.user, app.usage, app.token, app.ifpay, s), g, a)
        /\ UiShape(g, Len(sessions)) /\ g.pending = ui.pending
        /\ "session" \in astray => "session" \in a
        /\ "usage" \in astray => "usage" \in a
  <2>1. CASE ImagesAnswered(c)
    BY <1>0, <2>1, ImagesDoes, StrayKept
  <2>2. CASE DeleteAnswered(c)
    BY <1>0, <2>2, DeleteDoes, StrayKept
  <2>3. CASE ToggleAnswered(c)
    <3> DEFINE a == Partial(Orphaned(astray, c), c, {"gallery", "detail"})
    <3>1. PICK g, s : /\ UiShape(g, Len(sessions)) /\ g.pending = ui.pending
                      /\ Done(c, AppRec(app.view, app.user, app.usage, app.token, app.ifpay, s), g, a)
      BY <1>0, <2>3, ToggledDoes
    <3>2. ("session" \in astray => "session" \in a) /\ ("usage" \in astray => "usage" \in a)
      BY StrayKept
    <3> HIDE DEF a
    <3> QED
      BY <3>1, <3>2
  <2> QED
    BY <2>1, <2>2, <2>3
<1> DEFINE p == AppRec(app.view, app.user, app.usage, app.token, app.ifpay, s)
<1>2. p.user = app.user /\ p.usage = app.usage /\ p.token = app.token
  BY DEF AppRec
<1>3. Done(c, p, g, a) /\ kept' = kept
  BY <1>1 DEF ImagesAnswered, DeleteAnswered, ToggleAnswered
<1> HIDE DEF p
<1> QED
  BY <1>0, <1>1, <1>2, <1>3, OwnKeeps

LEMMA OwnRows ==
  ASSUME OwnInv, CheckInv', NEW c \in wire,
         OrdersAnswered(c) \/ KeysAnswered(c) \/ Imported(c) \/ Failed(c)
  PROVE  OwnInv'
<1>0. CheckInv /\ PendingOwns(ui.pending, sessions) /\ UiShape(ui, Len(sessions))
  BY OwnFacts
<1>1. \E g, a : /\ Done(c, app, g, a) /\ UiShape(g, Len(sessions)) /\ g.pending = ui.pending
                /\ "session" \in astray => "session" \in a
                /\ "usage" \in astray => "usage" \in a
  <2>1. CASE OrdersAnswered(c)
    <3> DEFINE g == [ui EXCEPT !.rows = c.got.rows, !.loading = FALSE]
               a == IF ~c.live THEN astray
                    ELSE IF c.at = "failed" THEN astray \cup {"rows"}
                    ELSE IF c.kind = "orders" THEN Checked(astray, c, {"rows"}) ELSE Full(astray, c, {"rows"})
    <3>1. Done(c, app, g, a)
      BY <2>1 DEF OrdersAnswered
    <3>2. UiShape(g, Len(sessions)) /\ g.pending = ui.pending
      BY <1>0, ListDoes
    <3>3. ("session" \in astray => "session" \in a) /\ ("usage" \in astray => "usage" \in a)
      BY StrayKept
    <3> HIDE DEF g, a
    <3> QED
      BY <3>1, <3>2, <3>3
  <2>2. CASE KeysAnswered(c)
    <3> DEFINE h == [ui EXCEPT !.rows = c.got.rows]
               g == IF c.at = "ok" THEN h ELSE ui
               a == IF ~c.live THEN astray
                    ELSE IF c.at = "ok" THEN Full(astray, c, {"rows"})
                    ELSE astray \cup {"rows"}
    <3>1. Done(c, app, g, a)
      BY <2>2 DEF KeysAnswered
    <3>2. UiShape(h, Len(sessions)) /\ h.pending = ui.pending
      BY <1>0, RowsDoes
    <3>3. ("session" \in astray => "session" \in a) /\ ("usage" \in astray => "usage" \in a)
      BY StrayKept
    <3> HIDE DEF h, a
    <3>4. UiShape(g, Len(sessions)) /\ g.pending = ui.pending
      BY <1>0, <3>2
    <3> HIDE DEF g
    <3> QED
      BY <3>1, <3>3, <3>4
  <2>3. CASE Imported(c)
    BY <1>0, <2>3 DEF Imported
  <2>4. CASE Failed(c)
    BY <1>0, <2>4, FailedDoes DEF Alike
  <2> QED
    BY <2>1, <2>2, <2>3, <2>4
<1>2. kept' = kept
  BY DEF OrdersAnswered, KeysAnswered, Imported, Failed
<1> QED
  BY <1>0, <1>1, <1>2, OwnKeeps

LEMMA OwnUpload ==
  ASSUME OwnInv, CheckInv', NEW c \in wire, UploadAnswered(c)
  PROVE  OwnInv'
<1>1. PICK d : /\ Render(app, ui, (wire \ {c}) \cup {d}, astray, FALSE)
               /\ CallShape(d, Len(sessions)) /\ CallTrue(d)
               /\ d.kind = c.kind /\ d.tok = c.tok /\ d.arg = c.arg /\ d.want = c.want
               /\ d.live = c.live /\ d.stale = c.stale /\ d.at = "timer" /\ d.got = c.got
  BY OwnFacts, UploadDoes
<1>2. ByClient /\ kept' = kept
  BY DEF UploadAnswered
<1>3. CallOwns(c, sessions, app.token) /\ Calls(wire, Len(sessions))
  BY OwnFacts
<1>4. CallOwns(d, sessions, app.token)
  BY <1>1, <1>3 DEF CallOwns
<1>5. Calls((wire \ {c}) \cup {d}, Len(sessions))
  BY <1>1, <1>3 DEF Calls
<1>6. \A e \in (wire \ {c}) \cup {d} : CallOwns(e, sessions, app.token)
  BY <1>4, OwnFacts
<1> QED
  BY <1>1, <1>2, <1>5, <1>6, OwnFacts, OwnSame

LEMMA OwnShown ==
  ASSUME OwnInv, CheckInv', NEW c \in wire, UploadShown(c)
  PROVE  OwnInv'
<1> DEFINE x == Ask("images", c.tok, Nobody)
           y == Ask("me", c.tok, Nobody)
           w == (wire \ {c}) \cup {x, y}
           p == AppRec("gallery", app.user, app.usage, app.token, app.ifpay, app.gallery \cup c.got.items)
           a == Partial(astray, c, {"gallery"})
<1>1. PICK g : UiShape(g, Len(sessions)) /\ Alike(g, ui) /\ Render(p, Local(c, g), w, a, FALSE)
  BY OwnFacts, ShownDoes
<1>2. p.user = app.user /\ p.usage = app.usage /\ p.token = app.token
  BY DEF AppRec
<1> HIDE DEF p
<1>3. Calls(w, Len(sessions))
  BY OwnFacts, RefreshCalls
<1>4. CallOwns(x, sessions, app.token) /\ CallOwns(y, sessions, app.token)
  BY DEF CallOwns, Ask, NoAnswer
<1> HIDE DEF x, y
<1>5. \A e \in w : CallOwns(e, sessions, app.token)
  BY <1>4, OwnFacts
<1> HIDE DEF w
<1>6. UiShape(Local(c, g), Len(sessions)) /\ PendingOwns(Local(c, g).pending, sessions)
  BY <1>1, OwnFacts DEF Local, Alike
<1>7. ("session" \in astray => "session" \in a) /\ ("usage" \in astray => "usage" \in a)
  BY StrayKept
<1> HIDE DEF a
<1>8. ByClient /\ kept' = kept
  BY DEF UploadShown
<1> QED
  BY <1>1, <1>2, <1>3, <1>5, <1>6, <1>7, <1>8, OwnSame

LEMMA OwnCheckedOut ==
  ASSUME OwnInv, CheckInv', NEW c \in wire, CheckedOut(c)
  PROVE  OwnInv'
<1>1. PICK g : UiShape(g, Len(sessions)) /\ Alike(g, ui) /\ Render(app, Local(c, g), wire \ {c}, astray, TRUE)
  BY OwnFacts, CheckedOutDoes
<1>2. UiShape(Local(c, g), Len(sessions)) /\ PendingOwns(Local(c, g).pending, sessions)
  BY <1>1, OwnFacts DEF Local, Alike
<1>3. Calls(wire \ {c}, Len(sessions)) /\ \A e \in wire \ {c} : CallOwns(e, sessions, app.token)
  BY OwnFacts DEF Calls
<1>4. ByClient /\ kept' = kept
  BY DEF CheckedOut
<1> QED
  BY <1>1, <1>2, <1>3, <1>4, OwnSame

LEMMA OwnKeyWritten ==
  ASSUME OwnInv, CheckInv', NEW c \in wire, KeyWritten(c)
  PROVE  OwnInv'
<1> DEFINE a == IF c.live THEN astray ELSE astray \cup {"rows"}
<1>1. PICK d : /\ Render(app, ui, (wire \ {c}) \cup {d}, a, FALSE)
               /\ CallShape(d, Len(sessions)) /\ CallTrue(d)
               /\ d.kind = "keys" /\ d.tok = c.tok /\ d.arg = Nobody /\ d.want = FALSE
               /\ d.live = c.live /\ d.stale = FALSE /\ d.at = "sent" /\ d.got = NoAnswer
  BY OwnFacts, KeyDoes
<1>2. ByClient /\ kept' = kept
  BY DEF KeyWritten
<1>3. CallOwns(d, sessions, app.token)
  BY <1>1 DEF CallOwns, NoAnswer
<1>4. Calls((wire \ {c}) \cup {d}, Len(sessions))
  BY <1>1, OwnFacts DEF Calls
<1>5. \A e \in (wire \ {c}) \cup {d} : CallOwns(e, sessions, app.token)
  BY <1>3, OwnFacts
<1>6. ("session" \in astray => "session" \in a) /\ ("usage" \in astray => "usage" \in a)
  OBVIOUS
<1> HIDE DEF a
<1> QED
  BY <1>1, <1>2, <1>4, <1>5, <1>6, OwnFacts, OwnSame

LEMMA OwnAnswered ==
  ASSUME OwnInv, CheckInv', NEW c \in wire, Answer(c)
  PROVE  OwnInv'
<1>1. ASSUME OAuthStarted(c)
      PROVE  OwnInv'
  BY <1>1, OwnReopen DEF OAuthStarted
<1> QED
  BY <1>1, OwnSignedIn, OwnCallback, OwnAuth, OwnLoaded, OwnLoadFailed, OwnMe, OwnProfile, OwnGallery,
     OwnRows, OwnUpload, OwnShown, OwnCheckedOut, OwnKeyWritten DEF Answer

\* A step of the server, from what it makes of the calls in flight
LEMMA OwnServed ==
  ASSUME OwnInv, CheckInv', NEW c \in wire, NEW got, ByServer, Grows(sessions, sessions', Len(sessions)),
         CallOwns(Ok(c, got), sessions', app.token),
         \A d \in wire' : \/ \E e \in wire : Kin(e, d) /\ d.live = e.live
                          \/ d = Ok(c, got) \/ d = Lost(c),
         astray \subseteq astray'
  PROVE  OwnInv'
<1>1. kept' = kept /\ app' = app /\ ui' = ui
  BY DEF ByServer
<1>2. \A d \in wire' : CallOwns(d, sessions', app.token)
  <2>1. ASSUME NEW d \in wire'
        PROVE  CallOwns(d, sessions', app.token)
    <3>1. CASE \E e \in wire : Kin(e, d) /\ d.live = e.live
      <4>1. PICK e \in wire : Kin(e, d) /\ d.live = e.live
        BY <3>1
      <4>2. CallShape(e, Len(sessions)) /\ CallOwns(e, sessions, app.token)
        BY OwnFacts DEF Calls
      <4> QED
        BY <4>1, <4>2, OwnsLater
    <3>2. CASE d = Ok(c, got)
      BY <3>2
    <3>3. CASE d = Lost(c)
      BY <3>3, OwnsLost, OwnFacts DEF Calls
    <3> QED
      BY <3>1, <3>2, <3>3
  <2> QED
    BY <2>1
<1>3. AcctOf(sessions', app.token) = AcctOf(sessions, app.token)
  BY OwnFacts, PageFacts DEF Grows
<1>4. PageOwns(app, kept, sessions', astray')
  BY <1>3, OwnFacts DEF PageOwns
<1>5. PendingOwns(ui.pending, sessions')
  BY OwnFacts, PageFacts DEF PendingOwns, Grows
<1> QED
  BY <1>1, <1>2, <1>4, <1>5 DEF OwnInv

LEMMA OwnReply ==
  ASSUME OwnInv, CheckInv', NEW c \in wire, NEW got, NEW x, NEW a, ByServer,
         Grows(sessions, sessions', Len(sessions)), CallOwns(Ok(c, got), sessions', app.token),
         Reply(c, got, x, a)
  PROVE  OwnInv'
<1>1. \A d \in wire' : \/ \E e \in wire : Kin(e, d) /\ d.live = e.live
                       \/ d = Ok(c, got) \/ d = Lost(c)
  <2>1. Calls(wire, Len(sessions))
    BY OwnFacts
  <2>2. \A d \in wire' : \/ \E e \in wire \ {c} : Aged(e, d, x, a, c.arg)
                         \/ d = Ok(c, got) \/ d = Lost(c)
    BY <2>1, ReplyWire
  <2> QED
    BY <2>2 DEF Aged
<1>2. astray \subseteq astray'
  BY ReplyOutcome
<1> QED
  BY <1>1, <1>2, OwnServed

\* The answer to c owns what it brings.
LEMMA OwnsOk ==
  ASSUME NEW n, NEW c, CallShape(c, n), NEW t, NEW ss, NEW later, Grows(ss, later, n),
         CallOwns(c, ss, t), NEW got, NEW a,
         a = AcctOf(later, IF got.tok # 0 THEN got.tok ELSE c.tok),
         c.kind \in Bringing => got.user.of = a /\ a \in Accounts,
         c.kind \in {"login", "register", "callback", "verify"} <=> got.tok # 0,
         c.kind = "register" => AcctOf(later, got.tok) = c.arg,
         c.kind \in {"upload", "import", "profile"} => c.tok # 0
  PROVE  CallOwns(Ok(c, got), later, t)
<1>1. c.tok \in 0..n
  BY DEF CallShape
<1>2. AcctOf(later, c.tok) = AcctOf(ss, c.tok)
  BY <1>1 DEF Grows
<1> DEFINE d == Ok(c, got)
<1>3. /\ d.kind = c.kind /\ d.tok = c.tok /\ d.arg = c.arg
      /\ d.live = c.live /\ d.at = "ok" /\ d.got = got
  BY OkFields
<1> HIDE DEF d
<1>4. Answered0(d, later) = a
  BY <1>3 DEF Answered0
<1>5. CallOwns(d, later, t)
  BY <1>2, <1>3, <1>4 DEF CallOwns
<1> QED
  BY <1>5 DEF d

LEMMA GrowsSame ==
  ASSUME NEW ss, NEW n
  PROVE  Grows(ss, ss, n)
  BY DEF Grows

\* What the server may rely on of call c
LEMMA OwnCall ==
  ASSUME OwnInv, NEW c \in wire
  PROVE  /\ CallShape(c, Len(sessions)) /\ CallTrue(c) /\ CallOwns(c, sessions, app.token)
         /\ c.tok \in 0..Len(sessions) /\ Len(sessions) \in Nat /\ sessions \in Seq(Accounts)
         /\ c.tok # 0 => AcctOf(sessions, c.tok) \in Accounts
         /\ AcctOf(sessions, c.tok) = Acct(c.tok)
  BY OwnFacts, ServerFacts, AcctIs

LEMMA OwnServeRead ==
  ASSUME OwnInv, CheckInv', NEW c \in wire, ServeRead(c)
  PROVE  OwnInv'
<1> DEFINE a == Acct(c.tok)
           full == [user |-> IF c.kind \in {"load", "me"} THEN Me(a) ELSE NoUser,
                    items |-> IF c.kind \in {"load", "images"} THEN List(a) ELSE {},
                    rows |-> CASE c.kind = "keys" -> Rows(a, "keys")
                               [] c.kind \in {"orders", "reorders"} -> Rows(a, "orders")
                               [] OTHER -> NoRows,
                    tok |-> 0]
<1>1. /\ c.kind \in Reads /\ ByServer /\ sessions' = sessions /\ astray' = astray
      /\ wire' = (wire \ {c}) \cup {Ok(c, full)}
  BY DEF ServeRead, Served, server, Ok
<1>2. full.tok = 0 /\ (c.kind \in {"load", "me"} => full.user.of = AcctOf(sessions, c.tok))
  BY AcctIs DEF Me
<1> HIDE DEF full
<1>3. /\ c.kind \in Bringing => c.kind \in {"load", "me"} /\ c.tok # 0
      /\ c.kind \notin {"login", "register", "callback", "verify", "upload", "import", "profile"}
  BY <1>1, OwnCall DEF Reads, Bringing, CallTrue, Signing
<1>4. CallOwns(Ok(c, full), sessions', app.token)
  BY <1>1, <1>2, <1>3, OwnCall, GrowsSame, OwnsOk
<1>5. \A d \in wire' : \/ \E e \in wire : Kin(e, d) /\ d.live = e.live
                       \/ d = Ok(c, full) \/ d = Lost(c)
  BY <1>1 DEF Kin
<1> QED
  BY <1>1, <1>4, <1>5, GrowsSame, OwnServed

\* Parts of an answer
LEMMA GotUser ==
  ASSUME NEW u, NEW t
  PROVE  /\ [NoAnswer EXCEPT !.user = u].user = u /\ [NoAnswer EXCEPT !.user = u].tok = 0
         /\ [NoAnswer EXCEPT !.user = u].items = {} /\ [NoAnswer EXCEPT !.user = u].rows = NoRows
  BY DEF NoAnswer

SessionGot(u, t) == [NoAnswer EXCEPT !.user = u, !.tok = t]

LEMMA GotSession ==
  ASSUME NEW u, NEW t
  PROVE  SessionGot(u, t) = [user |-> u, items |-> {}, rows |-> NoRows, tok |-> t]
<1> DEFINE h == [NoAnswer EXCEPT !.user = u]
           d == [h EXCEPT !.tok = t]
<1>1. h = [user |-> u, items |-> {}, rows |-> NoRows, tok |-> 0]
  BY DEF NoAnswer
<1>2. SessionGot(u, t) = d
  BY DEF SessionGot
<1> HIDE DEF h
<1>3. d = [user |-> u, items |-> {}, rows |-> NoRows, tok |-> t]
  BY <1>1
<1> HIDE DEF d
<1> QED
  BY <1>2, <1>3

LEMMA GotItems ==
  ASSUME NEW x
  PROVE  [NoAnswer EXCEPT !.items = x] = [user |-> NoUser, items |-> x, rows |-> NoRows, tok |-> 0]
  BY DEF NoAnswer

LEMMA OwnServeSignIn ==
  ASSUME OwnInv, CheckInv', NEW c \in wire, NEW a \in journey.who, ServeSignIn(c, a)
  PROVE  OwnInv'
<1> DEFINE n == Len(sessions')
           got == SessionGot(Me(a), n)
<1>1. /\ ByServer /\ sessions' = Append(sessions, a) /\ Reply(c, got, "none", a)
      /\ c.kind \in {"login", "register", "callback"}
      /\ c.kind = "register" => c.arg = a
  BY DEF ServeSignIn, Served, SessionGot
<1>2. a \in Accounts
  BY OwnFacts, JourneyFacts
<1>3. /\ Grows(sessions, sessions', Len(sessions)) /\ n = Len(sessions) + 1
      /\ AcctOf(sessions', n) = a /\ n # 0
  BY <1>1, <1>2, OwnCall, GrowsAppend
<1> HIDE DEF n
<1>4. got.user.of = a /\ got.tok = n
  BY GotSession DEF Me
<1> HIDE DEF got
<1>5. CallOwns(Ok(c, got), sessions', app.token)
  BY <1>1, <1>2, <1>3, <1>4, OwnCall, OwnsOk
<1> QED
  BY <1>1, <1>3, <1>5, OwnReply

LEMMA OwnServeVerify ==
  ASSUME OwnInv, CheckInv', NEW c \in wire, ServeVerify(c)
  PROVE  OwnInv'
<1> DEFINE u == [Me(c.arg) EXCEPT !.verified = TRUE]
           got == SessionGot(u, c.tok)
<1>1. /\ ByServer /\ sessions' = sessions /\ Reply(c, got, "profile", c.arg) /\ c.kind = "verify"
  BY DEF ServeVerify, Served, SessionGot
<1>2. u.of = c.arg
  BY DEF Me
<1> HIDE DEF u
<1>3. got.user = u /\ got.tok = c.tok
  BY GotSession
<1> HIDE DEF got
<1>4. c.tok # 0 /\ AcctOf(sessions, c.tok) = c.arg /\ c.arg \in Accounts
  BY <1>1, OwnCall DEF CallOwns
<1>5. CallOwns(Ok(c, got), sessions', app.token)
  BY <1>1, <1>2, <1>3, <1>4, OwnCall, GrowsSame, OwnsOk
<1> QED
  BY <1>1, <1>5, GrowsSame, OwnReply

\* Calls that bring neither a session nor a user
LEMMA OwnServePlain ==
  ASSUME OwnInv, CheckInv', NEW c \in wire, NEW got, NEW x, NEW a, ByServer, sessions' = sessions,
         Reply(c, got, x, a), got.tok = 0, c.kind \notin Bringing, c.kind # "register",
         c.kind \in {"upload", "import"} => c.tok # 0
  PROVE  OwnInv'
<1>1. c.kind \notin {"login", "register", "callback", "verify", "profile"}
  BY DEF Bringing
<1>2. CallOwns(Ok(c, got), sessions', app.token)
  BY <1>1, OwnCall, GrowsSame, OwnsOk
<1> QED
  BY <1>2, GrowsSame, OwnReply

LEMMA OwnServeOther ==
  ASSUME OwnInv, CheckInv', NEW c \in wire, ServeMail(c) \/ ServeImage(c) \/ ServeWrite(c)
  PROVE  OwnInv'
<1>1. NoAnswer.tok = 0 /\ \A x : [NoAnswer EXCEPT !.items = x].tok = 0
  BY GotItems DEF NoAnswer
<1>2. CASE ServeMail(c)
  <2>1. /\ ByServer /\ sessions' = sessions /\ Reply(c, NoAnswer, "none", Nobody)
        /\ c.kind \in {"resend", "forgot", "reset", "oauth"}
    BY <1>2 DEF ServeMail, Served, server
  <2>2. c.kind \notin Bringing /\ c.kind \notin {"register", "upload", "import"}
    BY <2>1 DEF Bringing
  <2> QED
    BY <1>1, <2>1, <2>2, OwnServePlain
<1>3. CASE ServeImage(c)
  <2>1. ByServer /\ sessions' = sessions /\ c.kind \in {"upload", "import", "delete", "toggle"}
    BY <1>3 DEF ServeImage, Served
  <2>2. PICK got : Reply(c, got, "gallery", Acct(c.tok))
                   /\ (got = NoAnswer \/ \E x : got = [NoAnswer EXCEPT !.items = x])
                   /\ (c.kind \in {"upload", "import"} => c.tok # 0)
    BY <1>3, <2>1 DEF ServeImage
  <2>3. c.kind \notin Bringing /\ c.kind # "register" /\ got.tok = 0
    BY <1>1, <2>1, <2>2 DEF Bringing
  <2> QED
    BY <2>1, <2>2, <2>3, OwnServePlain
<1>4. CASE ServeWrite(c)
  <2>1. /\ ByServer /\ sessions' = sessions /\ c.kind \in {"checkout", "create", "revoke"}
        /\ Reply(c, NoAnswer, "rows", Acct(c.tok))
    BY <1>4 DEF ServeWrite, Served
  <2>2. c.kind \notin Bringing /\ c.kind \notin {"register", "upload", "import"}
    BY <2>1 DEF Bringing
  <2> QED
    BY <1>1, <2>1, <2>2, OwnServePlain
<1> QED
  BY <1>2, <1>3, <1>4

LEMMA OwnServeProfile ==
  ASSUME OwnInv, CheckInv', NEW c \in wire, ServeProfile(c)
  PROVE  OwnInv'
<1> DEFINE u == [Me(Acct(c.tok)) EXCEPT !.name = c.arg]
           got == [NoAnswer EXCEPT !.user = u]
<1>1. /\ ByServer /\ sessions' = sessions /\ Reply(c, got, "profile", Acct(c.tok)) /\ c.tok # 0
      /\ c.kind = "profile"
  BY DEF ServeProfile, Served
<1>2. u.of = Acct(c.tok)
  BY DEF Me
<1> HIDE DEF u
<1>3. got.user = u /\ got.tok = 0
  BY GotUser
<1> HIDE DEF got
<1>4. CallOwns(Ok(c, got), sessions', app.token)
  BY <1>1, <1>2, <1>3, OwnCall, GrowsSame, OwnsOk
<1> QED
  BY <1>1, <1>4, GrowsSame, OwnReply

LEMMA OwnRefuse ==
  ASSUME OwnInv, CheckInv', NEW c \in wire, Refuse(c)
  PROVE  OwnInv'
<1>1. /\ ByServer /\ sessions' = sessions /\ astray' = astray
      /\ wire' = (wire \ {c}) \cup {Lost(c)}
  BY DEF Refuse, server, Lost
<1>2. \A d \in wire' : d = Lost(c) \/ \E e \in wire : Kin(e, d) /\ d.live = e.live
  BY <1>1 DEF Kin
<1>3. CallOwns(Lost(c), sessions, app.token)
  BY OwnCall, GrowsSame, OwnsLost
<1>4. \A d \in wire' : CallOwns(d, sessions, app.token)
  BY <1>1, <1>3, OwnFacts
<1>5. kept' = kept /\ app' = app /\ ui' = ui
  BY <1>1 DEF ByServer
<1> QED
  BY <1>1, <1>4, <1>5, OwnFacts DEF OwnInv

LEMMA InitOwn ==
  ASSUME Init
  PROVE  OwnInv
<1>1. CheckInv /\ ui = Mounted(app)
  BY InitChecked DEF Init
<1>2. kept = 0 /\ app.token = 0 /\ app.user = NoUser /\ app.usage = Nobody /\ wire = {}
  BY DEF Init
<1>3. ui.pending = NoContext
  BY <1>1 DEF Mounted
<1> QED
  BY <1>1, <1>2, <1>3 DEF OwnInv, PageOwns, PendingOwns

LEMMA OwnNext ==
  ASSUME OwnInv, [Next]_vars
  PROVE  OwnInv'
<1>1. CheckInv
  BY OwnFacts
<1>2. CASE Act
  BY <1>1, <1>2, ActStep, OwnAct
<1>3. ASSUME NEW c \in wire, Serve(c)
      PROVE  OwnInv'
  <2>1. CheckInv'
    BY <1>1, <1>3, ServeStep
  <2> QED
    BY <1>3, <2>1, OwnServeRead, OwnServeSignIn, OwnServeVerify, OwnServeOther, OwnServeProfile,
       OwnRefuse DEF Serve
<1>4. ASSUME NEW c \in wire, Answer(c)
      PROVE  OwnInv'
  BY <1>1, <1>4, AnswerStep, OwnAnswered
<1>5. CASE UNCHANGED vars
  <2>1. app' = app /\ ui' = ui /\ wire' = wire /\ kept' = kept /\ sessions' = sessions /\ astray' = astray
    BY <1>5 DEF vars, server
  <2> QED
    BY <1>1, <1>5, <2>1, StutterChecked DEF OwnInv
<1> QED
  BY <1>2, <1>3, <1>4, <1>5 DEF Next

\* The user on the screen is the account of the token that the page's calls
\* carry and that localStorage holds, and the usage beside it is that user's,
\* unless an answer for an earlier session or a failed check put them out of
\* step (the handlers that set token, user and usage one by one).
THEOREM UserOwnsToken == Spec => []ShownUserOwnsToken
<1>1. Init => OwnInv
  BY InitOwn
<1>2. OwnInv /\ [Next]_vars => OwnInv'
  BY OwnNext
<1>3. OwnInv => ShownUserOwnsToken
  BY AcctIs DEF OwnInv, PageOwns, ShownUserOwnsToken
<1> QED
  BY <1>1, <1>2, <1>3, PTL DEF Spec

-----------------------------------------------------------------------------
(* The orders and the keys on the screen.                                  *)

RowsOf(wr, b, l) == [of |-> b, n |-> wr[b][l]]

\* Call c, on screen s of a page with token t, among sessions ss and with wr
\* written
CallRows(c, s, t, ss, wr) ==
  /\ c.kind \in {"orders", "reorders", "keys"} => c.tok # 0
  /\ c.at = "ok" /\ c.kind \in {"create", "revoke"} => c.tok # 0
  /\ c.at = "ok" /\ ~c.stale /\ c.kind \in {"orders", "reorders"} =>
       c.got.rows = RowsOf(wr, AcctOf(ss, c.tok), "orders")
  /\ c.at = "ok" /\ ~c.stale /\ c.kind = "keys" => c.got.rows = RowsOf(wr, AcctOf(ss, c.tok), "keys")
  /\ c.live /\ c.kind \in {"orders", "reorders"} => s = "pricing"
  /\ c.live /\ c.kind = "orders" => c.tok = t
  /\ c.live /\ c.kind \in {"keys", "create", "revoke"} => s = "api"

\* The calls that will bring the orders, or the keys, to the screen
BringsOrders(c) == (c.live /\ c.kind \in {"orders", "reorders"}) \/ (c.at = "ok" /\ c.kind = "checkout")
BringsKeys(c) == (c.live /\ c.kind = "keys") \/ (c.at = "ok" /\ c.kind \in {"create", "revoke"})

OrdersAt(r, w, s, t, a, ss, wr) ==
  t # 0 /\ "rows" \notin a /\ s = "pricing" =>
    r = RowsOf(wr, AcctOf(ss, t), "orders") \/ \E c \in w : BringsOrders(c)
KeysAt(r, w, s, t, a, ss, wr) ==
  t # 0 /\ "rows" \notin a /\ s = "api" =>
    r = RowsOf(wr, AcctOf(ss, t), "keys") \/ \E c \in w : BringsKeys(c)

RowsInv ==
  /\ OwnInv
  /\ written \in [Accounts -> [Lists -> Nat]]
  /\ \A c \in wire : CallRows(c, Screen(app), app.token, sessions, written)
  /\ OrdersAt(ui.rows, wire, Screen(app), app.token, astray, sessions, written)
  /\ KeysAt(ui.rows, wire, Screen(app), app.token, astray, sessions, written)

LEMMA RowsFacts ==
  ASSUME RowsInv
  PROVE  /\ OwnInv /\ CheckInv /\ Calls(wire, Len(sessions)) /\ UiShape(ui, Len(sessions))
         /\ \A c \in wire : CallRows(c, Screen(app), app.token, sessions, written)
         /\ OrdersAt(ui.rows, wire, Screen(app), app.token, astray, sessions, written)
         /\ KeysAt(ui.rows, wire, Screen(app), app.token, astray, sessions, written)
         /\ written \in [Accounts -> [Lists -> Nat]]
  BY OwnFacts DEF RowsInv

LEMMA RowsRender ==
  ASSUME NEW n, NEW p, NEW g, NEW w, NEW a, NEW again, NEW ss, NEW wr, UiShape(g, n), Calls(w, n),
         \A c \in w : CallRows(c, Screen(app), app.token, ss, wr),
         again \/ OrdersAt(g.rows, w, Screen(app), app.token, a, ss, wr),
         KeysAt(g.rows, w, Screen(app), app.token, a, ss, wr),
         Render(p, g, w, a, again)
  PROVE  /\ \A d \in wire' : CallRows(d, Screen(p), p.token, ss, wr)
         /\ OrdersAt(ui'.rows, wire', Screen(p), p.token, astray', ss, wr)
         /\ KeysAt(ui'.rows, wire', Screen(p), p.token, astray', ss, wr)
<1> DEFINE moved == Screen(p) # Screen(app)
           fresh == p.token # app.token
           left(c, d) == /\ Kin(c, d) /\ d.stale = c.stale
                         /\ d.live <=> /\ c.live /\ ~(moved /\ c.kind \notin AppOnly)
                                       /\ ~(fresh /\ c.kind = "load") /\ ~((fresh \/ again) /\ c.kind = "orders")
           orders == Ask("orders", p.token, Nobody)
           keys == Ask("keys", p.token, Nobody)
<1>1. /\ \A c \in w : \E d \in wire' : left(c, d)
      /\ \A d \in wire' :
           \/ \E c \in w : left(c, d)
           \/ p.token # 0 /\ d = Ask("load", p.token, Nobody)
           \/ Screen(p) = "pricing" /\ p.token # 0 /\ d = orders
           \/ Screen(p) = "api" /\ p.token # 0 /\ d = keys
  BY RenderWire
<1>2. ASSUME NEW c \in w, NEW d, left(c, d)
      PROVE  CallRows(d, Screen(p), p.token, ss, wr)
  <2>1. CallRows(c, Screen(app), app.token, ss, wr)
    OBVIOUS
  <2>2. d.live => /\ c.live
                  /\ c.kind \in {"orders", "reorders", "keys", "create", "revoke"} => ~moved
                  /\ c.kind = "orders" => ~fresh
    BY <1>2 DEF AppOnly
  <2>3. Kin(c, d) /\ d.stale = c.stale
    BY <1>2
  <2> HIDE DEF left
  <2> QED
    BY <2>1, <2>2, <2>3 DEF CallRows, Kin
<1>3. /\ p.token # 0 => CallRows(Ask("load", p.token, Nobody), Screen(p), p.token, ss, wr)
      /\ Screen(p) = "pricing" /\ p.token # 0 => CallRows(orders, Screen(p), p.token, ss, wr)
      /\ Screen(p) = "api" /\ p.token # 0 => CallRows(keys, Screen(p), p.token, ss, wr)
  BY DEF CallRows, Ask
<1>4. \A d \in wire' : CallRows(d, Screen(p), p.token, ss, wr)
  <2> HIDE DEF left, orders, keys
  <2> QED
    BY <1>1, <1>2, <1>3
<1>5. /\ p.token # 0 /\ Screen(p) = "pricing" /\ (moved \/ fresh \/ again) => orders \in wire'
      /\ p.token # 0 /\ Screen(p) = "api" /\ (moved \/ fresh) => keys \in wire'
  BY RenderCalls
<1>6. BringsOrders(orders) /\ BringsKeys(keys)
  BY DEF BringsOrders, BringsKeys, Ask
<1>7. ASSUME ~moved, ~fresh
      PROVE  /\ \A c \in w : BringsKeys(c) => \E d \in wire' : BringsKeys(d)
             /\ ~again => \A c \in w : BringsOrders(c) => \E d \in wire' : BringsOrders(d)
  BY <1>1, <1>7 DEF BringsKeys, BringsOrders, Kin
<1>8. ~moved /\ ~fresh => astray' = a
  BY DEF Render
<1>9. /\ ~moved /\ ~fresh /\ Screen(p) = "api" => ui'.rows = g.rows
      /\ ~moved /\ ~fresh /\ ~again => ui'.rows = g.rows
  BY RenderUi
<1> HIDE DEF moved, fresh, left, orders, keys
<1>10. OrdersAt(ui'.rows, wire', Screen(p), p.token, astray', ss, wr)
  <2>1. CASE moved \/ fresh \/ again
    BY <1>5, <1>6, <2>1 DEF OrdersAt
  <2>2. CASE ~moved /\ ~fresh /\ ~again
    <3>1. Screen(p) = Screen(app) /\ p.token = app.token
      BY <2>2 DEF moved, fresh
    <3> QED
      BY <1>7, <1>8, <1>9, <2>2, <3>1 DEF OrdersAt
  <2> QED
    BY <2>1, <2>2
<1>11. KeysAt(ui'.rows, wire', Screen(p), p.token, astray', ss, wr)
  <2>1. CASE moved \/ fresh
    BY <1>5, <1>6, <2>1 DEF KeysAt
  <2>2. CASE ~moved /\ ~fresh
    <3>1. Screen(p) = Screen(app) /\ p.token = app.token
      BY <2>2 DEF moved, fresh
    <3> QED
      BY <1>7, <1>8, <1>9, <2>2, <3>1 DEF KeysAt
  <2> QED
    BY <2>1, <2>2
<1> QED
  BY <1>4, <1>10, <1>11

\* A step of the page
LEMMA RowsPage ==
  ASSUME RowsInv, OwnInv', NEW p, NEW g, NEW w, NEW a, NEW again, UiShape(g, Len(sessions)),
         Calls(w, Len(sessions)), \A c \in w : CallRows(c, Screen(app), app.token, sessions, written),
         again \/ OrdersAt(g.rows, w, Screen(app), app.token, a, sessions, written),
         KeysAt(g.rows, w, Screen(app), app.token, a, sessions, written),
         Render(p, g, w, a, again), ByClient
  PROVE  RowsInv'
<1>1. /\ \A d \in wire' : CallRows(d, Screen(p), p.token, sessions, written)
      /\ OrdersAt(ui'.rows, wire', Screen(p), p.token, astray', sessions, written)
      /\ KeysAt(ui'.rows, wire', Screen(p), p.token, astray', sessions, written)
  BY RowsRender
<1>2. app' = p /\ sessions' = sessions /\ written' = written
  BY DEF Render, ByClient, server
<1>3. Screen(app)' = Screen(p)
  BY <1>2 DEF Screen
<1> QED
  BY <1>1, <1>2, <1>3 DEF RowsInv

\* What is on the screen and the calls that bring it are still there.
LEMMA RowsKept ==
  ASSUME RowsInv, NEW r, r = ui.rows, NEW w, NEW a, "rows" \in astray => "rows" \in a,
         \A e \in wire : BringsOrders(e) \/ BringsKeys(e) => e \in w
  PROVE  /\ OrdersAt(r, w, Screen(app), app.token, a, sessions, written)
         /\ KeysAt(r, w, Screen(app), app.token, a, sessions, written)
  BY RowsFacts DEF OrdersAt, KeysAt

\* A step of the page that adds no call but those of its effects, and takes
\* none away that brings rows
LEMMA RowsSame ==
  ASSUME RowsInv, OwnInv', NEW p, NEW g, NEW w, NEW a, NEW again, UiShape(g, Len(sessions)),
         Calls(w, Len(sessions)), \A c \in w : CallRows(c, Screen(app), app.token, sessions, written),
         Render(p, g, w, a, again), ByClient, g.rows = ui.rows, "rows" \in astray => "rows" \in a,
         \A e \in wire : BringsOrders(e) \/ BringsKeys(e) => e \in w
  PROVE  RowsInv'
<1>1. /\ OrdersAt(g.rows, w, Screen(app), app.token, a, sessions, written)
      /\ KeysAt(g.rows, w, Screen(app), app.token, a, sessions, written)
  BY RowsKept
<1> QED
  BY <1>1, RowsPage

LEMMA RowsSending ==
  ASSUME RowsInv, OwnInv', NEW g, NEW c, Sending(g, c)
  PROVE  RowsInv'
<1>1. /\ Render(app, g, wire \cup {c}, astray, FALSE) /\ ByClient
      /\ UiShape(g, Len(sessions)) /\ g.rows = ui.rows
      /\ CallShape(c, Len(sessions)) /\ CallTrue(c) /\ Asked(c)
  BY DEF Sending, Send, Alike
<1>2. Calls(wire \cup {c}, Len(sessions))
  BY <1>1, RowsFacts DEF Calls
<1>3. CallRows(c, Screen(app), app.token, sessions, written)
  BY <1>1 DEF Asked, CallRows, On
<1>4. \A e \in wire \cup {c} : CallRows(e, Screen(app), app.token, sessions, written)
  BY <1>3, RowsFacts
<1> DEFINE w == wire \cup {c}
<1>5. \A e \in wire : e \in w
  OBVIOUS
<1> HIDE DEF w
<1> QED
  BY <1>1, <1>2, <1>4, <1>5, RowsSame DEF w

LEMMA RowsReopen ==
  ASSUME RowsInv, OwnInv', NEW v \in {"landing", "docs"}, NEW calls, calls \subseteq {Ask("callback", 0, Nobody)},
         Reopen(v, calls)
  PROVE  RowsInv'
<1>1. /\ app' = Opened(v) /\ written' = written
      /\ wire' = LoadEffect(app', TRUE) \cup calls
  BY DEF Reopen, server
<1>2. Screen(app)' \notin {"pricing", "api"}
  BY <1>1 DEF Opened, Screen
<1>3. \A c \in wire' : c.kind \in {"load", "callback"} /\ c.at = "sent"
  BY <1>1 DEF LoadEffect, Ask
<1>4. \A c \in wire' : CallRows(c, Screen(app)', app'.token, sessions', written')
  BY <1>3 DEF CallRows
<1> QED
  BY <1>1, <1>2, <1>4, RowsFacts DEF RowsInv, OrdersAt, KeysAt

LEMMA RowsAct ==
  ASSUME RowsInv, OwnInv', Act
  PROVE  RowsInv'
<1>0. CheckInv
  BY RowsFacts
<1>1. ASSUME NEW p, NEW g, NEW a, Render(p, g, wire, a, FALSE), ByClient, UiShape(g, Len(sessions)),
             g.rows = ui.rows, "rows" \in astray => "rows" \in a
      PROVE  RowsInv'
  BY <1>1, RowsFacts, RowsSame
<1>2. ASSUME NEW v, Show(v)
      PROVE  RowsInv'
  BY <1>0, <1>1, <1>2, RowsFacts DEF Show
<1>3. CASE Logout
  BY <1>0, <1>1, <1>3, RowsFacts, LogoutDoes DEF Logout
<1>4. ASSUME NEW item, Select(item)
      PROVE  RowsInv'
  <2>1. Render(app, [ui EXCEPT !.selected = item], wire, astray \ {"detail"}, FALSE) /\ ByClient
    BY <1>4 DEF Select
  <2>2. UiShape([ui EXCEPT !.selected = item], Len(sessions)) /\ [ui EXCEPT !.selected = item].rows = ui.rows
    BY <1>0, SelectDoes
  <2> QED
    BY <1>1, <2>1, <2>2
<1>5. ASSUME NEW g, Set(g), UiShape(g, Len(sessions)), g.rows = ui.rows
      PROVE  RowsInv'
  BY <1>1, <1>5 DEF Set
<1>6. CASE Back
  BY <1>0, <1>5, <1>6, SelectDoes DEF Back
<1>7. ASSUME NEW m \in Modes, SwitchMode(m)
      PROVE  RowsInv'
  <2>1. UiShape([ui EXCEPT !.mode = m], Len(sessions)) /\ Alike([ui EXCEPT !.mode = m], ui)
    BY <1>0, AppFacts, AlikeUi
  <2>2. [ui EXCEPT !.mode = m].rows = ui.rows
    BY <2>1 DEF Alike
  <2>3. Set([ui EXCEPT !.mode = m])
    BY <1>7 DEF SwitchMode
  <2> QED
    BY <1>5, <2>1, <2>2, <2>3
<1>8. ASSUME NEW x \in Names, EditAlias(x)
      PROVE  RowsInv'
  BY <1>0, <1>5, <1>8, AliasDoes DEF EditAlias
<1>9. CASE On("pricing") /\ app.token = 0 /\ Set([ui EXCEPT !.rows = NoRows])
  <2> DEFINE g == [ui EXCEPT !.rows = NoRows]
  <2>1. UiShape(g, Len(sessions))
    BY <1>0, RowsDoes
  <2>2. Render(app, g, wire, astray, FALSE) /\ ByClient /\ app.token = 0
    BY <1>9 DEF Set
  <2> HIDE DEF g
  <2>3. /\ OrdersAt(g.rows, wire, Screen(app), app.token, astray, sessions, written)
        /\ KeysAt(g.rows, wire, Screen(app), app.token, astray, sessions, written)
    BY <2>2 DEF OrdersAt, KeysAt
  <2> QED
    BY <2>1, <2>2, <2>3, RowsFacts, RowsPage
<1>10. ASSUME NEW v \in {"landing", "docs"}, Reload(v)
       PROVE  RowsInv'
  BY <1>10, RowsReopen DEF Reload
<1> QED
  BY <1>0, <1>2, <1>3, <1>4, <1>6, <1>7, <1>8, <1>9, <1>10, ActDoes, RowsSending

\* The answer to a call that brings no rows is handled.
LEMMA RowsDone ==
  ASSUME RowsInv, OwnInv', NEW c \in wire, NEW p, NEW g, NEW a, UiShape(g, Len(sessions)),
         Done(c, p, g, a), g.rows = ui.rows, "rows" \in astray => "rows" \in a,
         ~BringsOrders(c), ~BringsKeys(c)
  PROVE  RowsInv'
<1>1. Render(p, Local(c, g), wire \ {c}, a, FALSE) /\ ByClient
  BY DEF Done
<1>2. UiShape(Local(c, g), Len(sessions)) /\ Local(c, g).rows = ui.rows
  BY RowsFacts DEF Local
<1>3. Calls(wire \ {c}, Len(sessions))
      /\ \A e \in wire \ {c} : CallRows(e, Screen(app), app.token, sessions, written)
  BY RowsFacts DEF Calls
<1> QED
  BY <1>1, <1>2, <1>3, RowsSame

LEMMA StrayRows ==
  ASSUME NEW s, NEW c, NEW items, "rows" \in s
  PROVE  /\ "rows" \in Detached(s, items) /\ "rows" \in Orphaned(s, c)
         /\ "rows" \in Full(s, c, {"gallery"}) /\ "rows" \in Full(s, c, {"session", "usage", "profile"})
         /\ "rows" \in Partial(s, c, {"gallery"}) /\ "rows" \in Partial(s, c, {"gallery", "detail"})
         /\ "rows" \in Partial(s \ {"profile"}, c, {"session", "profile"})
         /\ "rows" \in Checked(s, c, {"session", "profile"})
         /\ "rows" \in Checked(s, c, {"session", "usage", "gallery", "profile"})
  BY DEF Detached, Orphaned, Full, Checked, Partial

LEMMA RowsOther ==
  ASSUME RowsInv, OwnInv', NEW c \in wire,
         \/ SignedIn(c) \/ IFPayCallback(c) \/ AuthAnswered(c) \/ Loaded(c) \/ LoadFailed(c)
         \/ ImagesAnswered(c) \/ MeAnswered(c) \/ DeleteAnswered(c) \/ ToggleAnswered(c)
         \/ Imported(c) \/ ProfileSaved(c) \/ Failed(c)
  PROVE  RowsInv'
<1>0. CheckInv /\ UiShape(ui, Len(sessions))
  BY RowsFacts
<1>1. \E p, g, a : /\ Done(c, p, g, a) /\ UiShape(g, Len(sessions)) /\ g.rows = ui.rows
                   /\ "rows" \in astray => "rows" \in a
  <2>1. CASE SignedIn(c)
    BY <1>0, <2>1, SignedInDoes, StrayRows DEF Alike
  <2>2. CASE IFPayCallback(c)
    <3> DEFINE s == IF app.usage \in {Nobody, c.got.user.of} THEN astray ELSE astray \cup {"usage"}
    <3>1. "rows" \in astray => "rows" \in Checked(s, c, {"session", "profile"})
      BY StrayRows
    <3> QED
      BY <1>0, <2>2, <3>1, CallbackDoes
  <2>3. CASE AuthAnswered(c)
    BY <1>0, <2>3, AuthDoes
  <2>4. CASE Loaded(c)
    <3>1. CASE c.live
      BY <1>0, <2>4, <3>1, LoadedDoes, StrayRows
    <3>2. CASE ~c.live
      BY <1>0, <2>4, <3>2 DEF Loaded
    <3> QED
      BY <3>1, <3>2
  <2>5. CASE LoadFailed(c)
    BY <1>0, <2>5, LoadFailedDoes
  <2>6. CASE ImagesAnswered(c)
    BY <1>0, <2>6, ImagesDoes, StrayRows
  <2>7. CASE MeAnswered(c)
    BY <1>0, <2>7, MeDoes, StrayRows
  <2>8. CASE DeleteAnswered(c)
    BY <1>0, <2>8, DeleteDoes, StrayRows
  <2>9. CASE ToggleAnswered(c)
    <3> DEFINE a == Partial(Orphaned(astray, c), c, {"gallery", "detail"})
    <3>1. PICK g, p : UiShape(g, Len(sessions)) /\ g.rows = ui.rows /\ Done(c, p, g, a)
      BY <1>0, <2>9, ToggledDoes
    <3>2. "rows" \in astray => "rows" \in a
      BY StrayRows
    <3> HIDE DEF a
    <3> QED
      BY <3>1, <3>2
  <2>10. CASE Imported(c)
    BY <1>0, <2>10 DEF Imported
  <2>11. CASE ProfileSaved(c)
    BY <1>0, <2>11, ProfileDoes, StrayRows
  <2>12. CASE Failed(c)
    BY <1>0, <2>12, FailedDoes DEF Alike
  <2> QED
    BY <2>1, <2>2, <2>3, <2>4, <2>5, <2>6, <2>7, <2>8, <2>9, <2>10, <2>11, <2>12
<1>2. ~BringsOrders(c) /\ ~BringsKeys(c)
  BY DEF BringsOrders, BringsKeys, SignedIn, IFPayCallback, AuthAnswered, Loaded, LoadFailed,
         ImagesAnswered, MeAnswered, DeleteAnswered, ToggleAnswered, Imported, ProfileSaved, Failed, Answered
<1> QED
  BY <1>1, <1>2, RowsDone

\* An answer that brings rows, or fails to
LEMMA RowsBrought ==
  ASSUME RowsInv, OwnInv', NEW c \in wire, NEW g, NEW a, UiShape(g, Len(sessions)), Done(c, app, g, a),
         ~c.live => a = astray /\ c.kind \in Reads,
         c.live => /\ OrdersAt(g.rows, wire \ {c}, Screen(app), app.token, a, sessions, written)
                   /\ KeysAt(g.rows, wire \ {c}, Screen(app), app.token, a, sessions, written)
  PROVE  RowsInv'
<1>1. CASE c.live
  <2>1. Render(app, g, wire \ {c}, a, FALSE) /\ ByClient
    BY <1>1 DEF Done, Local
  <2>2. Calls(wire \ {c}, Len(sessions))
        /\ \A e \in wire \ {c} : CallRows(e, Screen(app), app.token, sessions, written)
    BY RowsFacts DEF Calls
  <2> QED
    BY <1>1, <2>1, <2>2, RowsPage
<1>2. CASE ~c.live
  <2>1. Done(c, app, ui, a)
    BY <1>2 DEF Done, Local
  <2>2. ~BringsOrders(c) /\ ~BringsKeys(c) /\ a = astray
    BY <1>2 DEF BringsOrders, BringsKeys, Reads
  <2> QED
    BY <2>1, <2>2, RowsFacts, RowsDone
<1> QED
  BY <1>1, <1>2

\* What a list answer that the view takes says of the rows
LEMMA RowsFresh ==
  ASSUME RowsInv, NEW c \in wire, c.at = "ok", c.live, NEW a,
         \/ c.kind = "orders" /\ a = Checked(astray, c, {"rows"})
         \/ c.kind \in {"reorders", "keys"} /\ a = Full(astray, c, {"rows"}),
         "rows" \notin a
  PROVE  /\ ~c.stale /\ AcctOf(sessions, c.tok) = AcctOf(sessions, app.token)
         /\ c.kind \in {"orders", "reorders"} =>
              Screen(app) = "pricing" /\ c.got.rows = RowsOf(written, AcctOf(sessions, app.token), "orders")
         /\ c.kind = "keys" =>
              Screen(app) = "api" /\ c.got.rows = RowsOf(written, AcctOf(sessions, app.token), "keys")
<1>1. ~Late(c, "rows") /\ (c.kind \in {"reorders", "keys"} => ~Foreign(c))
  BY DEF Checked, Full, Partial
<1>2. ~c.stale
  BY <1>1 DEF Late
<1>3. CallRows(c, Screen(app), app.token, sessions, written)
  BY RowsFacts
<1>4. AcctOf(sessions, c.tok) = AcctOf(sessions, app.token)
  <2>1. CASE c.kind = "orders"
    BY <1>3, <2>1 DEF CallRows
  <2>2. CASE c.kind \in {"reorders", "keys"}
    <3>1. About(c) = Acct(app.token)
      BY <1>1, <2>2 DEF Foreign
    <3>2. About(c) = Acct(c.tok)
      BY <2>2, RowsFacts, OwnAnswer
    <3> QED
      BY <3>1, <3>2, AcctIs
  <2> QED
    BY <2>1, <2>2
<1> QED
  BY <1>2, <1>3, <1>4 DEF CallRows

LEMMA RowsOrders ==
  ASSUME RowsInv, OwnInv', NEW c \in wire, OrdersAnswered(c)
  PROVE  RowsInv'
<1> DEFINE g == [ui EXCEPT !.rows = c.got.rows, !.loading = FALSE]
           a == IF ~c.live THEN astray
                ELSE IF c.at = "failed" THEN astray \cup {"rows"}
                ELSE IF c.kind = "orders" THEN Checked(astray, c, {"rows"}) ELSE Full(astray, c, {"rows"})
<1>1. Done(c, app, g, a) /\ c.at \in {"ok", "failed"} /\ c.kind \in {"orders", "reorders"}
  BY DEF OrdersAnswered
<1>2. UiShape(g, Len(sessions)) /\ g.rows = c.got.rows
  BY RowsFacts, ListDoes
<1> HIDE DEF g
<1>3. ~c.live => a = astray /\ c.kind \in Reads
  BY <1>1 DEF Reads
<1>4. ASSUME c.live, "rows" \notin a
      PROVE  Screen(app) = "pricing" /\ g.rows = RowsOf(written, AcctOf(sessions, app.token), "orders")
  <2>1. c.at = "ok"
    BY <1>1, <1>4
  <2>2. \/ c.kind = "orders" /\ a = Checked(astray, c, {"rows"})
        \/ c.kind \in {"reorders", "keys"} /\ a = Full(astray, c, {"rows"})
    BY <1>1, <1>4, <2>1
  <2> HIDE DEF a
  <2> QED
    BY <1>1, <1>2, <1>4, <2>1, <2>2, RowsFresh
<1> HIDE DEF a
<1>5. c.live => /\ OrdersAt(g.rows, wire \ {c}, Screen(app), app.token, a, sessions, written)
                /\ KeysAt(g.rows, wire \ {c}, Screen(app), app.token, a, sessions, written)
  BY <1>4 DEF OrdersAt, KeysAt
<1> QED
  BY <1>1, <1>2, <1>3, <1>5, RowsBrought

LEMMA RowsKeys ==
  ASSUME RowsInv, OwnInv', NEW c \in wire, KeysAnswered(c)
  PROVE  RowsInv'
<1> DEFINE h == [ui EXCEPT !.rows = c.got.rows]
           g == IF c.at = "ok" THEN h ELSE ui
           a == IF ~c.live THEN astray
                ELSE IF c.at = "ok" THEN Full(astray, c, {"rows"})
                ELSE astray \cup {"rows"}
<1>1. Done(c, app, g, a) /\ c.at \in {"ok", "failed"} /\ c.kind = "keys"
  BY DEF KeysAnswered
<1>2. UiShape(h, Len(sessions)) /\ h.rows = c.got.rows
  BY RowsFacts, RowsDoes
<1> HIDE DEF h
<1>3. UiShape(g, Len(sessions)) /\ (c.at = "ok" => g.rows = c.got.rows)
  BY <1>2, RowsFacts
<1> HIDE DEF g
<1>4. ~c.live => a = astray /\ c.kind \in Reads
  BY <1>1 DEF Reads
<1>5. ASSUME c.live, "rows" \notin a
      PROVE  Screen(app) = "api" /\ g.rows = RowsOf(written, AcctOf(sessions, app.token), "keys")
  <2>1. c.at = "ok" /\ a = Full(astray, c, {"rows"})
    BY <1>5
  <2> HIDE DEF a
  <2> QED
    BY <1>1, <1>3, <1>5, <2>1, RowsFresh
<1> HIDE DEF a
<1>6. c.live => /\ OrdersAt(g.rows, wire \ {c}, Screen(app), app.token, a, sessions, written)
                /\ KeysAt(g.rows, wire \ {c}, Screen(app), app.token, a, sessions, written)
  BY <1>5 DEF OrdersAt, KeysAt
<1> QED
  BY <1>1, <1>3, <1>4, <1>6, RowsBrought

LEMMA RowsUpload ==
  ASSUME RowsInv, OwnInv', NEW c \in wire, UploadAnswered(c)
  PROVE  RowsInv'
<1>1. PICK d : /\ Render(app, ui, (wire \ {c}) \cup {d}, astray, FALSE)
               /\ CallShape(d, Len(sessions)) /\ CallTrue(d)
               /\ d.kind = c.kind /\ d.tok = c.tok /\ d.arg = c.arg /\ d.want = c.want
               /\ d.live = c.live /\ d.stale = c.stale /\ d.at = "timer" /\ d.got = c.got
  BY RowsFacts, UploadDoes
<1>2. ByClient /\ c.kind = "upload"
  BY DEF UploadAnswered, Answered
<1> DEFINE w == (wire \ {c}) \cup {d}
<1>3. Calls(w, Len(sessions))
  BY <1>1, RowsFacts DEF Calls
<1>4. CallRows(d, Screen(app), app.token, sessions, written)
  BY <1>1, <1>2 DEF CallRows
<1>5. \A e \in w : CallRows(e, Screen(app), app.token, sessions, written)
  BY <1>4, RowsFacts
<1>6. \A e \in wire : BringsOrders(e) \/ BringsKeys(e) => e \in w
  BY <1>2 DEF BringsOrders, BringsKeys
<1> HIDE DEF w
<1>7. Render(app, ui, w, astray, FALSE)
  BY <1>1 DEF w
<1> QED
  BY <1>2, <1>3, <1>5, <1>6, <1>7, RowsFacts, RowsSame

LEMMA RowsShown ==
  ASSUME RowsInv, OwnInv', NEW c \in wire, UploadShown(c)
  PROVE  RowsInv'
<1> DEFINE x == Ask("images", c.tok, Nobody)
           y == Ask("me", c.tok, Nobody)
           w == (wire \ {c}) \cup {x, y}
           p == AppRec("gallery", app.user, app.usage, app.token, app.ifpay, app.gallery \cup c.got.items)
           a == Partial(astray, c, {"gallery"})
<1>1. PICK g : UiShape(g, Len(sessions)) /\ Alike(g, ui) /\ Render(p, Local(c, g), w, a, FALSE)
  BY RowsFacts, ShownDoes
<1> HIDE DEF p
<1>2. Calls(w, Len(sessions)) /\ c.kind = "upload" /\ ByClient
  BY RowsFacts, RefreshCalls DEF UploadShown
<1>3. /\ CallRows(x, Screen(app), app.token, sessions, written)
      /\ CallRows(y, Screen(app), app.token, sessions, written)
  BY DEF CallRows, Ask
<1> HIDE DEF x, y
<1>4. \A e \in w : CallRows(e, Screen(app), app.token, sessions, written)
  BY <1>3, RowsFacts
<1>5. \A e \in wire : BringsOrders(e) \/ BringsKeys(e) => e \in w
  BY <1>2 DEF BringsOrders, BringsKeys
<1> HIDE DEF w
<1>6. UiShape(Local(c, g), Len(sessions)) /\ Local(c, g).rows = ui.rows
  BY <1>1, RowsFacts DEF Local, Alike
<1>7. "rows" \in astray => "rows" \in a
  BY StrayRows
<1> HIDE DEF a
<1> QED
  BY <1>1, <1>2, <1>4, <1>5, <1>6, <1>7, RowsSame

LEMMA RowsCheckedOut ==
  ASSUME RowsInv, OwnInv', NEW c \in wire, CheckedOut(c)
  PROVE  RowsInv'
<1>1. PICK g : UiShape(g, Len(sessions)) /\ Alike(g, ui) /\ Render(app, Local(c, g), wire \ {c}, astray, TRUE)
  BY RowsFacts, CheckedOutDoes
<1>2. ByClient /\ c.kind = "checkout"
  BY DEF CheckedOut, Answered
<1>3. UiShape(Local(c, g), Len(sessions)) /\ Local(c, g).rows = ui.rows
  BY <1>1, RowsFacts DEF Local, Alike
<1>4. Calls(wire \ {c}, Len(sessions))
      /\ \A e \in wire \ {c} : CallRows(e, Screen(app), app.token, sessions, written)
  BY RowsFacts DEF Calls
<1>5. ~BringsKeys(c)
  BY <1>2 DEF BringsKeys
<1>6. KeysAt(Local(c, g).rows, wire \ {c}, Screen(app), app.token, astray, sessions, written)
  BY <1>3, <1>5, RowsFacts DEF KeysAt
<1> QED
  BY <1>1, <1>2, <1>3, <1>4, <1>6, RowsPage

LEMMA RowsWritten ==
  ASSUME RowsInv, OwnInv', NEW c \in wire, KeyWritten(c)
  PROVE  RowsInv'
<1> DEFINE a == IF c.live THEN astray ELSE astray \cup {"rows"}
<1>1. PICK d : /\ Render(app, ui, (wire \ {c}) \cup {d}, a, FALSE)
               /\ CallShape(d, Len(sessions)) /\ CallTrue(d)
               /\ d.kind = "keys" /\ d.tok = c.tok /\ d.arg = Nobody /\ d.want = FALSE
               /\ d.live = c.live /\ d.stale = FALSE /\ d.at = "sent" /\ d.got = NoAnswer
  BY RowsFacts, KeyDoes
<1>2. ByClient /\ c.at = "ok" /\ c.kind \in {"create", "revoke"}
  BY DEF KeyWritten, Answered
<1> DEFINE w == (wire \ {c}) \cup {d}
<1>3. Calls(w, Len(sessions))
  BY <1>1, RowsFacts DEF Calls
<1>4. CallRows(c, Screen(app), app.token, sessions, written)
  BY RowsFacts
<1>5. c.tok # 0 /\ (c.live => Screen(app) = "api")
  BY <1>2, <1>4 DEF CallRows
<1>6. CallRows(d, Screen(app), app.token, sessions, written)
  BY <1>1, <1>5 DEF CallRows
<1>7. \A e \in w : CallRows(e, Screen(app), app.token, sessions, written)
  BY <1>6, RowsFacts
<1>8. "rows" \notin a => c.live /\ d \in w /\ BringsKeys(d)
  BY <1>1 DEF BringsKeys
<1>9. Render(app, ui, w, a, FALSE)
  BY <1>1
<1> HIDE DEF w, a
<1>10. /\ OrdersAt(ui.rows, w, Screen(app), app.token, a, sessions, written)
       /\ KeysAt(ui.rows, w, Screen(app), app.token, a, sessions, written)
  BY <1>5, <1>8 DEF OrdersAt, KeysAt
<1> QED
  BY <1>2, <1>3, <1>7, <1>9, <1>10, RowsFacts, RowsPage

LEMMA RowsAnswered ==
  ASSUME RowsInv, OwnInv', NEW c \in wire, Answer(c)
  PROVE  RowsInv'
<1>1. ASSUME OAuthStarted(c)
      PROVE  RowsInv'
  BY <1>1, RowsReopen DEF OAuthStarted
<1> QED
  BY <1>1, RowsOther, RowsOrders, RowsKeys, RowsUpload, RowsShown, RowsCheckedOut, RowsWritten DEF Answer

\* A call whose rows stay what they are
LEMMA CallRowsLater ==
  ASSUME NEW n, NEW ss, NEW later, Grows(ss, later, n), NEW e, CallShape(e, n), NEW d, Kin(e, d),
         d.live = e.live, ~d.stale => ~e.stale, NEW s, NEW t, NEW wr, NEW wr2, CallRows(e, s, t, ss, wr),
         /\ e.at = "ok" /\ ~d.stale /\ e.kind \in {"orders", "reorders"} =>
              RowsOf(wr2, AcctOf(ss, e.tok), "orders") = RowsOf(wr, AcctOf(ss, e.tok), "orders")
         /\ e.at = "ok" /\ ~d.stale /\ e.kind = "keys" =>
              RowsOf(wr2, AcctOf(ss, e.tok), "keys") = RowsOf(wr, AcctOf(ss, e.tok), "keys")
  PROVE  CallRows(d, s, t, later, wr2)
<1>1. AcctOf(later, e.tok) = AcctOf(ss, e.tok)
  BY DEF CallShape, Grows
<1> QED
  BY <1>1 DEF CallRows, Kin

\* The calls that bring rows are still there after the server's step.
LEMMA StillBrings ==
  ASSUME NEW n, Calls(wire, n), NEW c \in wire, c.at = "sent", NEW got,
         \A e \in wire \ {c} : \E d \in wire' : Kin(e, d) /\ d.live = e.live,
         Ok(c, got) \in wire' \/ Lost(c) \in wire'
  PROVE  \A e \in wire : /\ BringsOrders(e) => \E d \in wire' : BringsOrders(d)
                         /\ BringsKeys(e) => \E d \in wire' : BringsKeys(d)
<1>1. ASSUME NEW e \in wire \ {c}
      PROVE  /\ BringsOrders(e) => \E d \in wire' : BringsOrders(d)
             /\ BringsKeys(e) => \E d \in wire' : BringsKeys(d)
  BY <1>1 DEF BringsOrders, BringsKeys, Kin
<1>2. CallShape(c, n)
  BY DEF Calls
<1>3. /\ BringsOrders(c) => BringsOrders(Ok(c, got)) /\ BringsOrders(Lost(c))
      /\ BringsKeys(c) => BringsKeys(Ok(c, got)) /\ BringsKeys(Lost(c))
  BY <1>2, OkFields, LostFields DEF BringsOrders, BringsKeys
<1> QED
  BY <1>1, <1>3

LEMMA RowsServed ==
  ASSUME RowsInv, OwnInv', ByServer, written' \in [Accounts -> [Lists -> Nat]],
         \A d \in wire' : CallRows(d, Screen(app), app.token, sessions', written'),
         OrdersAt(ui.rows, wire', Screen(app), app.token, astray', sessions', written'),
         KeysAt(ui.rows, wire', Screen(app), app.token, astray', sessions', written')
  PROVE  RowsInv'
<1>1. app' = app /\ ui' = ui
  BY DEF ByServer
<1>2. Screen(app)' = Screen(app)
  BY <1>1 DEF Screen
<1> QED
  BY <1>1, <1>2 DEF RowsInv

\* The server does not write orders or keys.
LEMMA RowsQuiet ==
  ASSUME RowsInv, OwnInv', NEW c \in wire, NEW got, c.at = "sent", ByServer,
         Grows(sessions, sessions', Len(sessions)), written' = written, astray \subseteq astray',
         CallRows(Ok(c, got), Screen(app), app.token, sessions', written),
         CallRows(Lost(c), Screen(app), app.token, sessions', written),
         \A e \in wire \ {c} : \E d \in wire' : Kin(e, d) /\ d.live = e.live,
         \A d \in wire' : \/ \E e \in wire \ {c} : Kin(e, d) /\ d.live = e.live /\ (~d.stale => ~e.stale)
                          \/ d = Ok(c, got) \/ d = Lost(c),
         Ok(c, got) \in wire' \/ Lost(c) \in wire'
  PROVE  RowsInv'
<1>1. \A d \in wire' : CallRows(d, Screen(app), app.token, sessions', written)
  <2>1. ASSUME NEW d \in wire'
        PROVE  CallRows(d, Screen(app), app.token, sessions', written)
    <3>1. CASE \E e \in wire \ {c} : Kin(e, d) /\ d.live = e.live /\ (~d.stale => ~e.stale)
      <4>1. PICK e \in wire \ {c} : Kin(e, d) /\ d.live = e.live /\ (~d.stale => ~e.stale)
        BY <3>1
      <4>2. CallShape(e, Len(sessions)) /\ CallRows(e, Screen(app), app.token, sessions, written)
        BY RowsFacts DEF Calls
      <4> QED
        BY <4>1, <4>2, CallRowsLater
    <3> QED
      BY <2>1, <3>1
  <2> QED
    BY <2>1
<1>2. \A e \in wire : /\ BringsOrders(e) => \E d \in wire' : BringsOrders(d)
                      /\ BringsKeys(e) => \E d \in wire' : BringsKeys(d)
  BY RowsFacts, StillBrings
<1>3. AcctOf(sessions', app.token) = AcctOf(sessions, app.token)
  BY RowsFacts, PageFacts DEF Grows
<1>4. /\ OrdersAt(ui.rows, wire', Screen(app), app.token, astray', sessions', written)
      /\ KeysAt(ui.rows, wire', Screen(app), app.token, astray', sessions', written)
  BY <1>2, <1>3, RowsFacts DEF OrdersAt, KeysAt
<1> QED
  BY <1>1, <1>4, RowsFacts, RowsServed

\* An answer that brings no rows, and one that is lost, say nothing of them.
LEMMA RowsOkLost ==
  ASSUME NEW n, NEW c, CallShape(c, n), c.at = "sent", NEW got, NEW s, NEW t, NEW ss, NEW later, NEW wr, NEW wr2,
         CallRows(c, s, t, ss, wr)
  PROVE  /\ CallRows(Lost(c), s, t, later, wr2)
         /\ c.kind \notin {"orders", "reorders", "keys"} /\ (c.kind \in {"create", "revoke"} => c.tok # 0) =>
              CallRows(Ok(c, got), s, t, later, wr2)
<1>1. CallRows(Lost(c), s, t, later, wr2)
  BY LostFields DEF CallRows
<1>2. ASSUME c.kind \notin {"orders", "reorders", "keys"}, c.kind \in {"create", "revoke"} => c.tok # 0
      PROVE  CallRows(Ok(c, got), s, t, later, wr2)
  BY <1>2, OkFields DEF CallRows
<1> QED
  BY <1>1, <1>2

LEMMA RowsReply ==
  ASSUME RowsInv, OwnInv', NEW c \in wire, NEW got, NEW x, NEW a, c.at = "sent", ByServer,
         Grows(sessions, sessions', Len(sessions)), written' = written, Reply(c, got, x, a),
         c.kind \notin {"orders", "reorders", "keys", "create", "revoke"}
  PROVE  RowsInv'
<1>1. Calls(wire, Len(sessions))
  BY RowsFacts
<1>2. \A e \in wire \ {c} : \E d \in wire' : Aged(e, d, x, a, c.arg)
  BY <1>1, ReplyWire
<1>3. \A d \in wire' : \/ \E e \in wire \ {c} : Aged(e, d, x, a, c.arg)
                       \/ d = Ok(c, got) \/ d = Lost(c)
  BY <1>1, ReplyWire
<1>4. \A e \in wire \ {c} : \E d \in wire' : Kin(e, d) /\ d.live = e.live
  BY <1>2 DEF Aged
<1>5. \A d \in wire' : \/ \E e \in wire \ {c} : Kin(e, d) /\ d.live = e.live /\ (~d.stale => ~e.stale)
                       \/ d = Ok(c, got) \/ d = Lost(c)
  BY <1>3 DEF Aged
<1>6. (Ok(c, got) \in wire' \/ Lost(c) \in wire') /\ astray \subseteq astray'
  BY ReplyOutcome
<1>7. CallShape(c, Len(sessions)) /\ CallRows(c, Screen(app), app.token, sessions, written)
  BY <1>1, RowsFacts DEF Calls
<1>8. /\ CallRows(Ok(c, got), Screen(app), app.token, sessions', written)
      /\ CallRows(Lost(c), Screen(app), app.token, sessions', written)
  BY <1>7, RowsOkLost
<1> QED
  BY <1>4, <1>5, <1>6, <1>8, RowsQuiet

LEMMA RowsRead ==
  ASSUME RowsInv, OwnInv', NEW c \in wire, ServeRead(c)
  PROVE  RowsInv'
<1> DEFINE a == Acct(c.tok)
           full == [user |-> IF c.kind \in {"load", "me"} THEN Me(a) ELSE NoUser,
                    items |-> IF c.kind \in {"load", "images"} THEN List(a) ELSE {},
                    rows |-> CASE c.kind = "keys" -> Rows(a, "keys")
                               [] c.kind \in {"orders", "reorders"} -> Rows(a, "orders")
                               [] OTHER -> NoRows,
                    tok |-> 0]
<1>1. /\ c.kind \in Reads /\ c.at = "sent" /\ ByServer /\ sessions' = sessions /\ astray' = astray
      /\ written' = written /\ wire' = (wire \ {c}) \cup {Ok(c, full)}
  BY DEF ServeRead, Served, server, Ok
<1>2. /\ c.kind = "keys" => full.rows = Rows(a, "keys")
      /\ c.kind \in {"orders", "reorders"} => full.rows = Rows(a, "orders")
  OBVIOUS
<1> HIDE DEF full
<1>3. /\ c.kind = "keys" => full.rows = RowsOf(written, AcctOf(sessions, c.tok), "keys")
      /\ c.kind \in {"orders", "reorders"} => full.rows = RowsOf(written, AcctOf(sessions, c.tok), "orders")
  BY <1>2, AcctIs DEF Rows, RowsOf
<1>4. CallShape(c, Len(sessions)) /\ CallRows(c, Screen(app), app.token, sessions, written)
  BY RowsFacts DEF Calls
<1>5. CallRows(Ok(c, full), Screen(app), app.token, sessions, written)
  BY <1>1, <1>3, <1>4, OkFields DEF CallRows, Reads
<1>6. CallRows(Lost(c), Screen(app), app.token, sessions, written)
  BY <1>1, <1>4, RowsOkLost
<1>7. /\ \A e \in wire \ {c} : \E d \in wire' : Kin(e, d) /\ d.live = e.live
      /\ \A d \in wire' : \/ \E e \in wire \ {c} : Kin(e, d) /\ d.live = e.live /\ (~d.stale => ~e.stale)
                          \/ d = Ok(c, full) \/ d = Lost(c)
      /\ Ok(c, full) \in wire'
  BY <1>1 DEF Kin
<1> QED
  BY <1>1, <1>5, <1>6, <1>7, GrowsSame, RowsQuiet

LEMMA RowsRefuse ==
  ASSUME RowsInv, OwnInv', NEW c \in wire, Refuse(c)
  PROVE  RowsInv'
<1>1. /\ ByServer /\ sessions' = sessions /\ astray' = astray /\ written' = written /\ c.at = "sent"
      /\ wire' = (wire \ {c}) \cup {Lost(c)}
  BY DEF Refuse, server, Lost
<1>2. CallShape(c, Len(sessions)) /\ CallRows(c, Screen(app), app.token, sessions, written)
  BY RowsFacts DEF Calls
<1>3. CallRows(Lost(c), Screen(app), app.token, sessions, written)
  BY <1>1, <1>2, RowsOkLost
<1>4. \A d \in wire' : CallRows(d, Screen(app), app.token, sessions', written')
  BY <1>1, <1>3, RowsFacts
<1>5. \A e \in wire \ {c} : \E d \in wire' : Kin(e, d) /\ d.live = e.live
  BY <1>1 DEF Kin
<1>6. \A e \in wire : /\ BringsOrders(e) => \E d \in wire' : BringsOrders(d)
                      /\ BringsKeys(e) => \E d \in wire' : BringsKeys(d)
  BY <1>1, <1>5, RowsFacts, StillBrings
<1>7. /\ OrdersAt(ui.rows, wire', Screen(app), app.token, astray', sessions', written')
      /\ KeysAt(ui.rows, wire', Screen(app), app.token, astray', sessions', written')
  BY <1>1, <1>6, RowsFacts DEF OrdersAt, KeysAt
<1> QED
  BY <1>1, <1>4, <1>7, RowsFacts, RowsServed

\* One more order, or change of a key
LEMMA Written ==
  ASSUME NEW wr \in [Accounts -> [Lists -> Nat]], NEW b \in Accounts, NEW l \in Lists, NEW wr2,
         wr2 = [wr EXCEPT ![b][l] = @ + 1]
  PROVE  /\ wr2 \in [Accounts -> [Lists -> Nat]]
         /\ \A x \in Accounts : x # b => wr2[x] = wr[x]
         /\ \A k \in Lists : k # l => wr2[b][k] = wr[b][k]
<1>1. wr[b] \in [Lists -> Nat] /\ wr[b][l] + 1 \in Nat
  OBVIOUS
<1> DEFINE f == [wr[b] EXCEPT ![l] = wr[b][l] + 1]
<1>2. f \in [Lists -> Nat] /\ \A k \in Lists : k # l => f[k] = wr[b][k]
  BY <1>1
<1>3. wr2 = [wr EXCEPT ![b] = f]
  OBVIOUS
<1> HIDE DEF f
<1> QED
  BY <1>2, <1>3

LEMMA RowsWrite ==
  ASSUME RowsInv, OwnInv', NEW c \in wire, ServeWrite(c)
  PROVE  RowsInv'
<1> DEFINE b == AcctOf(sessions, c.tok)
           l == IF c.kind = "checkout" THEN "orders" ELSE "keys"
           at == Screen(app)
           t == app.token
<1>1. /\ c.at = "sent" /\ c.kind \in {"checkout", "create", "revoke"} /\ c.tok # 0 /\ ByServer
      /\ sessions' = sessions /\ written' = [written EXCEPT ![b][l] = @ + 1]
      /\ Reply(c, NoAnswer, "rows", b)
  BY AcctIs DEF ServeWrite, Served
<1>2. Calls(wire, Len(sessions)) /\ CallShape(c, Len(sessions)) /\ CallRows(c, at, t, sessions, written)
  BY RowsFacts DEF Calls
<1>3. b \in Accounts /\ l \in Lists
  BY <1>1, RowsFacts, OwnCall DEF Lists
<1>4. /\ written' \in [Accounts -> [Lists -> Nat]]
      /\ \A x \in Accounts : x # b => written'[x] = written[x]
      /\ \A k \in Lists : k # l => written'[b][k] = written[b][k]
  BY <1>1, <1>3, RowsFacts, Written
<1>5. \A d \in wire' : \/ \E e \in wire \ {c} : Aged(e, d, "rows", b, c.arg)
                       \/ d = Ok(c, NoAnswer) \/ d = Lost(c)
  BY <1>1, <1>2, ReplyWire
<1>6. /\ CallRows(Ok(c, NoAnswer), at, t, sessions', written')
      /\ CallRows(Lost(c), at, t, sessions', written')
  BY <1>1, <1>2, RowsOkLost
<1>7. ASSUME NEW e \in wire \ {c}, NEW d, Aged(e, d, "rows", b, c.arg)
      PROVE  CallRows(d, at, t, sessions', written')
  <2>1. CallShape(e, Len(sessions)) /\ CallRows(e, at, t, sessions, written)
    BY <1>2, RowsFacts DEF Calls
  <2>2. Kin(e, d) /\ d.live = e.live /\ (~d.stale => ~e.stale /\ ~Outdates(e, "rows", b, c.arg))
    BY <1>7 DEF Aged
  <2>3. ASSUME e.at = "ok", ~d.stale, e.kind \in {"orders", "reorders", "keys"}
        PROVE  AcctOf(sessions, e.tok) \in Accounts /\ AcctOf(sessions, e.tok) # b
    <3>1. "rows" \in Carries(e.kind)
      BY <2>3 DEF Carries
    <3>2. About(e) # b
      BY <2>2, <2>3, <3>1 DEF Outdates
    <3>3. About(e) = AcctOf(sessions, e.tok)
      BY <2>3, RowsFacts, OwnAnswer, AcctIs
    <3>4. e.tok # 0
      BY <2>1, <2>3 DEF CallRows
    <3> QED
      BY <3>2, <3>3, <3>4, RowsFacts, OwnCall
  <2>4. /\ e.at = "ok" /\ ~d.stale /\ e.kind \in {"orders", "reorders"} =>
             RowsOf(written', AcctOf(sessions, e.tok), "orders") = RowsOf(written, AcctOf(sessions, e.tok), "orders")
        /\ e.at = "ok" /\ ~d.stale /\ e.kind = "keys" =>
             RowsOf(written', AcctOf(sessions, e.tok), "keys") = RowsOf(written, AcctOf(sessions, e.tok), "keys")
    BY <1>4, <2>3 DEF RowsOf
  <2>5. Grows(sessions, sessions', Len(sessions))
    BY <1>1 DEF Grows
  <2> QED
    BY <2>1, <2>2, <2>4, <2>5, CallRowsLater
<1>8. \A d \in wire' : CallRows(d, at, t, sessions', written')
  BY <1>5, <1>6, <1>7
<1>9. \A e \in wire : /\ BringsOrders(e) => \E d \in wire' : BringsOrders(d)
                      /\ BringsKeys(e) => \E d \in wire' : BringsKeys(d)
  <2>1. \A e \in wire \ {c} : \E d \in wire' : Aged(e, d, "rows", b, c.arg)
    BY <1>1, <1>2, ReplyWire
  <2>2. \A e \in wire \ {c} : \E d \in wire' : Kin(e, d) /\ d.live = e.live
    BY <2>1 DEF Aged
  <2>3. Ok(c, NoAnswer) \in wire' \/ Lost(c) \in wire'
    BY <1>1, ReplyOutcome
  <2> QED
    BY <1>1, <1>2, <2>2, <2>3, StillBrings
<1>10. \/ Ok(c, NoAnswer) \in wire' /\ astray' = astray
       \/ "rows" \in astray'
  <2> HIDE DEF b, l, at, t
  <2>1. \/ Ok(c, NoAnswer) \in wire' /\ astray' = astray
        \/ astray' = astray \cup ({"rows"} \cap Topics)
    BY <1>1, ReplyOutcome
  <2>2. "rows" \in Topics
    BY DEF Topics
  <2> QED
    BY <2>1, <2>2
<1>11. /\ c.kind = "checkout" => BringsOrders(Ok(c, NoAnswer))
       /\ c.kind # "checkout" => BringsKeys(Ok(c, NoAnswer))
  BY <1>1, <1>2, OkFields DEF BringsOrders, BringsKeys
<1>12. t # 0 => AcctOf(sessions, t) \in Accounts
  BY RowsFacts, PageFacts, OwnCall DEF AcctOf
<1>13. OrdersAt(ui.rows, wire', at, t, astray', sessions', written')
  <2>1. CASE c.kind = "checkout"
    BY <1>10, <1>11, <2>1 DEF OrdersAt
  <2>2. CASE c.kind # "checkout"
    <3>1. t # 0 => RowsOf(written', AcctOf(sessions, t), "orders") = RowsOf(written, AcctOf(sessions, t), "orders")
      BY <1>4, <1>12, <2>2 DEF RowsOf, Lists
    <3>2. OrdersAt(ui.rows, wire, at, t, astray, sessions, written)
      BY RowsFacts
    <3> QED
      BY <1>1, <1>9, <1>10, <3>1, <3>2 DEF OrdersAt
  <2> QED
    BY <2>1, <2>2
<1>14. KeysAt(ui.rows, wire', at, t, astray', sessions', written')
  <2>1. CASE c.kind # "checkout"
    BY <1>10, <1>11, <2>1 DEF KeysAt
  <2>2. CASE c.kind = "checkout"
    <3>1. t # 0 => RowsOf(written', AcctOf(sessions, t), "keys") = RowsOf(written, AcctOf(sessions, t), "keys")
      BY <1>4, <1>12, <2>2 DEF RowsOf, Lists
    <3>2. KeysAt(ui.rows, wire, at, t, astray, sessions, written)
      BY RowsFacts
    <3> QED
      BY <1>1, <1>9, <1>10, <3>1, <3>2 DEF KeysAt
  <2> QED
    BY <2>1, <2>2
<1> QED
  BY <1>1, <1>4, <1>8, <1>13, <1>14, RowsServed

LEMMA RowsServe ==
  ASSUME RowsInv, OwnInv', NEW c \in wire, Serve(c)
  PROVE  RowsInv'
<1>1. ASSUME NEW a \in journey.who, ServeSignIn(c, a)
      PROVE  RowsInv'
  <2>1. /\ c.at = "sent" /\ c.kind \in {"login", "register", "callback"} /\ ByServer /\ written' = written
        /\ sessions' = Append(sessions, a)
        /\ \E got : Reply(c, got, "none", a)
    BY <1>1 DEF ServeSignIn, Served
  <2>2. Grows(sessions, sessions', Len(sessions))
    BY <2>1, RowsFacts, JourneyFacts, OwnCall, GrowsAppend
  <2> QED
    BY <2>1, <2>2, RowsReply
<1>2. ASSUME sessions' = sessions, written' = written, ByServer, c.at = "sent",
             c.kind \notin {"orders", "reorders", "keys", "create", "revoke"}, NEW got, NEW x, NEW a,
             Reply(c, got, x, a)
      PROVE  RowsInv'
  BY <1>2, GrowsSame, RowsReply
<1>3. CASE ServeVerify(c)
  BY <1>2, <1>3 DEF ServeVerify, Served
<1>4. CASE ServeMail(c)
  BY <1>2, <1>4 DEF ServeMail, Served, server
<1>5. CASE ServeProfile(c)
  BY <1>2, <1>5 DEF ServeProfile, Served
<1>6. CASE ServeImage(c)
  <2>1. /\ c.at = "sent" /\ c.kind \in {"upload", "import", "delete", "toggle"} /\ ByServer
        /\ sessions' = sessions /\ written' = written
    BY <1>6 DEF ServeImage, Served
  <2>2. \E got : Reply(c, got, "gallery", Acct(c.tok))
    BY <1>6, <2>1 DEF ServeImage
  <2> QED
    BY <1>2, <2>1, <2>2
<1> QED
  BY <1>1, <1>3, <1>4, <1>5, <1>6, RowsRead, RowsWrite, RowsRefuse DEF Serve

\* Once every call is answered, the orders on PricingView and the keys on the
\* API view are the server's for the user who is shown, unless an answer since
\* the view was opened failed or was overtaken by a write or by another
\* account (ordersRefreshKey, refreshOrders, the reloads after createKey and
\* revokeKey).
THEOREM RowsAreTrue == Spec => []RowsAreServers
<1>1. Init => OwnInv /\ RowsInv
  <2> SUFFICES ASSUME Init
               PROVE  OwnInv /\ RowsInv
    OBVIOUS
  <2>1. OwnInv
    BY InitOwn
  <2>2. app.token = 0 /\ wire = {} /\ written \in [Accounts -> [Lists -> Nat]]
    BY DEF Init
  <2> QED
    BY <2>1, <2>2 DEF RowsInv, OrdersAt, KeysAt
<1>2. OwnInv /\ RowsInv /\ [Next]_vars => OwnInv' /\ RowsInv'
  <2> SUFFICES ASSUME OwnInv, RowsInv, [Next]_vars
               PROVE  OwnInv' /\ RowsInv'
    OBVIOUS
  <2>1. OwnInv'
    BY OwnNext
  <2>2. CASE Act
    BY <2>1, <2>2, RowsAct
  <2>3. ASSUME NEW c \in wire, Serve(c)
        PROVE  RowsInv'
    BY <2>1, <2>3, RowsServe
  <2>4. ASSUME NEW c \in wire, Answer(c)
        PROVE  RowsInv'
    BY <2>1, <2>4, RowsAnswered
  <2>5. CASE UNCHANGED vars
    <3>1. app' = app /\ ui' = ui /\ wire' = wire /\ sessions' = sessions /\ written' = written /\ astray' = astray
      BY <2>5 DEF vars, server
    <3>2. Screen(app)' = Screen(app)
      BY <3>1 DEF Screen
    <3> QED
      BY <2>1, <3>1, <3>2, RowsFacts DEF RowsInv
  <2> QED
    BY <2>1, <2>2, <2>3, <2>4, <2>5 DEF Next
<1>3. RowsInv => RowsAreServers
  <2> SUFFICES ASSUME RowsInv, AtRest, Signed, astray \cap {"session", "rows"} = {}
               PROVE  /\ On("pricing") => ui.rows = Rows(app.user.of, "orders")
                      /\ On("api") => ui.rows = Rows(app.user.of, "keys")
    BY DEF RowsAreServers
  <2>1. wire = {} /\ app.user # NoUser /\ app.token # 0 /\ "session" \notin astray /\ "rows" \notin astray
    BY DEF AtRest, Signed
  <2>2. AcctOf(sessions, app.token) = app.user.of
    BY <2>1, RowsFacts, OwnFacts DEF PageOwns
  <2>3. /\ OrdersAt(ui.rows, wire, Screen(app), app.token, astray, sessions, written)
        /\ KeysAt(ui.rows, wire, Screen(app), app.token, astray, sessions, written)
    BY RowsFacts
  <2> QED
    BY <2>1, <2>2, <2>3 DEF OrdersAt, KeysAt, On, Rows, RowsOf
<1> QED
  BY <1>1, <1>2, <1>3, PTL DEF Spec

-----------------------------------------------------------------------------
(* The profile on the screen.                                              *)

MeOf(nm, vf, b) == [of |-> b, name |-> nm[b], verified |-> b \in vf]

\* What call c brings, with names nm and verified accounts vf
CallProfile(c, ss, nm, vf) ==
  c.at = "ok" /\ ~c.stale /\ c.kind \in Bringing => c.got.user = MeOf(nm, vf, Answered0(c, ss))

\* Call c will bring the profile of account b.
BringsProfile(c, b, ss) == c.at = "ok" /\ c.kind \in {"verify", "profile"} /\ Answered0(c, ss) = b

ProfileAt(p, w, a, ss, nm, vf) ==
  p.token # 0 /\ p.user # NoUser /\ "session" \notin a /\ "profile" \notin a =>
    p.user = MeOf(nm, vf, AcctOf(ss, p.token)) \/ \E c \in w : BringsProfile(c, AcctOf(ss, p.token), ss)

ProfileInv ==
  /\ OwnInv
  /\ names = [b \in Accounts |-> names[b]]
  /\ \A c \in wire : CallProfile(c, sessions, names, verified)
  /\ ProfileAt(app, wire, astray, sessions, names, verified)

LEMMA ProfileFacts ==
  ASSUME ProfileInv
  PROVE  /\ OwnInv /\ CheckInv /\ Calls(wire, Len(sessions)) /\ UiShape(ui, Len(sessions))
         /\ \A c \in wire : CallProfile(c, sessions, names, verified)
         /\ ProfileAt(app, wire, astray, sessions, names, verified)
         /\ names = [b \in Accounts |-> names[b]]
  BY OwnFacts DEF ProfileInv

\* A step of the page
LEMMA ProfilePage ==
  ASSUME ProfileInv, OwnInv', NEW p, NEW g, NEW w, NEW a, NEW again, Calls(w, Len(sessions)),
         \A c \in w : CallProfile(c, sessions, names, verified),
         ProfileAt(p, w, a, sessions, names, verified), Render(p, g, w, a, again), ByClient
  PROVE  ProfileInv'
<1> DEFINE left(c, d) == Kin(c, d) /\ d.stale = c.stale
<1>1. /\ \A c \in w : \E d \in wire' : left(c, d)
      /\ \A d \in wire' : \/ \E c \in w : left(c, d)
                          \/ d = Ask("load", p.token, Nobody)
                          \/ d = Ask("orders", p.token, Nobody)
                          \/ d = Ask("keys", p.token, Nobody)
  BY RenderWire
<1>2. /\ CallProfile(Ask("load", p.token, Nobody), sessions, names, verified)
      /\ CallProfile(Ask("orders", p.token, Nobody), sessions, names, verified)
      /\ CallProfile(Ask("keys", p.token, Nobody), sessions, names, verified)
  BY DEF CallProfile, Ask
<1>3. \A c \in w : \A d : left(c, d) => CallProfile(d, sessions, names, verified)
  BY DEF CallProfile, Kin, Answered0
<1>4. \A c \in w : \A d : left(c, d) =>
        \A b : BringsProfile(c, b, sessions) => BringsProfile(d, b, sessions)
  BY DEF BringsProfile, Kin, Answered0
<1> HIDE DEF left
<1>5. \A d \in wire' : CallProfile(d, sessions, names, verified)
  BY <1>1, <1>2, <1>3
<1>6. /\ app' = p /\ sessions' = sessions /\ names' = names /\ verified' = verified
      /\ (astray' = a \/ astray' = a \ {"rows", "detail"})
  BY DEF Render, ByClient, server
<1>7. ProfileAt(p, wire', astray', sessions, names, verified)
  BY <1>1, <1>4, <1>6 DEF ProfileAt
<1> QED
  BY <1>5, <1>6, <1>7, ProfileFacts DEF ProfileInv

\* The user and the token stay, and so do the calls that bring a profile.
LEMMA ProfileSame ==
  ASSUME ProfileInv, OwnInv', NEW p, NEW g, NEW w, NEW a, NEW again, Calls(w, Len(sessions)),
         \A d \in w : d \in wire \/ d.at # "ok", Render(p, g, w, a, again), ByClient,
         p.user = app.user, p.token = app.token,
         "session" \in astray => "session" \in a, "profile" \in astray => "profile" \in a,
         \A e \in wire : e.at = "ok" /\ e.kind \in {"verify", "profile"} => e \in w
  PROVE  ProfileInv'
<1>1. \A c \in w : CallProfile(c, sessions, names, verified)
  BY ProfileFacts DEF CallProfile
<1>2. ProfileAt(p, w, a, sessions, names, verified)
  BY ProfileFacts DEF ProfileAt, BringsProfile
<1> QED
  BY <1>1, <1>2, ProfilePage

LEMMA ProfileReopen ==
  ASSUME ProfileInv, OwnInv', NEW v, NEW calls, calls \subseteq {Ask("callback", 0, Nobody)}, Reopen(v, calls)
  PROVE  ProfileInv'
<1>1. /\ app' = Opened(v) /\ names' = names
      /\ wire' = LoadEffect(app', TRUE) \cup calls
  BY DEF Reopen, server
<1>2. app'.user = NoUser
  BY <1>1 DEF Opened
<1>3. \A c \in wire' : c.at = "sent"
  BY <1>1 DEF LoadEffect, Ask
<1>4. \A c \in wire' : CallProfile(c, sessions', names', verified')
  BY <1>3 DEF CallProfile
<1> QED
  BY <1>1, <1>2, <1>4, ProfileFacts DEF ProfileInv, ProfileAt

LEMMA ProfileAct ==
  ASSUME ProfileInv, OwnInv', Act
  PROVE  ProfileInv'
<1>0. CheckInv
  BY ProfileFacts
<1>1. ASSUME NEW g, NEW a, Render(app, g, wire, a, FALSE), ByClient, a = astray \/ a = astray \ {"detail"}
      PROVE  ProfileInv'
  BY <1>1, ProfileFacts, ProfileSame
<1>2. ASSUME NEW v, Show(v)
      PROVE  ProfileInv'
  <2> DEFINE p == AppRec(v, app.user, app.usage, app.token, app.ifpay, app.gallery)
  <2>1. Render(p, ui, wire, astray, FALSE) /\ ByClient
    BY <1>0, <1>2, ShowDoes DEF Show
  <2>2. p.user = app.user /\ p.token = app.token
    BY DEF AppRec
  <2> HIDE DEF p
  <2> QED
    BY <2>1, <2>2, ProfileFacts, ProfileSame
<1>3. CASE Logout
  <2> DEFINE p == AppRec("landing", NoUser, Nobody, 0, FALSE, app.gallery)
  <2>1. Render(p, ui, wire, astray \ {"session"}, FALSE) /\ ByClient
    BY <1>0, <1>3, LogoutDoes DEF Logout
  <2>2. p.user = NoUser
    BY DEF AppRec
  <2> HIDE DEF p
  <2>3. ProfileAt(p, wire, astray \ {"session"}, sessions, names, verified)
    BY <2>2 DEF ProfileAt
  <2> QED
    BY <2>1, <2>3, ProfileFacts, ProfilePage
<1>4. ASSUME NEW item, Select(item)
      PROVE  ProfileInv'
  BY <1>1, <1>4 DEF Select
<1>5. ASSUME NEW g, Set(g)
      PROVE  ProfileInv'
  BY <1>1, <1>5 DEF Set
<1>6. CASE Back
  BY <1>5, <1>6 DEF Back
<1>7. ASSUME NEW m \in Modes, SwitchMode(m)
      PROVE  ProfileInv'
  BY <1>5, <1>7 DEF SwitchMode
<1>8. ASSUME NEW x \in Names, EditAlias(x)
      PROVE  ProfileInv'
  BY <1>5, <1>8 DEF EditAlias
<1>9. ASSUME NEW g, NEW c, Sending(g, c)
      PROVE  ProfileInv'
  <2>1. /\ Render(app, g, wire \cup {c}, astray, FALSE) /\ ByClient
        /\ CallShape(c, Len(sessions)) /\ CallTrue(c) /\ c.at = "sent"
    BY <1>9 DEF Sending, Send, Asked
  <2> DEFINE w == wire \cup {c}
  <2>2. Calls(w, Len(sessions)) /\ (\A d \in w : d \in wire \/ d.at # "ok") /\ (\A e \in wire : e \in w)
    BY <2>1, ProfileFacts DEF Calls
  <2> HIDE DEF w
  <2> QED
    BY <2>1, <2>2, ProfileSame DEF w
<1>10. ASSUME NEW v \in {"landing", "docs"}, Reload(v)
       PROVE  ProfileInv'
  BY <1>10, ProfileReopen DEF Reload
<1> QED
  BY <1>0, <1>2, <1>3, <1>4, <1>5, <1>6, <1>7, <1>8, <1>9, <1>10, ActDoes

\* The answer to c is handled.
LEMMA ProfileDone ==
  ASSUME ProfileInv, OwnInv', NEW c \in wire, NEW p, NEW g, NEW a, Done(c, p, g, a),
         ProfileAt(p, wire \ {c}, a, sessions, names, verified)
  PROVE  ProfileInv'
<1>1. Calls(wire \ {c}, Len(sessions)) /\ Render(p, Local(c, g), wire \ {c}, a, FALSE) /\ ByClient
  BY ProfileFacts DEF Calls, Done
<1>2. \A e \in wire \ {c} : CallProfile(e, sessions, names, verified)
  BY ProfileFacts
<1> QED
  BY <1>1, <1>2, ProfilePage

\* An answer that is not overtaken brings the profile of its account.
LEMMA ProfileBrought ==
  ASSUME ProfileInv, NEW c \in wire, c.at = "ok", c.kind \in Bringing, ~c.stale
  PROVE  /\ c.got.user = MeOf(names, verified, Answered0(c, sessions))
         /\ c.got.tok # 0 => Answered0(c, sessions) = AcctOf(sessions, c.got.tok)
         /\ c.kind \in {"load", "me", "profile"} => Answered0(c, sessions) = AcctOf(sessions, c.tok)
<1>1. CallOwns(c, sessions, app.token)
  BY ProfileFacts, OwnFacts
<1>2. c.kind \in {"load", "me", "profile"} => c.got.tok = 0
  BY <1>1 DEF CallOwns
<1> QED
  BY <1>2, ProfileFacts DEF CallProfile, Answered0

LEMMA ProfileSignedIn ==
  ASSUME ProfileInv, OwnInv', NEW c \in wire, SignedIn(c) \/ IFPayCallback(c)
  PROVE  ProfileInv'
<1>0. CheckInv /\ c.at = "ok" /\ c.kind \in Bringing /\ c.kind \in {"login", "register", "callback", "verify"}
  BY ProfileFacts DEF SignedIn, IFPayCallback, Answered, Bringing
<1>1. PICK p, g, s : /\ Done(c, p, g, Checked(s, c, {"session", "profile"}))
                     /\ p.user = c.got.user /\ p.token = c.got.tok
  <2>1. CASE SignedIn(c)
    <3> DEFINE p == AppRec("dashboard", c.got.user, Nobody, c.got.tok, app.ifpay, app.gallery)
    <3>1. \E g : Done(c, p, g, Checked(astray, c, {"session", "profile"}))
      BY <1>0, <2>1, SignedInDoes
    <3>2. p.user = c.got.user /\ p.token = c.got.tok
      BY DEF AppRec
    <3> HIDE DEF p
    <3> QED
      BY <3>1, <3>2
  <2>2. CASE IFPayCallback(c)
    <3> DEFINE p == AppRec("pricing", c.got.user, app.usage, c.got.tok, TRUE, app.gallery)
               s == IF app.usage \in {Nobody, c.got.user.of} THEN astray ELSE astray \cup {"usage"}
    <3>1. Done(c, p, ui, Checked(s, c, {"session", "profile"}))
      BY <1>0, <2>2, CallbackDoes
    <3>2. p.user = c.got.user /\ p.token = c.got.tok
      BY DEF AppRec
    <3> HIDE DEF p, s
    <3> QED
      BY <3>1, <3>2
  <2> QED
    BY <2>1, <2>2
<1>2. CallOwns(c, sessions, app.token)
  BY ProfileFacts, OwnFacts
<1>3. c.got.tok # 0
  BY <1>0, <1>2 DEF CallOwns
<1> DEFINE a == Checked(s, c, {"session", "profile"})
<1>4. "profile" \notin a => ~c.stale
  BY DEF Checked, Late
<1> HIDE DEF a
<1>5. ProfileAt(p, wire \ {c}, a, sessions, names, verified)
  BY <1>0, <1>1, <1>3, <1>4, ProfileBrought DEF ProfileAt
<1>6. Done(c, p, g, a)
  BY <1>1 DEF a
<1> QED
  BY <1>5, <1>6, ProfileDone

LEMMA ProfileRead ==
  ASSUME ProfileInv, OwnInv', NEW c \in wire, (Loaded(c) /\ c.live) \/ MeAnswered(c) \/ ProfileSaved(c)
  PROVE  ProfileInv'
<1>0. CheckInv /\ c.at = "ok" /\ c.kind \in {"load", "me", "profile"} /\ c.kind \in Bringing
  BY ProfileFacts DEF Loaded, MeAnswered, ProfileSaved, Answered, Bringing
<1>1. CallOwns(c, sessions, app.token) /\ About(c) = AcctOf(sessions, c.tok)
  BY <1>0, ProfileFacts, OwnFacts, OwnAnswer, AcctIs
<1>2. \E p, g, a : /\ Done(c, p, g, a) /\ p.user = c.got.user /\ p.token = app.token
                   /\ "profile" \notin a => ~c.stale /\ AcctOf(sessions, c.tok) = AcctOf(sessions, app.token)
  <2>1. CASE Loaded(c) /\ c.live
    <3> DEFINE p == AppRec(IF app.view \in {"landing", "auth"} THEN "dashboard" ELSE app.view, c.got.user,
                           c.got.user.of, app.token, app.ifpay, c.got.items)
               b == Checked(astray, c, {"session", "usage", "gallery", "profile"})
               a == Detached(b, c.got.items)
    <3>1. Done(c, p, ui, a)
      BY <1>0, <2>1, LoadedDoes
    <3>2. p.user = c.got.user /\ p.token = app.token
      BY DEF AppRec
    <3>3. "profile" \notin a => ~c.stale
      BY DEF Detached, Checked, Late
    <3>4. c.tok = app.token
      BY <1>1, <2>1 DEF CallOwns, Loaded, Answered
    <3> HIDE DEF p, a
    <3> QED
      BY <3>1, <3>2, <3>3, <3>4
  <2>2. CASE MeAnswered(c)
    <3> DEFINE p == AppRec(app.view, c.got.user, c.got.user.of, app.token, app.ifpay, app.gallery)
               a == Full(astray, c, {"session", "usage", "profile"})
    <3>1. Done(c, p, ui, a)
      BY <1>0, <2>2, MeDoes
    <3>2. p.user = c.got.user /\ p.token = app.token
      BY DEF AppRec
    <3>3. "profile" \notin a => ~c.stale /\ About(c) = Acct(app.token)
      BY DEF Full, Partial, Late, Foreign
    <3> HIDE DEF p, a
    <3> QED
      BY <1>1, <3>1, <3>2, <3>3, AcctIs
  <2>3. CASE ProfileSaved(c)
    <3> DEFINE p == AppRec(app.view, c.got.user, app.usage, app.token, app.ifpay, app.gallery)
               a == Partial(astray \ {"profile"}, c, {"session", "profile"})
    <3>1. Done(c, p, ui, a)
      BY <1>0, <2>3, ProfileDoes
    <3>2. p.user = c.got.user /\ p.token = app.token
      BY DEF AppRec
    <3>3. "profile" \notin a => ~c.stale /\ About(c) = Acct(app.token)
      BY DEF Partial, Late, Foreign
    <3> HIDE DEF p, a
    <3> QED
      BY <1>1, <3>1, <3>2, <3>3, AcctIs
  <2> QED
    BY <2>1, <2>2, <2>3
<1>3. PICK p, g, a : /\ Done(c, p, g, a) /\ p.user = c.got.user /\ p.token = app.token
                     /\ "profile" \notin a => ~c.stale /\ AcctOf(sessions, c.tok) = AcctOf(sessions, app.token)
  BY <1>2
<1>4. ProfileAt(p, wire \ {c}, a, sessions, names, verified)
  BY <1>0, <1>3, ProfileBrought DEF ProfileAt
<1> QED
  BY <1>3, <1>4, ProfileDone

\* Handlers that leave the user and the token as they are, and take up to c
\* out of the calls in flight
LEMMA ProfileLeft ==
  ASSUME ProfileInv, OwnInv', NEW c \in wire, c.at # "ok" \/ c.kind \notin {"verify", "profile"},
         NEW p, NEW g, NEW w, NEW a, NEW again, Render(p, g, w, a, again), ByClient, Calls(w, Len(sessions)),
         \A d \in w : d \in wire \/ d.at # "ok", \A e \in wire \ {c} : e \in w,
         p.user = app.user, p.token = app.token,
         "session" \in astray => "session" \in a, "profile" \in astray => "profile" \in a
  PROVE  ProfileInv'
  BY ProfileSame

LEMMA StrayProfile ==
  ASSUME NEW s, NEW c, NEW items
  PROVE  \A x \in {"session", "profile"} : x \in s =>
           /\ x \in Detached(s, items) /\ x \in Orphaned(s, c)
           /\ x \in Full(s, c, {"gallery"}) /\ x \in Full(s, c, {"rows"}) /\ x \in Checked(s, c, {"rows"})
           /\ x \in Partial(s, c, {"gallery"}) /\ x \in Partial(s, c, {"gallery", "detail"})
  BY DEF Detached, Orphaned, Full, Checked, Partial

LEMMA ProfileListed ==
  ASSUME ProfileInv, OwnInv', NEW c \in wire,
         \/ ImagesAnswered(c) \/ DeleteAnswered(c) \/ ToggleAnswered(c) \/ OrdersAnswered(c)
         \/ KeysAnswered(c) \/ Imported(c) \/ Failed(c) \/ AuthAnswered(c) \/ (Loaded(c) /\ ~c.live)
  PROVE  ProfileInv'
<1>0. CheckInv
  BY ProfileFacts
<1>1. \E p, g, a : /\ Done(c, p, g, a) /\ p.user = app.user /\ p.token = app.token
                   /\ "session" \in astray => "session" \in a
                   /\ "profile" \in astray => "profile" \in a
  <2>1. ASSUME NEW s, NEW g, NEW a,
               Done(c, AppRec(app.view, app.user, app.usage, app.token, app.ifpay, s), g, a),
               "session" \in astray => "session" \in a, "profile" \in astray => "profile" \in a
        PROVE  \E p, h, b : /\ Done(c, p, h, b) /\ p.user = app.user /\ p.token = app.token
                            /\ "session" \in astray => "session" \in b
                            /\ "profile" \in astray => "profile" \in b
    <3> DEFINE p == AppRec(app.view, app.user, app.usage, app.token, app.ifpay, s)
    <3>1. p.user = app.user /\ p.token = app.token /\ Done(c, p, g, a)
      BY <2>1 DEF AppRec
    <3> HIDE DEF p
    <3> QED
      BY <2>1, <3>1
  <2>2. CASE ImagesAnswered(c)
    BY <1>0, <2>1, <2>2, ImagesDoes, StrayProfile
  <2>3. CASE DeleteAnswered(c)
    <3> DEFINE a == Partial(Orphaned(astray, c), c, {"gallery"})
    <3>1. PICK g, s : Done(c, AppRec(app.view, app.user, app.usage, app.token, app.ifpay, s), g, a)
      BY <1>0, <2>3, DeleteDoes
    <3>2. ("session" \in astray => "session" \in a) /\ ("profile" \in astray => "profile" \in a)
      BY StrayProfile
    <3> HIDE DEF a
    <3> QED
      BY <2>1, <3>1, <3>2
  <2>4. CASE ToggleAnswered(c)
    <3> DEFINE a == Partial(Orphaned(astray, c), c, {"gallery", "detail"})
    <3>1. PICK g, s : Done(c, AppRec(app.view, app.user, app.usage, app.token, app.ifpay, s), g, a)
      BY <1>0, <2>4, ToggledDoes
    <3>2. ("session" \in astray => "session" \in a) /\ ("profile" \in astray => "profile" \in a)
      BY StrayProfile
    <3> HIDE DEF a
    <3> QED
      BY <2>1, <3>1, <3>2
  <2>5. CASE OrdersAnswered(c)
    <3> DEFINE g == [ui EXCEPT !.rows = c.got.rows, !.loading = FALSE]
               a == IF ~c.live THEN astray
                    ELSE IF c.at = "failed" THEN astray \cup {"rows"}
                    ELSE IF c.kind = "orders" THEN Checked(astray, c, {"rows"}) ELSE Full(astray, c, {"rows"})
    <3>1. Done(c, app, g, a)
      BY <2>5 DEF OrdersAnswered
    <3>2. ("session" \in astray => "session" \in a) /\ ("profile" \in astray => "profile" \in a)
      BY StrayProfile
    <3> HIDE DEF a, g
    <3> QED
      BY <3>1, <3>2
  <2>6. CASE KeysAnswered(c)
    <3> DEFINE g == IF c.at = "ok" THEN [ui EXCEPT !.rows = c.got.rows] ELSE ui
               a == IF ~c.live THEN astray
                    ELSE IF c.at = "ok" THEN Full(astray, c, {"rows"})
                    ELSE astray \cup {"rows"}
    <3>1. Done(c, app, g, a)
      BY <2>6 DEF KeysAnswered
    <3>2. ("session" \in astray => "session" \in a) /\ ("profile" \in astray => "profile" \in a)
      BY StrayProfile
    <3> HIDE DEF a, g
    <3> QED
      BY <3>1, <3>2
  <2>7. CASE Imported(c)
    BY <2>7 DEF Imported
  <2>8. CASE Failed(c)
    BY <1>0, <2>8, FailedDoes
  <2>9. CASE AuthAnswered(c)
    BY <1>0, <2>9, AuthDoes
  <2>10. CASE Loaded(c) /\ ~c.live
    BY <2>10 DEF Loaded
  <2> QED
    BY <2>2, <2>3, <2>4, <2>5, <2>6, <2>7, <2>8, <2>9, <2>10
<1>2. c.at # "ok" \/ c.kind \notin {"verify", "profile"}
  BY DEF ImagesAnswered, DeleteAnswered, ToggleAnswered, OrdersAnswered, KeysAnswered, Imported, Failed,
         AuthAnswered, Loaded, Answered
<1>3. Calls(wire \ {c}, Len(sessions))
  BY ProfileFacts DEF Calls
<1>4. PICK p, g, a : /\ Render(p, Local(c, g), wire \ {c}, a, FALSE) /\ ByClient
                     /\ p.user = app.user /\ p.token = app.token
                     /\ "session" \in astray => "session" \in a
                     /\ "profile" \in astray => "profile" \in a
  BY <1>1 DEF Done
<1> QED
  BY <1>2, <1>3, <1>4, ProfileLeft

LEMMA ProfileRefreshed ==
  ASSUME ProfileInv, OwnInv', NEW c \in wire,
         UploadAnswered(c) \/ UploadShown(c) \/ CheckedOut(c) \/ KeyWritten(c)
  PROVE  ProfileInv'
<1>0. CheckInv /\ Calls(wire, Len(sessions))
  BY ProfileFacts
<1>1. \E p, g, w, a, again :
        /\ Render(p, g, w, a, again) /\ p.user = app.user /\ p.token = app.token
        /\ Calls(w, Len(sessions)) /\ (\A d \in w : d \in wire \/ d.at # "ok") /\ (\A e \in wire \ {c} : e \in w)
        /\ "session" \in astray => "session" \in a
        /\ "profile" \in astray => "profile" \in a
  <2>1. CASE UploadAnswered(c)
    <3>1. PICK d : /\ Render(app, ui, (wire \ {c}) \cup {d}, astray, FALSE)
                   /\ CallShape(d, Len(sessions)) /\ CallTrue(d) /\ d.at = "timer"
      BY <1>0, <2>1, UploadDoes
    <3> DEFINE w == (wire \ {c}) \cup {d}
    <3>2. Calls(w, Len(sessions)) /\ (\A e \in w : e \in wire \/ e.at # "ok") /\ (\A e \in wire \ {c} : e \in w)
      BY <1>0, <3>1 DEF Calls
    <3> QED
      BY <3>1, <3>2
  <2>2. CASE UploadShown(c)
    <3> DEFINE x == Ask("images", c.tok, Nobody)
               y == Ask("me", c.tok, Nobody)
               w == (wire \ {c}) \cup {x, y}
               p == AppRec("gallery", app.user, app.usage, app.token, app.ifpay, app.gallery \cup c.got.items)
               a == Partial(astray, c, {"gallery"})
    <3>1. \E g : Render(p, g, w, a, FALSE)
      BY <1>0, <2>2, ShownDoes
    <3>2. p.user = app.user /\ p.token = app.token
      BY DEF AppRec
    <3>3. Calls(w, Len(sessions))
      BY <1>0, <2>2, RefreshCalls
    <3>4. x.at = "sent" /\ y.at = "sent"
      BY DEF Ask
    <3> HIDE DEF x, y, p
    <3>5. (\A e \in w : e \in wire \/ e.at # "ok") /\ (\A e \in wire \ {c} : e \in w)
      BY <3>4
    <3>6. ("session" \in astray => "session" \in a) /\ ("profile" \in astray => "profile" \in a)
      BY StrayProfile
    <3> HIDE DEF w, a
    <3> QED
      BY <3>1, <3>2, <3>3, <3>5, <3>6
  <2>3. CASE CheckedOut(c)
    <3>1. \E g : Render(app, g, wire \ {c}, astray, TRUE)
      BY <1>0, <2>3, CheckedOutDoes
    <3>2. Calls(wire \ {c}, Len(sessions))
      BY <1>0 DEF Calls
    <3> QED
      BY <3>1, <3>2
  <2>4. CASE KeyWritten(c)
    <3> DEFINE a == IF c.live THEN astray ELSE astray \cup {"rows"}
    <3>1. PICK d : /\ Render(app, ui, (wire \ {c}) \cup {d}, a, FALSE)
                   /\ CallShape(d, Len(sessions)) /\ CallTrue(d) /\ d.at = "sent"
      BY <1>0, <2>4, KeyDoes
    <3> DEFINE w == (wire \ {c}) \cup {d}
    <3>2. Calls(w, Len(sessions)) /\ (\A e \in w : e \in wire \/ e.at # "ok") /\ (\A e \in wire \ {c} : e \in w)
      BY <1>0, <3>1 DEF Calls
    <3>3. ("session" \in astray => "session" \in a) /\ ("profile" \in astray => "profile" \in a)
      OBVIOUS
    <3> HIDE DEF a
    <3> QED
      BY <3>1, <3>2, <3>3
  <2> QED
    BY <2>1, <2>2, <2>3, <2>4
<1>2. ByClient /\ c.kind \notin {"verify", "profile"}
  <2>1. CASE UploadShown(c)
    BY <1>0, <2>1, RefreshCalls DEF UploadShown
  <2> QED
    BY <2>1 DEF UploadAnswered, CheckedOut, KeyWritten, Answered
<1> QED
  BY <1>1, <1>2, ProfileLeft

LEMMA ProfileAnswered ==
  ASSUME ProfileInv, OwnInv', NEW c \in wire, Answer(c)
  PROVE  ProfileInv'
<1>1. ASSUME OAuthStarted(c)
      PROVE  ProfileInv'
  BY <1>1, ProfileReopen DEF OAuthStarted
<1>2. ASSUME LoadFailed(c)
      PROVE  ProfileInv'
  <2> DEFINE p == AppRec(app.view, app.user, app.usage, 0, app.ifpay, app.gallery)
             a == IF app.user = NoUser THEN astray ELSE astray \cup {"session"}
  <2>1. Done(c, p, ui, a)
    BY <1>2, ProfileFacts, LoadFailedDoes
  <2>2. p.token = 0
    BY DEF AppRec
  <2> HIDE DEF p, a
  <2>3. ProfileAt(p, wire \ {c}, a, sessions, names, verified)
    BY <2>2 DEF ProfileAt
  <2> QED
    BY <2>1, <2>3, ProfileDone
<1>3. ASSUME Loaded(c)
      PROVE  ProfileInv'
  BY <1>3, ProfileRead, ProfileListed
<1> QED
  BY <1>1, <1>2, <1>3, ProfileSignedIn, ProfileRead, ProfileListed, ProfileRefreshed DEF Answer

\* A step of the server
LEMMA ProfileServed ==
  ASSUME ProfileInv, OwnInv', ByServer, Grows(sessions, sessions', Len(sessions)), astray \subseteq astray',
         names' = [b \in Accounts |-> names'[b]],
         \A d \in wire' : CallProfile(d, sessions', names', verified'),
         \A e \in wire : e.at = "ok" => \E d \in wire' : Kin(e, d),
         NEW b, b = AcctOf(sessions, app.token),
         \/ app.token = 0
         \/ MeOf(names', verified', b) = MeOf(names, verified, b)
         \/ \E d \in wire' : BringsProfile(d, b, sessions')
         \/ "profile" \in astray'
  PROVE  ProfileInv'
<1>1. app' = app
  BY DEF ByServer
<1>2. AcctOf(sessions', app.token) = b
  BY ProfileFacts, PageFacts DEF Grows
<1>3. ASSUME NEW e \in wire, BringsProfile(e, b, sessions)
      PROVE  \E d \in wire' : BringsProfile(d, b, sessions')
  <2>1. PICK d \in wire' : Kin(e, d)
    BY <1>3 DEF BringsProfile
  <2>2. CallShape(e, Len(sessions))
    BY ProfileFacts DEF Calls
  <2>3. e.tok \in 0..Len(sessions) /\ e.got.tok \in 0..Len(sessions)
    BY <2>2 DEF CallShape, AnswerShape
  <2>4. Answered0(d, sessions') = Answered0(e, sessions)
    BY <2>1, <2>3 DEF Answered0, Kin, Grows
  <2> QED
    BY <1>3, <2>1, <2>4 DEF BringsProfile, Kin
<1>4. ProfileAt(app, wire', astray', sessions', names', verified')
  BY <1>2, <1>3, ProfileFacts DEF ProfileAt
<1> QED
  BY <1>1, <1>4 DEF ProfileInv

\* A call whose profile stays what it is
LEMMA CallProfileLater ==
  ASSUME NEW n, NEW ss, NEW later, Grows(ss, later, n), NEW e, CallShape(e, n), NEW d, Kin(e, d),
         ~d.stale => ~e.stale, NEW nm, NEW vf, NEW nm2, NEW vf2, CallProfile(e, ss, nm, vf),
         e.at = "ok" /\ ~d.stale /\ e.kind \in Bringing =>
           MeOf(nm2, vf2, Answered0(e, ss)) = MeOf(nm, vf, Answered0(e, ss))
  PROVE  CallProfile(d, later, nm2, vf2)
<1>1. e.tok \in 0..n /\ e.got.tok \in 0..n
  BY DEF CallShape, AnswerShape
<1>2. Answered0(d, later) = Answered0(e, ss)
  BY <1>1 DEF Answered0, Kin, Grows
<1> QED
  BY <1>2 DEF CallProfile, Kin

LEMMA ProfileReply ==
  ASSUME ProfileInv, OwnInv', NEW c \in wire, NEW got, NEW x, NEW a, c.at = "sent", ByServer,
         Grows(sessions, sessions', Len(sessions)), Reply(c, got, x, a),
         names' = [b \in Accounts |-> names'[b]],
         \A b \in Accounts : x # "profile" \/ b # a => MeOf(names', verified', b) = MeOf(names, verified, b),
         CallProfile(Ok(c, got), sessions', names', verified'),
         x = "profile" => BringsProfile(Ok(c, got), a, sessions')
  PROVE  ProfileInv'
<1>1. Calls(wire, Len(sessions))
  BY ProfileFacts
<1>2. \A e \in wire \ {c} : \E d \in wire' : Aged(e, d, x, a, c.arg)
  BY <1>1, ReplyWire
<1>3. \A d \in wire' : \/ \E e \in wire \ {c} : Aged(e, d, x, a, c.arg)
                       \/ d = Ok(c, got) \/ d = Lost(c)
  BY <1>1, ReplyWire
<1>4. ASSUME NEW e \in wire \ {c}, NEW d, Aged(e, d, x, a, c.arg)
      PROVE  CallProfile(d, sessions', names', verified')
  <2>1. CallShape(e, Len(sessions)) /\ CallProfile(e, sessions, names, verified)
    BY <1>1, ProfileFacts DEF Calls
  <2>2. Kin(e, d) /\ (~d.stale => ~e.stale /\ ~Outdates(e, x, a, c.arg))
    BY <1>4 DEF Aged
  <2>3. ASSUME e.at = "ok", ~d.stale, e.kind \in Bringing, x = "profile"
        PROVE  Answered0(e, sessions) # a
    <3>1. x \in Carries(e.kind)
      BY <2>3 DEF Bringing, Carries
    <3> QED
      BY <2>2, <2>3, <3>1, AboutIs DEF Outdates
  <2>4. e.at = "ok" /\ e.kind \in Bringing => Answered0(e, sessions) \in Accounts
    BY ProfileFacts, OwnFacts DEF CallOwns
  <2> QED
    BY <2>1, <2>2, <2>3, <2>4, CallProfileLater
<1>5. CallProfile(Lost(c), sessions', names', verified')
  BY <1>1, LostFields DEF Calls, CallProfile
<1>6. \A d \in wire' : CallProfile(d, sessions', names', verified')
  BY <1>3, <1>4, <1>5
<1>7. \A e \in wire : e.at = "ok" => \E d \in wire' : Kin(e, d)
  BY <1>2 DEF Aged
<1>8. astray \subseteq astray' /\ (Ok(c, got) \in wire' \/ astray' = astray \cup ({x} \cap Topics))
  BY ReplyOutcome
<1> DEFINE b == AcctOf(sessions, app.token)
<1>9. app.token = 0 \/ b \in Accounts
  BY ProfileFacts, PageFacts, OwnCall DEF AcctOf
<1> HIDE DEF b
<1>10. \/ app.token = 0
       \/ MeOf(names', verified', b) = MeOf(names, verified, b)
       \/ \E d \in wire' : BringsProfile(d, b, sessions')
       \/ "profile" \in astray'
  <2>1. CASE x # "profile" \/ b # a
    BY <1>9, <2>1
  <2>2. CASE x = "profile" /\ b = a
    <3>1. astray \subseteq astray' /\ (Ok(c, got) \in wire' \/ astray' = astray \cup ({"profile"} \cap Topics))
      BY <1>8, <2>2
    <3>2. "profile" \in Topics
      BY DEF Topics
    <3>3. CASE Ok(c, got) \in wire'
      BY <2>2, <3>3
    <3>4. CASE astray' = astray \cup ({"profile"} \cap Topics)
      BY <3>2, <3>4
    <3> QED
      BY <3>1, <3>3, <3>4
  <2> QED
    BY <2>1, <2>2
<1> QED
  BY <1>6, <1>7, <1>8, <1>10, ProfileServed DEF b

LEMMA ProfileServeRead ==
  ASSUME ProfileInv, OwnInv', NEW c \in wire, ServeRead(c)
  PROVE  ProfileInv'
<1> DEFINE a == Acct(c.tok)
           full == [user |-> IF c.kind \in {"load", "me"} THEN Me(a) ELSE NoUser,
                    items |-> IF c.kind \in {"load", "images"} THEN List(a) ELSE {},
                    rows |-> CASE c.kind = "keys" -> Rows(a, "keys")
                               [] c.kind \in {"orders", "reorders"} -> Rows(a, "orders")
                               [] OTHER -> NoRows,
                    tok |-> 0]
<1>1. /\ c.kind \in Reads /\ c.at = "sent" /\ ByServer /\ sessions' = sessions /\ astray' = astray
      /\ names' = names /\ verified' = verified /\ wire' = (wire \ {c}) \cup {Ok(c, full)}
  BY DEF ServeRead, Served, server, Ok
<1>2. full.tok = 0 /\ (c.kind \in {"load", "me"} => full.user = MeOf(names, verified, AcctOf(sessions, c.tok)))
  BY AcctIs DEF Me, MeOf
<1> HIDE DEF full
<1>3. CallShape(c, Len(sessions))
  BY ProfileFacts DEF Calls
<1>4. CallProfile(Ok(c, full), sessions', names', verified')
  BY <1>1, <1>2, <1>3, OkFields DEF CallProfile, Reads, Bringing, Answered0
<1>5. \A d \in wire' : CallProfile(d, sessions', names', verified')
  BY <1>1, <1>4, ProfileFacts
<1>6. \A e \in wire : e.at = "ok" => \E d \in wire' : Kin(e, d)
  BY <1>1 DEF Kin
<1> QED
  BY <1>1, <1>5, <1>6, ProfileFacts, GrowsSame, ProfileServed

LEMMA ProfileRefuse ==
  ASSUME ProfileInv, OwnInv', NEW c \in wire, Refuse(c)
  PROVE  ProfileInv'
<1>1. /\ ByServer /\ sessions' = sessions /\ astray' = astray /\ c.at = "sent"
      /\ names' = names /\ verified' = verified /\ wire' = (wire \ {c}) \cup {Lost(c)}
  BY DEF Refuse, server, Lost
<1>2. CallProfile(Lost(c), sessions', names', verified')
  BY ProfileFacts, LostFields DEF Calls, CallProfile
<1>3. \A d \in wire' : CallProfile(d, sessions', names', verified')
  BY <1>1, <1>2, ProfileFacts
<1>4. \A e \in wire : e.at = "ok" => \E d \in wire' : Kin(e, d)
  BY <1>1 DEF Kin
<1> QED
  BY <1>1, <1>3, <1>4, ProfileFacts, GrowsSame, ProfileServed

\* The record of a user once verified
LEMMA MadeVerified ==
  ASSUME NEW x, NEW y, NEW z
  PROVE  [[of |-> x, name |-> y, verified |-> z] EXCEPT !.verified = TRUE] = [of |-> x, name |-> y, verified |-> TRUE]
<1> DEFINE yes == TRUE
<1>1. yes
  OBVIOUS
<1> HIDE DEF yes
<1>2. [[of |-> x, name |-> y, verified |-> z] EXCEPT !.verified = yes] = [of |-> x, name |-> y, verified |-> yes]
  OBVIOUS
<1>3. yes = TRUE
  BY Zenon DEF yes
<1> QED
  BY <1>2, <1>3, Zenon

LEMMA ProfileServeVerify ==
  ASSUME ProfileInv, OwnInv', NEW c \in wire, ServeVerify(c)
  PROVE  ProfileInv'
<1> DEFINE u == [Me(c.arg) EXCEPT !.verified = TRUE]
           got == SessionGot(u, c.tok)
<1>1. /\ ByServer /\ sessions' = sessions /\ Reply(c, got, "profile", c.arg) /\ c.kind = "verify"
      /\ c.at = "sent" /\ names' = names /\ verified' = verified \cup {c.arg}
  BY DEF ServeVerify, Served, SessionGot
<1>2. u = MeOf(names', verified', c.arg)
  <2>1. u = [of |-> c.arg, name |-> names[c.arg], verified |-> TRUE]
    BY MadeVerified DEF Me
  <2>2. (c.arg \in verified') = TRUE
    BY <1>1
  <2> HIDE DEF u
  <2> QED
    BY <1>1, <2>1, <2>2 DEF MeOf
<1> HIDE DEF u
<1>3. got.user = u /\ got.tok = c.tok
  BY GotSession
<1> HIDE DEF got
<1>4. c.tok # 0 /\ AcctOf(sessions, c.tok) = c.arg /\ CallShape(c, Len(sessions))
  BY <1>1, ProfileFacts, OwnCall DEF CallOwns
<1>5. /\ Ok(c, got).kind = "verify" /\ Ok(c, got).at = "ok" /\ Ok(c, got).got = got /\ Ok(c, got).tok = c.tok
  BY <1>1, <1>4, OkFields
<1>6. Answered0(Ok(c, got), sessions') = c.arg
  BY <1>1, <1>3, <1>4, <1>5 DEF Answered0
<1>7. CallProfile(Ok(c, got), sessions', names', verified') /\ BringsProfile(Ok(c, got), c.arg, sessions')
  BY <1>2, <1>3, <1>5, <1>6 DEF CallProfile, BringsProfile
<1>8. \A b : b # c.arg => MeOf(names', verified', b) = MeOf(names, verified, b)
  BY <1>1 DEF MeOf
<1> QED
  BY <1>1, <1>7, <1>8, ProfileFacts, GrowsSame, ProfileReply

LEMMA ProfileServeProfile ==
  ASSUME ProfileInv, OwnInv', NEW c \in wire, ServeProfile(c)
  PROVE  ProfileInv'
<1> DEFINE a == AcctOf(sessions, c.tok)
           u == [Me(a) EXCEPT !.name = c.arg]
           got == [NoAnswer EXCEPT !.user = u]
<1>1. /\ ByServer /\ sessions' = sessions /\ Reply(c, got, "profile", a) /\ c.tok # 0
      /\ c.kind = "profile" /\ c.at = "sent" /\ verified' = verified
      /\ names' = [names EXCEPT ![a] = c.arg]
  BY AcctIs DEF ServeProfile, Served
<1>2. a \in Accounts /\ CallShape(c, Len(sessions))
  BY <1>1, ProfileFacts, OwnCall
<1>3. /\ names' = [b \in Accounts |-> names'[b]] /\ names'[a] = c.arg
      /\ \A b \in Accounts : b # a => names'[b] = names[b]
  <2> HIDE DEF a
  <2>1. names = [b \in Accounts |-> names[b]]
    BY ProfileFacts
  <2>2. names' = [b \in Accounts |-> IF b = a THEN c.arg ELSE names[b]]
    BY <1>1, <2>1
  <2> QED
    BY <1>2, <2>2
<1>4. u = MeOf(names', verified', a)
  BY <1>1, <1>3 DEF Me, MeOf
<1> HIDE DEF u
<1>5. got.user = u /\ got.tok = 0
  BY GotUser
<1> HIDE DEF got
<1>6. /\ Ok(c, got).kind = "profile" /\ Ok(c, got).at = "ok" /\ Ok(c, got).got = got /\ Ok(c, got).tok = c.tok
  BY <1>1, <1>2, OkFields
<1>7. Answered0(Ok(c, got), sessions') = a
  BY <1>1, <1>5, <1>6 DEF Answered0
<1> HIDE DEF a
<1>8. CallProfile(Ok(c, got), sessions', names', verified') /\ BringsProfile(Ok(c, got), a, sessions')
  BY <1>4, <1>5, <1>6, <1>7 DEF CallProfile, BringsProfile
<1>9. \A b \in Accounts : b # a => MeOf(names', verified', b) = MeOf(names, verified, b)
  BY <1>1, <1>3 DEF MeOf
<1> QED
  BY <1>1, <1>3, <1>8, <1>9, GrowsSame, ProfileReply

LEMMA ProfileServe ==
  ASSUME ProfileInv, OwnInv', NEW c \in wire, Serve(c)
  PROVE  ProfileInv'
<1>1. ASSUME NEW got, NEW x, NEW a, x # "profile", c.at = "sent", ByServer,
             Grows(sessions, sessions', Len(sessions)), Reply(c, got, x, a), names' = names, verified' = verified,
             CallProfile(Ok(c, got), sessions', names, verified)
      PROVE  ProfileInv'
  BY <1>1, ProfileFacts, ProfileReply
<1>2. ASSUME NEW a \in journey.who, ServeSignIn(c, a)
      PROVE  ProfileInv'
  <2> DEFINE n == Len(sessions')
             got == SessionGot(Me(a), n)
  <2>1. /\ ByServer /\ sessions' = Append(sessions, a) /\ Reply(c, got, "none", a) /\ c.at = "sent"
        /\ names' = names /\ verified' = verified
    BY <1>2 DEF ServeSignIn, Served, SessionGot
  <2>2. a \in Accounts
    BY ProfileFacts, JourneyFacts
  <2>3. /\ Grows(sessions, sessions', Len(sessions)) /\ n = Len(sessions) + 1
        /\ AcctOf(sessions', n) = a /\ n # 0 /\ CallShape(c, Len(sessions))
    BY <2>1, <2>2, ProfileFacts, OwnCall, GrowsAppend
  <2> HIDE DEF n
  <2>4. got.user = MeOf(names, verified, a) /\ got.tok = n
    BY GotSession DEF Me, MeOf
  <2> HIDE DEF got
  <2>5. CallProfile(Ok(c, got), sessions', names, verified)
    BY <2>3, <2>4, OkFields DEF CallProfile, Answered0
  <2> QED
    BY <1>1, <2>1, <2>3, <2>5
<1>3. ASSUME ServeMail(c) \/ ServeImage(c) \/ ServeWrite(c)
      PROVE  ProfileInv'
  <2>1. /\ ByServer /\ sessions' = sessions /\ names' = names /\ verified' = verified /\ c.at = "sent"
        /\ c.kind \in {"resend", "forgot", "reset", "oauth", "upload", "import", "delete", "toggle",
                       "checkout", "create", "revoke"}
    BY <1>3 DEF ServeMail, ServeImage, ServeWrite, Served, server
  <2>2. \E got, x, a : Reply(c, got, x, a) /\ x # "profile"
    <3>1. CASE ServeImage(c)
      <4>1. c.kind \in {"upload", "import", "delete", "toggle"}
        BY <3>1 DEF ServeImage, Served
      <4>2. \E got : Reply(c, got, "gallery", Acct(c.tok))
        BY <3>1, <4>1 DEF ServeImage
      <4> QED
        BY <4>2
    <3> QED
      BY <1>3, <3>1 DEF ServeMail, ServeWrite
  <2>3. \A got : CallProfile(Ok(c, got), sessions', names, verified)
    <3>1. CallShape(c, Len(sessions)) /\ c.kind \notin Bringing
      BY <2>1, ProfileFacts DEF Calls, Bringing
    <3> QED
      BY <3>1, OkFields DEF CallProfile
  <2> QED
    BY <1>1, <2>1, <2>2, <2>3, GrowsSame
<1> QED
  BY <1>2, <1>3, ProfileServeRead, ProfileServeVerify, ProfileServeProfile, ProfileRefuse DEF Serve

LEMMA InitProfile ==
  ASSUME Init
  PROVE  ProfileInv
<1>1. OwnInv
  BY InitOwn
<1>2. app.token = 0 /\ wire = {} /\ names = [a \in Accounts |-> "first"]
  BY DEF Init
<1>3. names = [b \in Accounts |-> names[b]]
  BY <1>2
<1> QED
  BY <1>1, <1>2, <1>3 DEF ProfileInv, ProfileAt

LEMMA ProfileNext ==
  ASSUME ProfileInv, [Next]_vars
  PROVE  ProfileInv'
<1>1. OwnInv'
  BY ProfileFacts, OwnNext
<1>2. CASE UNCHANGED vars
  <2>1. /\ app' = app /\ wire' = wire /\ sessions' = sessions /\ astray' = astray
        /\ names' = names /\ verified' = verified
    BY <1>2 DEF vars, server
  <2> QED
    BY <1>1, <2>1, ProfileFacts DEF ProfileInv
<1> QED
  BY <1>1, <1>2, ProfileAct, ProfileServe, ProfileAnswered DEF Next
-----------------------------------------------------------------------------
(* The images on the screen.                                               *)

\* Image i as a list shows it, kept private or not
Hid(i) == [img |-> i, private |-> TRUE]
Open(i) == [img |-> i, private |-> FALSE]
Toggled(c) == IF c.want THEN Hid(c.arg) ELSE Open(c.arg)
Pic(x, us) == \E i \in us : x = Hid(i) \/ x = Open(i)

\* List s shows image i as the server, with images st, hid of them private,
\* lists it to account b.
Right(s, i, b, st, hid) ==
  /\ Hid(i) \in s <=> i \in st /\ Owner[i] = b /\ i \in hid
  /\ Open(i) \in s <=> i \in st /\ Owner[i] = b /\ i \notin hid

\* What a call that is for images carries
CallPics(c, ss, st, hid, us) ==
  /\ c.kind \in {"upload", "import", "delete", "toggle"} => c.arg \in Images
  /\ c.kind = "toggle" => c.want \in BOOLEAN
  /\ \A x \in c.got.items : Pic(x, us)
  /\ c.at = "ok" /\ ~c.stale /\ c.kind \in {"load", "images"} =>
       \A i \in Images : Right(c.got.items, i, AcctOf(ss, c.tok), st, hid)
  /\ c.at \in {"ok", "timer"} /\ c.kind = "upload" =>
       c.got.items = {Open(c.arg)} /\ (~c.stale => c.arg \in st /\ c.arg \notin hid)
  /\ c.at = "ok" /\ c.kind = "delete" => c.arg \notin st /\ c.arg \in us
  /\ c.at = "ok" /\ c.kind = "toggle" =>
       /\ c.got.items = {Toggled(c)} /\ Owner[c.arg] = AcctOf(ss, c.tok)
       /\ ~c.stale => c.arg \in st /\ (c.want <=> c.arg \in hid)

\* The answer to an upload that nothing overtook: no list has the image as
\* private, and the detail view does not.
Fresh(c) == c.kind = "upload" /\ c.at \in {"ok", "timer"} /\ ~c.stale
Plain(i, s, x, w) == Hid(i) \notin s /\ x # Hid(i) /\ \A d \in w : Hid(i) \notin d.got.items

\* Call c will change what list s shows of image i, or put it out of step.
Coming(c, i, s) ==
  \/ c.kind = "load" /\ c.live
  \/ c.kind = "import" /\ c.at = "ok" /\ c.arg = i
  \/ c.kind = "upload" /\ c.at \in {"ok", "timer"} /\ c.arg = i
  \/ c.kind = "delete" /\ c.at = "ok" /\ c.arg = i
  \/ c.kind = "toggle" /\ c.at = "ok" /\ c.arg = i /\ (c.stale \/ Hid(i) \in s \/ Open(i) \in s)

GalleryAt(s, w, t, a, ss, st, hid) ==
  t # 0 /\ "gallery" \notin a =>
    \A i \in Images : Right(s, i, AcctOf(ss, t), st, hid) \/ \E c \in w : Coming(c, i, s)
DetailAt(x, s, w, t, a) ==
  t # 0 /\ "gallery" \notin a /\ "detail" \notin a =>
    x \in s \cup {NoItem} \/ \E c \in w : Coming(c, x.img, s)

PicsAt(s, x, w, ss, st, hid, us) ==
  /\ \A y \in s : Pic(y, us)
  /\ x = NoItem \/ Pic(x, us)
  /\ \A c \in w : CallPics(c, ss, st, hid, us)
  /\ \A c \in w : Fresh(c) => Plain(c.arg, s, x, w)

PicInv ==
  /\ OwnInv
  /\ stored \subseteq used /\ used \subseteq Images /\ hidden \subseteq stored
  /\ PicsAt(app.gallery, ui.selected, wire, sessions, stored, hidden, used)
  /\ GalleryAt(app.gallery, wire, app.token, astray, sessions, stored, hidden)
  /\ DetailAt(ui.selected, app.gallery, wire, app.token, astray)

LEMMA PicFacts ==
  ASSUME PicInv
  PROVE  /\ OwnInv /\ CheckInv /\ Calls(wire, Len(sessions)) /\ UiShape(ui, Len(sessions))
         /\ stored \subseteq used /\ used \subseteq Images /\ hidden \subseteq stored
         /\ PicsAt(app.gallery, ui.selected, wire, sessions, stored, hidden, used)
         /\ GalleryAt(app.gallery, wire, app.token, astray, sessions, stored, hidden)
         /\ DetailAt(ui.selected, app.gallery, wire, app.token, astray)
  BY OwnFacts DEF PicInv

LEMMA PicFields ==
  ASSUME NEW i, NEW j
  PROVE  /\ Hid(i).img = i /\ Open(i).img = i /\ Hid(i) # Open(j) /\ NoItem = Open(Nobody)
         /\ Hid(i) = Hid(j) => i = j
         /\ Open(i) = Open(j) => i = j
  BY DEF Hid, Open, NoItem

\* A call that has not been answered
LEMMA PicsUnanswered ==
  ASSUME NEW c, c.at \notin {"ok", "timer"}, c.got.items = {}, NEW ss, NEW st, NEW hid, NEW us,
         c.kind \in {"upload", "import", "delete", "toggle"} => c.arg \in Images,
         c.kind = "toggle" => c.want \in BOOLEAN
  PROVE  CallPics(c, ss, st, hid, us) /\ ~Fresh(c)
  BY DEF CallPics, Fresh

LEMMA AskPics ==
  ASSUME NEW kind \in Reads, NEW tok, NEW ss, NEW st, NEW hid, NEW us
  PROVE  /\ CallPics(Ask(kind, tok, Nobody), ss, st, hid, us)
         /\ ~Fresh(Ask(kind, tok, Nobody)) /\ Ask(kind, tok, Nobody).got.items = {}
<1> DEFINE c == Ask(kind, tok, Nobody)
<1>1. c.at = "sent" /\ c.got.items = {} /\ c.kind \notin {"upload", "import", "delete", "toggle"}
  BY DEF Ask, NoAnswer, Reads
<1> HIDE DEF c
<1>2. CallPics(c, ss, st, hid, us) /\ ~Fresh(c)
  BY <1>1, PicsUnanswered
<1> QED
  BY <1>1, <1>2 DEF c

LEMMA PicPage ==
  ASSUME PicInv, OwnInv', NEW p, NEW g, NEW w, NEW a, NEW again, UiShape(g, Len(sessions)),
         Calls(w, Len(sessions)), PicsAt(p.gallery, g.selected, w, sessions, stored, hidden, used),
         p.token = app.token =>
           /\ GalleryAt(p.gallery, w, app.token, a, sessions, stored, hidden)
           /\ DetailAt(g.selected, p.gallery, w, app.token, a),
         Render(p, g, w, a, again), ByClient
  PROVE  PicInv'
<1> DEFINE moved == Screen(p) # Screen(app)
           left(c, d) == /\ Kin(c, d) /\ d.stale = c.stale
                         /\ p.token = app.token /\ c.kind = "load" /\ c.live => d.live
<1>1. /\ \A c \in w : \E d \in wire' : left(c, d)
      /\ \A d \in wire' : \/ \E c \in w : left(c, d)
                          \/ d = Ask("load", p.token, Nobody)
                          \/ d = Ask("orders", p.token, Nobody)
                          \/ d = Ask("keys", p.token, Nobody)
  BY RenderWire DEF AppOnly
<1>2. ui'.selected = IF moved THEN NoItem ELSE g.selected
  <2>1. Mounted(p).selected = NoItem
    BY DEF Mounted
  <2>2. (moved => ui' = Mounted(p)) /\ (~moved => ui'.selected = g.selected)
    BY RenderUi
  <2> QED
    BY <2>1, <2>2
<1>3. /\ app' = p /\ sessions' = sessions /\ stored' = stored /\ hidden' = hidden /\ used' = used
      /\ astray' = IF moved THEN a \ {"rows", "detail"} ELSE a
  BY DEF Render, ByClient, server
<1>4. p.token # 0 /\ p.token # app.token =>
        \E c \in wire' : c.kind = "load" /\ c.live
  <2> SUFFICES ASSUME p.token # 0, p.token # app.token
               PROVE  \E c \in wire' : c.kind = "load" /\ c.live
    OBVIOUS
  <2>1. Ask("load", p.token, Nobody).kind = "load" /\ Ask("load", p.token, Nobody).live
    BY DEF Ask
  <2>2. Ask("load", p.token, Nobody) \in wire'
    BY RenderCalls
  <2> QED
    BY <2>1, <2>2
<1>5. \A c \in w : \A d : left(c, d) =>
        /\ CallPics(c, sessions, stored, hidden, used) => CallPics(d, sessions, stored, hidden, used)
        /\ Fresh(d) => Fresh(c)
        /\ d.got = c.got /\ d.arg = c.arg
  BY DEF CallPics, Fresh, Kin, Toggled
<1>6. \A c \in w : \A d : left(c, d) /\ p.token = app.token =>
        \A i : Coming(c, i, p.gallery) => Coming(d, i, p.gallery)
  BY DEF Coming, Kin
<1>7. \A d \in wire' :
        \/ \E c \in w : left(c, d)
        \/ CallPics(d, sessions, stored, hidden, used) /\ ~Fresh(d) /\ d.got.items = {}
  BY <1>1, AskPics DEF Reads
<1> HIDE DEF left, moved
<1>8. \A d \in wire' : CallPics(d, sessions, stored, hidden, used)
  BY <1>5, <1>7 DEF PicsAt
<1>9. \A d \in wire' : Fresh(d) => Plain(d.arg, p.gallery, ui'.selected, wire')
  <2> SUFFICES ASSUME NEW d \in wire', Fresh(d)
               PROVE  Plain(d.arg, p.gallery, ui'.selected, wire')
    OBVIOUS
  <2>1. PICK c \in w : left(c, d)
    BY <1>7
  <2>2. Plain(d.arg, p.gallery, g.selected, w)
    BY <1>5, <2>1 DEF PicsAt
  <2>3. \A e \in wire' : Hid(d.arg) \notin e.got.items
    BY <1>5, <1>7, <2>2 DEF Plain
  <2> QED
    BY <1>2, <2>2, <2>3, PicFields DEF Plain
<1>10. PicsAt(p.gallery, ui'.selected, wire', sessions, stored, hidden, used)
  BY <1>2, <1>8, <1>9 DEF PicsAt
<1>11. GalleryAt(p.gallery, wire', p.token, astray', sessions, stored, hidden)
  <2>1. CASE p.token = app.token
    <3>1. \A i : (\E c \in w : Coming(c, i, p.gallery)) => \E d \in wire' : Coming(d, i, p.gallery)
      BY <1>1, <1>6, <2>1
    <3>2. "gallery" \in a => "gallery" \in astray'
      BY <1>3
    <3> QED
      BY <2>1, <3>1, <3>2 DEF GalleryAt
  <2>2. CASE p.token # app.token
    BY <1>4, <2>2 DEF GalleryAt, Coming
  <2> QED
    BY <2>1, <2>2
<1>12. DetailAt(ui'.selected, p.gallery, wire', p.token, astray')
  <2>1. CASE moved
    BY <1>2, <2>1 DEF DetailAt
  <2>2. CASE ~moved /\ p.token = app.token
    <3>1. \A i : (\E c \in w : Coming(c, i, p.gallery)) => \E d \in wire' : Coming(d, i, p.gallery)
      BY <1>1, <1>6, <2>2
    <3>2. ui'.selected = g.selected /\ astray' = a
      BY <1>2, <1>3, <2>2
    <3> QED
      BY <2>2, <3>1, <3>2 DEF DetailAt
  <2>3. CASE p.token # app.token
    BY <1>4, <2>3 DEF DetailAt, Coming
  <2> QED
    BY <2>1, <2>2, <2>3
<1> QED
  BY <1>3, <1>10, <1>11, <1>12, PicFacts DEF PicInv

\* A call that changes nothing that is shown of images
Idle(c) == \A i, s : ~Coming(c, i, s)

\* The images shown stay, and no call goes that will change them.
LEMMA PicSame ==
  ASSUME PicInv, OwnInv', NEW p, NEW g, NEW w, NEW a, NEW again, UiShape(g, Len(sessions)),
         Calls(w, Len(sessions)), Render(p, g, w, a, again), ByClient,
         p.gallery = app.gallery, g.selected = ui.selected \/ g.selected = NoItem,
         \A d \in w : \/ d \in wire
                      \/ CallPics(d, sessions, stored, hidden, used) /\ ~Fresh(d) /\ d.got.items = {},
         "gallery" \notin a => \A e \in wire : e \in w \/ Idle(e),
         "gallery" \in astray => "gallery" \in a, "detail" \in astray => "detail" \in a
  PROVE  PicInv'
<1>1. PicsAt(p.gallery, g.selected, w, sessions, stored, hidden, used)
  <2>1. \A d \in w : CallPics(d, sessions, stored, hidden, used)
    BY PicFacts DEF PicsAt
  <2>2. ASSUME NEW d \in w, Fresh(d)
        PROVE  Plain(d.arg, p.gallery, g.selected, w)
    <3>1. d \in wire
      BY <2>2
    <3>2. Plain(d.arg, app.gallery, ui.selected, wire)
      BY <2>2, <3>1, PicFacts DEF PicsAt
    <3> QED
      BY <3>2, PicFields DEF Plain
  <2> QED
    BY <2>1, <2>2, PicFacts DEF PicsAt
<1>2. "gallery" \notin a =>
        \A i : (\E c \in wire : Coming(c, i, app.gallery)) => \E c \in w : Coming(c, i, app.gallery)
  BY DEF Idle
<1>3. GalleryAt(p.gallery, w, app.token, a, sessions, stored, hidden)
  BY <1>2, PicFacts DEF GalleryAt
<1>4. DetailAt(g.selected, p.gallery, w, app.token, a)
  BY <1>2, PicFacts DEF DetailAt
<1> QED
  BY <1>1, <1>3, <1>4, PicPage

LEMMA PicReopen ==
  ASSUME PicInv, OwnInv', NEW v, NEW calls, calls \subseteq {Ask("callback", 0, Nobody)}, Reopen(v, calls)
  PROVE  PicInv'
<1>1. /\ app' = Opened(v) /\ ui' = Mounted(app') /\ wire' = LoadEffect(app', TRUE) \cup calls /\ astray' = {}
      /\ sessions' = sessions /\ stored' = stored /\ hidden' = hidden /\ used' = used
  BY DEF Reopen, server
<1>2. app'.gallery = {}
  BY <1>1 DEF Opened
<1>3. ui'.selected = NoItem
  BY <1>1 DEF Mounted
<1>4. \A d \in wire' : CallPics(d, sessions, stored, hidden, used) /\ ~Fresh(d)
  <2>1. \A d \in wire' : d.at = "sent" /\ d.got.items = {} /\ d.kind \in {"load", "callback"}
    BY <1>1 DEF LoadEffect, Ask, NoAnswer
  <2> QED
    BY <2>1, PicsUnanswered
<1>5. PicsAt(app'.gallery, ui'.selected, wire', sessions', stored', hidden', used')
  BY <1>1, <1>2, <1>3, <1>4 DEF PicsAt
<1>6. app'.token # 0 => \E c \in wire' : c.kind = "load" /\ c.live
  <2> DEFINE c == Ask("load", app'.token, Nobody)
  <2>1. app'.token # 0 => c \in wire'
    BY <1>1 DEF LoadEffect
  <2>2. c.kind = "load" /\ c.live
    BY DEF Ask
  <2> HIDE DEF c
  <2> QED
    BY <2>1, <2>2
<1>7. GalleryAt(app'.gallery, wire', app'.token, astray', sessions', stored', hidden')
  BY <1>6 DEF GalleryAt, Coming
<1>8. DetailAt(ui'.selected, app'.gallery, wire', app'.token, astray')
  BY <1>3 DEF DetailAt
<1> QED
  BY <1>1, <1>5, <1>7, <1>8, PicFacts DEF PicInv

LEMMA PicSending ==
  ASSUME PicInv, OwnInv', NEW g, NEW c, Sending(g, c)
  PROVE  PicInv'
<1>1. /\ Render(app, g, wire \cup {c}, astray, FALSE) /\ ByClient
      /\ UiShape(g, Len(sessions)) /\ g.selected = ui.selected
      /\ CallShape(c, Len(sessions)) /\ CallTrue(c) /\ Asked(c)
  BY DEF Sending, Send, Alike
<1>2. Calls(wire \cup {c}, Len(sessions))
  BY <1>1, PicFacts DEF Calls
<1>3. Detail => ui.selected.img \in Images
  <2>1. ui.selected = NoItem \/ Pic(ui.selected, used)
    BY PicFacts DEF PicsAt
  <2> QED
    BY <2>1, PicFacts, PicFields DEF Detail, Pic
<1>4. c.kind \in {"upload", "import", "delete", "toggle"} => c.arg \in Images
  BY <1>1, <1>3 DEF Asked
<1>5. c.at = "sent" /\ c.got.items = {} /\ c.want \in BOOLEAN
  BY <1>1 DEF Asked, NoAnswer
<1>6. CallPics(c, sessions, stored, hidden, used) /\ ~Fresh(c)
  BY <1>4, <1>5, PicsUnanswered
<1> DEFINE w == wire \cup {c}
<1>7. /\ \A e \in wire : e \in w
      /\ \A d \in w : \/ d \in wire
                      \/ CallPics(d, sessions, stored, hidden, used) /\ ~Fresh(d) /\ d.got.items = {}
  BY <1>5, <1>6
<1> HIDE DEF w
<1> QED
  BY <1>1, <1>2, <1>7, PicSame DEF w

LEMMA PicSelect ==
  ASSUME PicInv, OwnInv', NEW item \in app.gallery, Select(item)
  PROVE  PicInv'
<1> DEFINE g == [ui EXCEPT !.selected = item]
<1>1. Render(app, g, wire, astray \ {"detail"}, FALSE) /\ ByClient
  BY DEF Select
<1>2. UiShape(g, Len(sessions)) /\ g.selected = item
  BY PicFacts, SelectDoes
<1> HIDE DEF g
<1>3. Pic(item, used)
  BY PicFacts DEF PicsAt
<1>4. ASSUME NEW c \in wire, Fresh(c)
      PROVE  Plain(c.arg, app.gallery, item, wire)
  BY <1>4, PicFacts DEF PicsAt, Plain
<1>5. PicsAt(app.gallery, item, wire, sessions, stored, hidden, used)
  BY <1>3, <1>4, PicFacts DEF PicsAt
<1>6. GalleryAt(app.gallery, wire, app.token, astray \ {"detail"}, sessions, stored, hidden)
  BY PicFacts DEF GalleryAt
<1>7. DetailAt(item, app.gallery, wire, app.token, astray \ {"detail"})
  BY DEF DetailAt
<1> QED
  BY <1>1, <1>2, <1>5, <1>6, <1>7, PicFacts, PicPage

LEMMA PicAct ==
  ASSUME PicInv, OwnInv', Act
  PROVE  PicInv'
<1>0. CheckInv
  BY PicFacts
<1>1. ASSUME NEW p, NEW g, NEW a, Render(p, g, wire, a, FALSE), ByClient, UiShape(g, Len(sessions)),
             p.gallery = app.gallery, g.selected = ui.selected \/ g.selected = NoItem,
             "gallery" \in astray => "gallery" \in a, "detail" \in astray => "detail" \in a
      PROVE  PicInv'
  BY <1>1, PicFacts, PicSame
<1>2. ASSUME NEW v, Show(v)
      PROVE  PicInv'
  <2> DEFINE p == AppRec(v, app.user, app.usage, app.token, app.ifpay, app.gallery)
  <2>1. Render(p, ui, wire, astray, FALSE) /\ ByClient
    BY <1>0, <1>2, ShowDoes DEF Show
  <2>2. p.gallery = app.gallery
    BY DEF AppRec
  <2> HIDE DEF p
  <2> QED
    BY <1>1, <2>1, <2>2, PicFacts
<1>3. CASE Logout
  <2> DEFINE p == AppRec("landing", NoUser, Nobody, 0, FALSE, app.gallery)
  <2>1. Render(p, ui, wire, astray \ {"session"}, FALSE) /\ ByClient
    BY <1>0, <1>3, LogoutDoes DEF Logout
  <2>2. p.gallery = app.gallery
    BY DEF AppRec
  <2> HIDE DEF p
  <2> QED
    BY <1>1, <2>1, <2>2, PicFacts
<1>4. ASSUME NEW g, Set(g), UiShape(g, Len(sessions)), g.selected = ui.selected \/ g.selected = NoItem
      PROVE  PicInv'
  BY <1>1, <1>4 DEF Set
<1>5. CASE Back
  BY <1>0, <1>4, <1>5, SelectDoes DEF Back
<1>6. ASSUME NEW m \in Modes, SwitchMode(m)
      PROVE  PicInv'
  <2> DEFINE g == [ui EXCEPT !.mode = m]
  <2>1. Set(g)
    BY <1>6 DEF SwitchMode
  <2>2. UiShape(g, Len(sessions)) /\ Alike(g, ui)
    BY <1>0, AppFacts, AlikeUi
  <2> HIDE DEF g
  <2> QED
    BY <1>4, <2>1, <2>2 DEF Alike
<1>7. ASSUME NEW x \in Names, EditAlias(x)
      PROVE  PicInv'
  BY <1>0, <1>4, <1>7, AliasDoes DEF EditAlias
<1>8. CASE On("pricing") /\ app.token = 0 /\ Set([ui EXCEPT !.rows = NoRows])
  BY <1>0, <1>4, <1>8, RowsDoes
<1>9. ASSUME NEW v \in {"landing", "docs"}, Reload(v)
      PROVE  PicInv'
  BY <1>9, PicReopen DEF Reload
<1> QED
  BY <1>0, <1>2, <1>3, <1>5, <1>6, <1>7, <1>8, <1>9, ActDoes, PicSending, PicSelect

\* The answer to a call that changes no images is handled.
LEMMA PicDone ==
  ASSUME PicInv, OwnInv', NEW c \in wire, NEW p, NEW g, NEW a, UiShape(g, Len(sessions)), Done(c, p, g, a),
         p.gallery = app.gallery, g.selected = ui.selected, "gallery" \notin a => Idle(c),
         "gallery" \in astray => "gallery" \in a, "detail" \in astray => "detail" \in a
  PROVE  PicInv'
<1> DEFINE w == wire \ {c}
<1>1. Render(p, Local(c, g), w, a, FALSE) /\ ByClient
  BY DEF Done
<1>2. UiShape(Local(c, g), Len(sessions)) /\ Local(c, g).selected = ui.selected
  BY PicFacts DEF Local
<1>3. Calls(w, Len(sessions))
  BY PicFacts DEF Calls
<1>4. (\A d \in w : d \in wire) /\ ("gallery" \notin a => \A e \in wire : e \in w \/ Idle(e))
  OBVIOUS
<1> HIDE DEF w
<1> QED
  BY <1>1, <1>2, <1>3, <1>4, PicSame

LEMMA IdleKinds ==
  ASSUME NEW c, c.kind \notin {"load", "import", "upload", "delete", "toggle"}
                  \/ (c.kind = "load" /\ ~c.live) \/ (c.kind # "load" /\ c.at \in {"sent", "failed"})
  PROVE  Idle(c)
  BY DEF Idle, Coming

LEMMA StrayPics ==
  ASSUME NEW s, NEW c
  PROVE  \A x \in {"gallery", "detail"} : x \in s =>
           /\ x \in Checked(s, c, {"session", "profile"}) /\ x \in Checked(s, c, {"rows"})
           /\ x \in Full(s, c, {"session", "usage", "profile"}) /\ x \in Full(s, c, {"rows"})
           /\ x \in Partial(s \ {"profile"}, c, {"session", "profile"})
  BY DEF Full, Checked, Partial

\* The answers whose handlers leave the gallery and the detail view alone
LEMMA PicOther ==
  ASSUME PicInv, OwnInv', NEW c \in wire,
         \/ SignedIn(c) \/ IFPayCallback(c) \/ AuthAnswered(c) \/ (Loaded(c) /\ ~c.live) \/ LoadFailed(c)
         \/ MeAnswered(c) \/ ProfileSaved(c) \/ OrdersAnswered(c) \/ KeysAnswered(c) \/ Failed(c)
  PROVE  PicInv'
<1>0. CheckInv /\ UiShape(ui, Len(sessions))
  BY PicFacts
<1>1. ASSUME Idle(c), NEW p, NEW g, NEW a, Done(c, p, g, a), UiShape(g, Len(sessions)),
             p.gallery = app.gallery, g.selected = ui.selected,
             "gallery" \in astray => "gallery" \in a, "detail" \in astray => "detail" \in a
      PROVE  PicInv'
  BY <1>1, PicDone
<1>2. ~LoadFailed(c) => Idle(c)
  BY IdleKinds DEF SignedIn, IFPayCallback, AuthAnswered, Loaded, MeAnswered, ProfileSaved,
                   OrdersAnswered, KeysAnswered, Failed, Answered
<1>3. CASE SignedIn(c)
  <2> DEFINE p == AppRec("dashboard", c.got.user, Nobody, c.got.tok, app.ifpay, app.gallery)
             a == Checked(astray, c, {"session", "profile"})
  <2>1. ("gallery" \in astray => "gallery" \in a) /\ ("detail" \in astray => "detail" \in a)
    BY StrayPics
  <2>2. PICK g : UiShape(g, Len(sessions)) /\ Alike(g, ui) /\ Done(c, p, g, a)
    BY <1>0, <1>3, SignedInDoes
  <2>3. p.gallery = app.gallery
    BY DEF AppRec
  <2>4. ~LoadFailed(c)
    BY <1>3 DEF SignedIn, LoadFailed, Answered
  <2> HIDE DEF a, p
  <2> QED
    BY <1>1, <1>2, <2>1, <2>2, <2>3, <2>4 DEF Alike
<1>4. CASE IFPayCallback(c)
  <2> DEFINE s == IF app.usage \in {Nobody, c.got.user.of} THEN astray ELSE astray \cup {"usage"}
             a == Checked(s, c, {"session", "profile"})
             p == AppRec("pricing", c.got.user, app.usage, c.got.tok, TRUE, app.gallery)
  <2>1. Done(c, p, ui, a)
    BY <1>0, <1>4, CallbackDoes
  <2>2. \A x \in {"gallery", "detail"} : x \in s => x \in a
    BY StrayPics
  <2>3. \A x \in {"gallery", "detail"} : x \in astray => x \in s
    OBVIOUS
  <2>4. p.gallery = app.gallery
    BY DEF AppRec
  <2>5. ~LoadFailed(c)
    BY <1>4 DEF IFPayCallback, LoadFailed, Answered
  <2> HIDE DEF a, s, p
  <2> QED
    BY <1>0, <1>1, <1>2, <2>1, <2>2, <2>3, <2>4, <2>5
<1>5. CASE AuthAnswered(c)
  <2>1. ~LoadFailed(c)
    BY <1>5 DEF AuthAnswered, LoadFailed, Answered
  <2> QED
    BY <1>0, <1>1, <1>2, <1>5, <2>1, AuthDoes
<1>6. CASE Loaded(c) /\ ~c.live
  <2>1. ~LoadFailed(c) /\ Done(c, app, ui, astray)
    BY <1>6 DEF Loaded, LoadFailed, Answered
  <2> QED
    BY <1>0, <1>1, <1>2, <2>1
<1>7. CASE LoadFailed(c)
  <2> DEFINE a == IF app.user = NoUser THEN astray ELSE astray \cup {"session"}
             p == AppRec(app.view, app.user, app.usage, 0, app.ifpay, app.gallery)
             w == wire \ {c}
  <2>1. Render(p, ui, w, a, FALSE) /\ ByClient
    BY <1>0, <1>7, LoadFailedDoes DEF Done, Local
  <2>2. p.token = 0 /\ p.gallery = app.gallery
    BY DEF AppRec
  <2>3. Calls(w, Len(sessions)) /\ PicsAt(app.gallery, ui.selected, w, sessions, stored, hidden, used)
    BY PicFacts DEF Calls, PicsAt, Plain
  <2> HIDE DEF a, p, w
  <2>4. p.token = app.token =>
          /\ GalleryAt(p.gallery, w, app.token, a, sessions, stored, hidden)
          /\ DetailAt(ui.selected, p.gallery, w, app.token, a)
    BY <2>2 DEF GalleryAt, DetailAt
  <2> QED
    BY <1>0, <2>1, <2>2, <2>3, <2>4, PicPage
<1>8. CASE MeAnswered(c)
  <2> DEFINE a == Full(astray, c, {"session", "usage", "profile"})
             p == AppRec(app.view, c.got.user, c.got.user.of, app.token, app.ifpay, app.gallery)
  <2>1. ("gallery" \in astray => "gallery" \in a) /\ ("detail" \in astray => "detail" \in a)
    BY StrayPics
  <2>2. Done(c, p, ui, a)
    BY <1>0, <1>8, MeDoes
  <2>3. p.gallery = app.gallery
    BY DEF AppRec
  <2>4. ~LoadFailed(c)
    BY <1>8 DEF MeAnswered, LoadFailed, Answered
  <2> HIDE DEF a, p
  <2> QED
    BY <1>0, <1>1, <1>2, <2>1, <2>2, <2>3, <2>4
<1>9. CASE ProfileSaved(c)
  <2> DEFINE a == Partial(astray \ {"profile"}, c, {"session", "profile"})
             p == AppRec(app.view, c.got.user, app.usage, app.token, app.ifpay, app.gallery)
  <2>1. ("gallery" \in astray => "gallery" \in a) /\ ("detail" \in astray => "detail" \in a)
    BY StrayPics
  <2>2. Done(c, p, ui, a)
    BY <1>0, <1>9, ProfileDoes
  <2>3. p.gallery = app.gallery
    BY DEF AppRec
  <2>4. ~LoadFailed(c)
    BY <1>9 DEF ProfileSaved, LoadFailed, Answered
  <2> HIDE DEF a, p
  <2> QED
    BY <1>0, <1>1, <1>2, <2>1, <2>2, <2>3, <2>4
<1>10. CASE OrdersAnswered(c)
  <2> DEFINE g == [ui EXCEPT !.rows = c.got.rows, !.loading = FALSE]
             a == IF ~c.live THEN astray
                  ELSE IF c.at = "failed" THEN astray \cup {"rows"}
                  ELSE IF c.kind = "orders" THEN Checked(astray, c, {"rows"}) ELSE Full(astray, c, {"rows"})
  <2>1. Done(c, app, g, a)
    BY <1>10 DEF OrdersAnswered
  <2>2. UiShape(g, Len(sessions)) /\ g.selected = ui.selected
    BY <1>0, ListDoes
  <2>3. ("gallery" \in astray => "gallery" \in a) /\ ("detail" \in astray => "detail" \in a)
    BY StrayPics
  <2>4. ~LoadFailed(c)
    BY <1>10 DEF OrdersAnswered, LoadFailed
  <2> HIDE DEF a, g
  <2> QED
    BY <1>1, <1>2, <2>1, <2>2, <2>3, <2>4
<1>11. CASE KeysAnswered(c)
  <2> DEFINE h == [ui EXCEPT !.rows = c.got.rows]
             g == IF c.at = "ok" THEN h ELSE ui
             a == IF ~c.live THEN astray
                  ELSE IF c.at = "ok" THEN Full(astray, c, {"rows"})
                  ELSE astray \cup {"rows"}
  <2>1. Done(c, app, g, a)
    BY <1>11 DEF KeysAnswered
  <2>2. UiShape(h, Len(sessions)) /\ h.selected = ui.selected
    BY <1>0, RowsDoes
  <2>3. ("gallery" \in astray => "gallery" \in a) /\ ("detail" \in astray => "detail" \in a)
    BY StrayPics
  <2> HIDE DEF a, h
  <2>4. UiShape(g, Len(sessions)) /\ g.selected = ui.selected
    BY <1>0, <2>2
  <2>5. ~LoadFailed(c)
    BY <1>11 DEF KeysAnswered, LoadFailed
  <2> HIDE DEF g
  <2> QED
    BY <1>1, <1>2, <2>1, <2>3, <2>4, <2>5
<1>12. CASE Failed(c)
  <2>1. ~LoadFailed(c)
    BY <1>12 DEF Failed, LoadFailed
  <2>2. PICK g : UiShape(g, Len(sessions)) /\ Alike(g, ui) /\ Done(c, app, g, astray)
    BY <1>0, <1>12, FailedDoes
  <2> QED
    BY <1>1, <1>2, <2>1, <2>2 DEF Alike
<1> QED
  BY <1>3, <1>4, <1>5, <1>6, <1>7, <1>8, <1>9, <1>10, <1>11, <1>12

\* What is known of the images, without the call that is answered
LEMMA PicsRest ==
  ASSUME PicInv, NEW c \in wire
  PROVE  /\ Calls(wire \ {c}, Len(sessions))
         /\ \A d \in wire \ {c} : CallPics(d, sessions, stored, hidden, used)
         /\ \A d \in wire \ {c} : Fresh(d) => Plain(d.arg, app.gallery, ui.selected, wire)
  BY PicFacts DEF PicsAt, Calls

\* A list of images is shown.
LEMMA PicList ==
  ASSUME PicInv, OwnInv', NEW c \in wire, c.at = "ok", c.kind \in {"load", "images"}, NEW p, NEW a,
         Done(c, p, ui, a), p.gallery = c.got.items, p.token = app.token,
         "gallery" \notin a => ~c.stale /\ AcctOf(sessions, c.tok) = AcctOf(sessions, app.token),
         "detail" \notin a => ui.selected \in c.got.items \cup {NoItem}
  PROVE  PicInv'
<1> DEFINE w == wire \ {c}
<1>1. Render(p, ui, w, a, FALSE) /\ ByClient
  BY DEF Done, Local
<1>2. CallPics(c, sessions, stored, hidden, used)
  BY PicFacts DEF PicsAt
<1>3. \A d \in w : Fresh(d) => Plain(d.arg, p.gallery, ui.selected, w)
  BY PicsRest DEF Plain
<1>4. PicsAt(p.gallery, ui.selected, w, sessions, stored, hidden, used)
  BY <1>2, <1>3, PicFacts, PicsRest DEF PicsAt, CallPics
<1>5. GalleryAt(p.gallery, w, app.token, a, sessions, stored, hidden)
  BY <1>2 DEF GalleryAt, CallPics
<1>6. DetailAt(ui.selected, p.gallery, w, app.token, a)
  BY DEF DetailAt
<1>7. Calls(w, Len(sessions))
  BY PicsRest
<1> HIDE DEF w
<1> QED
  BY <1>1, <1>4, <1>5, <1>6, <1>7, PicFacts, PicPage

LEMMA PicLoaded ==
  ASSUME PicInv, OwnInv', NEW c \in wire, Loaded(c), c.live
  PROVE  PicInv'
<1> DEFINE p == AppRec(IF app.view \in {"landing", "auth"} THEN "dashboard" ELSE app.view, c.got.user,
                       c.got.user.of, app.token, app.ifpay, c.got.items)
           b == Checked(astray, c, {"session", "usage", "gallery", "profile"})
           a == Detached(b, c.got.items)
<1>1. Done(c, p, ui, a) /\ c.at = "ok" /\ c.kind = "load"
  BY PicFacts, LoadedDoes DEF Loaded, Answered
<1>2. p.gallery = c.got.items /\ p.token = app.token
  BY DEF AppRec
<1>3. c.tok = app.token
  BY <1>1, PicFacts, OwnFacts DEF CallOwns
<1>4. "gallery" \notin a => ~c.stale
  BY DEF Detached, Checked, Late
<1>5. "detail" \notin a => ui.selected \in c.got.items \cup {NoItem}
  BY DEF Detached
<1> HIDE DEF p, a
<1> QED
  BY <1>1, <1>2, <1>3, <1>4, <1>5, PicList

LEMMA PicImages ==
  ASSUME PicInv, OwnInv', NEW c \in wire, ImagesAnswered(c)
  PROVE  PicInv'
<1> DEFINE p == AppRec(app.view, app.user, app.usage, app.token, app.ifpay, c.got.items)
           b == Full(astray, c, {"gallery"})
           a == Detached(b, c.got.items)
<1>1. Done(c, p, ui, a) /\ c.at = "ok" /\ c.kind = "images"
  BY PicFacts, ImagesDoes DEF ImagesAnswered, Answered
<1>2. p.gallery = c.got.items /\ p.token = app.token
  BY DEF AppRec
<1>3. About(c) = AcctOf(sessions, c.tok)
  BY <1>1, PicFacts, OwnAnswer, AcctIs
<1>4. "gallery" \notin a => ~c.stale /\ About(c) = Acct(app.token)
  BY DEF Detached, Full, Partial, Late, Foreign
<1>5. "detail" \notin a => ui.selected \in c.got.items \cup {NoItem}
  BY DEF Detached
<1> HIDE DEF p, a
<1> QED
  BY <1>1, <1>2, <1>3, <1>4, <1>5, PicList, AcctIs

LEMMA PicImported ==
  ASSUME PicInv, OwnInv', NEW c \in wire, Imported(c)
  PROVE  PicInv'
<1>1. Done(c, app, ui, astray \cup {"gallery"})
  BY DEF Imported
<1> QED
  BY <1>1, PicFacts, PicDone

\* The upload has been answered, and its image is about to be shown.
LEMMA PicUploaded ==
  ASSUME PicInv, OwnInv', NEW c \in wire, UploadAnswered(c)
  PROVE  PicInv'
<1>1. PICK d : /\ Render(app, ui, (wire \ {c}) \cup {d}, astray, FALSE)
               /\ CallShape(d, Len(sessions)) /\ CallTrue(d)
               /\ d.kind = c.kind /\ d.tok = c.tok /\ d.arg = c.arg /\ d.want = c.want
               /\ d.live = c.live /\ d.stale = c.stale /\ d.at = "timer" /\ d.got = c.got
  BY PicFacts, UploadDoes
<1>2. c.at = "ok" /\ c.kind = "upload" /\ ByClient
  BY DEF UploadAnswered, Answered
<1> DEFINE w == (wire \ {c}) \cup {d}
<1>3. Calls(w, Len(sessions))
  BY <1>1, PicsRest DEF Calls
<1>4. CallPics(d, sessions, stored, hidden, used) /\ (Fresh(d) => Fresh(c))
  <2>1. CallPics(c, sessions, stored, hidden, used)
    BY PicFacts DEF PicsAt
  <2> QED
    BY <1>1, <1>2, <2>1 DEF CallPics, Fresh
<1>5. \A e \in w : Fresh(e) => Plain(e.arg, app.gallery, ui.selected, w)
  <2>1. \A e \in w : Fresh(e) => Plain(e.arg, app.gallery, ui.selected, wire)
    BY <1>1, <1>4, PicFacts, PicsRest DEF PicsAt
  <2>2. \A e \in w : \E x \in wire : e.got = x.got
    BY <1>1
  <2> HIDE DEF w
  <2> QED
    BY <2>1, <2>2 DEF Plain
<1>6. PicsAt(app.gallery, ui.selected, w, sessions, stored, hidden, used)
  BY <1>4, <1>5, PicFacts, PicsRest DEF PicsAt
<1>7. \A i : (\E e \in wire : Coming(e, i, app.gallery)) => \E e \in w : Coming(e, i, app.gallery)
  <2>1. \A i : Coming(c, i, app.gallery) => Coming(d, i, app.gallery)
    BY <1>1, <1>2 DEF Coming
  <2> QED
    BY <2>1
<1> HIDE DEF w
<1>8. GalleryAt(app.gallery, w, app.token, astray, sessions, stored, hidden)
  BY <1>7, PicFacts DEF GalleryAt
<1>9. DetailAt(ui.selected, app.gallery, w, app.token, astray)
  BY <1>7, PicFacts DEF DetailAt
<1> QED
  BY <1>1, <1>2, <1>3, <1>6, <1>8, <1>9, PicFacts, PicPage DEF w

\* The image of an upload is shown.
LEMMA PicShown ==
  ASSUME PicInv, OwnInv', NEW c \in wire, UploadShown(c)
  PROVE  PicInv'
<1> DEFINE x == Ask("images", c.tok, Nobody)
           y == Ask("me", c.tok, Nobody)
           w == (wire \ {c}) \cup {x, y}
           s == app.gallery \cup c.got.items
           p == AppRec("gallery", app.user, app.usage, app.token, app.ifpay, s)
           a == Partial(astray, c, {"gallery"})
<1>1. PICK g : UiShape(g, Len(sessions)) /\ Alike(g, ui) /\ Render(p, Local(c, g), w, a, FALSE)
  BY PicFacts, ShownDoes
<1>2. p.gallery = s /\ p.token = app.token
  BY DEF AppRec
<1>3. Calls(w, Len(sessions)) /\ c.kind = "upload" /\ c.at = "timer" /\ c.tok # 0 /\ ByClient
  BY PicFacts, RefreshCalls DEF UploadShown
<1>4. /\ CallPics(x, sessions, stored, hidden, used) /\ ~Fresh(x) /\ x.got.items = {}
      /\ CallPics(y, sessions, stored, hidden, used) /\ ~Fresh(y) /\ y.got.items = {}
  BY AskPics DEF Reads
<1>5. "gallery" \notin a => "gallery" \notin astray /\ ~c.stale /\ About(c) = Acct(app.token)
  BY DEF Partial, Late, Foreign
<1>6. "detail" \in astray => "detail" \in a
  BY DEF Partial
<1> HIDE DEF x, y, p, a
<1>7. CallPics(c, sessions, stored, hidden, used) /\ c.got.items = {Open(c.arg)}
  BY <1>3, PicFacts DEF PicsAt, CallPics
<1>8. ~c.stale => /\ c.arg \in stored /\ c.arg \notin hidden
                  /\ Hid(c.arg) \notin app.gallery /\ ui.selected # Hid(c.arg)
  BY <1>3, <1>7, PicFacts DEF PicsAt, CallPics, Fresh, Plain
<1>9. AcctOf(sessions, c.tok) = Owner[c.arg] /\ About(c) = AcctOf(sessions, c.tok)
  BY <1>3, PicFacts, OwnFacts, OwnAnswer, AcctIs DEF CallOwns
<1>10. \A z \in s : Pic(z, used)
  BY <1>7, PicFacts DEF PicsAt, CallPics
<1>11. \A e \in w : Fresh(e) => Plain(e.arg, s, ui.selected, w)
  <2>1. \A e \in w : Fresh(e) => Plain(e.arg, app.gallery, ui.selected, wire)
    BY <1>4, PicsRest
  <2>2. \A i : Hid(i) \in s => Hid(i) \in app.gallery
    BY <1>7, PicFields
  <2>3. \A i : (\A e \in wire : Hid(i) \notin e.got.items) => \A e \in w : Hid(i) \notin e.got.items
    BY <1>4
  <2> HIDE DEF w, s
  <2> QED
    BY <2>1, <2>2, <2>3 DEF Plain
<1>12. PicsAt(s, ui.selected, w, sessions, stored, hidden, used)
  BY <1>4, <1>10, <1>11, PicFacts, PicsRest DEF PicsAt
<1>13. \A i : i # c.arg /\ (\E e \in wire : Coming(e, i, app.gallery)) => \E e \in w : Coming(e, i, s)
  BY <1>3 DEF Coming
<1>14. GalleryAt(s, w, app.token, a, sessions, stored, hidden)
  <2> DEFINE b == AcctOf(sessions, app.token)
  <2> SUFFICES ASSUME app.token # 0, "gallery" \notin a, NEW i \in Images
               PROVE  Right(s, i, b, stored, hidden) \/ \E e \in w : Coming(e, i, s)
    BY DEF GalleryAt
  <2>1. CASE i = c.arg
    <3>1. Owner[i] = b /\ i \in stored /\ i \notin hidden /\ Hid(i) \notin app.gallery
      BY <1>5, <1>8, <1>9, <2>1, AcctIs
    <3>2. Open(i) \in s /\ Hid(i) \notin s
      BY <1>7, <2>1, <3>1, PicFields
    <3> QED
      BY <3>1, <3>2 DEF Right
  <2>2. CASE i # c.arg
    <3>1. Right(app.gallery, i, b, stored, hidden) \/ \E e \in wire : Coming(e, i, app.gallery)
      BY <1>5, PicFacts DEF GalleryAt
    <3>2. (Hid(i) \in s <=> Hid(i) \in app.gallery) /\ (Open(i) \in s <=> Open(i) \in app.gallery)
      BY <1>7, <2>2, PicFields
    <3>3. Right(app.gallery, i, b, stored, hidden) => Right(s, i, b, stored, hidden)
      BY <3>2 DEF Right
    <3> QED
      BY <1>13, <2>2, <3>1, <3>3
  <2> QED
    BY <2>1, <2>2
<1>15. DetailAt(ui.selected, s, w, app.token, a)
  <2> SUFFICES ASSUME app.token # 0, "gallery" \notin a, "detail" \notin a, ui.selected \notin app.gallery \cup {NoItem}
               PROVE  ui.selected \in s \/ \E e \in w : Coming(e, ui.selected.img, s)
    BY DEF DetailAt
  <2>1. \E e \in wire : Coming(e, ui.selected.img, app.gallery)
    BY <1>5, <1>6, PicFacts DEF DetailAt
  <2>2. CASE ui.selected.img = c.arg
    <3>1. Pic(ui.selected, used) /\ ui.selected # Hid(c.arg)
      BY <1>5, <1>8, PicFacts DEF PicsAt
    <3>2. ui.selected = Open(c.arg)
      BY <2>2, <3>1, PicFields DEF Pic
    <3> QED
      BY <1>7, <3>2
  <2> QED
    BY <1>13, <2>1, <2>2
<1>16. UiShape(Local(c, g), Len(sessions)) /\ Local(c, g).selected = ui.selected
  BY <1>1, PicFacts DEF Local, Alike
<1> HIDE DEF w, s
<1> QED
  BY <1>1, <1>2, <1>3, <1>12, <1>14, <1>15, <1>16, PicPage

\* An answer about one image is handled: list s then shows every other image
\* as before, and the detail view has g.selected if the view that asked is on.
LEMMA PicChanged ==
  ASSUME PicInv, OwnInv', NEW c \in wire, c.kind \in {"delete", "toggle"}, c.at = "ok", NEW p, NEW g, NEW a,
         Done(c, p, g, a), UiShape(g, Len(sessions)), p.token = app.token, NEW s, p.gallery = s,
         \A z \in s : Pic(z, used), g.selected = NoItem \/ Pic(g.selected, used),
         \A i : Hid(i) \in s \/ g.selected = Hid(i) =>
                  Hid(i) \in app.gallery \/ \E e \in wire : Hid(i) \in e.got.items,
         \A i : i # c.arg => /\ Hid(i) \in s <=> Hid(i) \in app.gallery
                             /\ Open(i) \in s <=> Open(i) \in app.gallery,
         "gallery" \notin a => "gallery" \notin astray /\ ~c.stale,
         "gallery" \notin a /\ app.token # 0 =>
           \/ Right(s, c.arg, AcctOf(sessions, app.token), stored, hidden)
           \/ \E e \in wire \ {c} : Coming(e, c.arg, s),
         "detail" \notin a => "detail" \notin astray,
         "detail" \notin a /\ ~c.live => ui.selected.img # c.arg,
         "gallery" \notin a /\ app.token # 0 /\ c.live =>
           \/ g.selected \in s \cup {NoItem}
           \/ \E e \in wire \ {c} : Coming(e, g.selected.img, s)
  PROVE  PicInv'
<1> DEFINE w == wire \ {c}
           h == Local(c, g)
<1>1. Render(p, h, w, a, FALSE) /\ ByClient /\ UiShape(h, Len(sessions)) /\ Calls(w, Len(sessions))
  BY PicFacts, PicsRest DEF Done, Local
<1>2. h.selected = IF c.live THEN g.selected ELSE ui.selected
  BY DEF Local
<1> HIDE DEF h
<1>3. \A d \in w : Fresh(d) => Plain(d.arg, s, h.selected, w)
  BY <1>2, PicsRest DEF Plain
<1>4. PicsAt(s, h.selected, w, sessions, stored, hidden, used)
  BY <1>2, <1>3, PicFacts, PicsRest DEF PicsAt
<1>5. \A i : i # c.arg /\ (\E e \in wire : Coming(e, i, app.gallery)) => \E e \in w : Coming(e, i, s)
  BY DEF Coming
<1>6. GalleryAt(s, w, app.token, a, sessions, stored, hidden)
  <2> DEFINE b == AcctOf(sessions, app.token)
  <2> SUFFICES ASSUME app.token # 0, "gallery" \notin a, NEW i \in Images, i # c.arg
               PROVE  Right(s, i, b, stored, hidden) \/ \E e \in w : Coming(e, i, s)
    BY DEF GalleryAt
  <2>1. Right(app.gallery, i, b, stored, hidden) \/ \E e \in wire : Coming(e, i, app.gallery)
    BY PicFacts DEF GalleryAt
  <2>2. Right(app.gallery, i, b, stored, hidden) => Right(s, i, b, stored, hidden)
    BY DEF Right
  <2> QED
    BY <1>5, <2>1, <2>2
<1>7. DetailAt(h.selected, s, w, app.token, a)
  <2> SUFFICES ASSUME app.token # 0, "gallery" \notin a, "detail" \notin a
               PROVE  h.selected \in s \cup {NoItem} \/ \E e \in w : Coming(e, h.selected.img, s)
    BY DEF DetailAt
  <2>1. CASE c.live
    BY <1>2, <2>1
  <2>2. CASE ~c.live
    <3>1. ui.selected \in app.gallery \cup {NoItem} \/ \E e \in wire : Coming(e, ui.selected.img, app.gallery)
      BY PicFacts DEF DetailAt
    <3>2. ui.selected \in app.gallery => ui.selected \in s
      <4>1. ui.selected \in app.gallery => Pic(ui.selected, used)
        BY PicFacts DEF PicsAt
      <4> QED
        BY <2>2, <4>1, PicFields DEF Pic
    <3> QED
      BY <1>2, <1>5, <2>2, <3>1, <3>2
  <2> QED
    BY <2>1, <2>2
<1> HIDE DEF w
<1> QED
  BY <1>1, <1>4, <1>6, <1>7, PicPage

LEMMA PartialPics ==
  ASSUME NEW s, NEW c, NEW a, a = Partial(s, c, {"gallery"}) \/ a = Partial(s, c, {"gallery", "detail"})
  PROVE  /\ "gallery" \notin a => "gallery" \notin s /\ ~c.stale /\ About(c) = Acct(app.token)
         /\ "detail" \notin a => "detail" \notin s
  BY DEF Partial, Late, Foreign

LEMMA OrphanedPics ==
  ASSUME NEW s, NEW c
  PROVE  /\ "gallery" \in s => "gallery" \in Orphaned(s, c)
         /\ "detail" \notin Orphaned(s, c) => "detail" \notin s /\ (~c.live => ui.selected.img # c.arg)
  BY DEF Orphaned

LEMMA PicDeleted ==
  ASSUME PicInv, OwnInv', NEW c \in wire, DeleteAnswered(c)
  PROVE  PicInv'
<1> DEFINE s == {item \in app.gallery : item.img # c.arg}
           p == AppRec(app.view, app.user, app.usage, app.token, app.ifpay, s)
           r == Orphaned(astray, c)
           a == Partial(r, c, {"gallery"})
<1>1. PICK g : UiShape(g, Len(sessions)) /\ g.selected = NoItem /\ Done(c, p, g, a)
  BY PicFacts, DeleteDoes
<1>2. p.gallery = s /\ p.token = app.token
  BY DEF AppRec
<1>3. c.at = "ok" /\ c.kind = "delete"
  BY DEF DeleteAnswered, Answered
<1>4. /\ "gallery" \notin a => "gallery" \notin r /\ ~c.stale /\ About(c) = Acct(app.token)
      /\ "detail" \notin a => "detail" \notin r
  BY PartialPics
<1>5. /\ "gallery" \in astray => "gallery" \in r
      /\ "detail" \notin r => "detail" \notin astray /\ (~c.live => ui.selected.img # c.arg)
  BY OrphanedPics
<1> HIDE DEF p, r, a
<1>6. /\ \A i : i # c.arg => /\ Hid(i) \in s <=> Hid(i) \in app.gallery
                             /\ Open(i) \in s <=> Open(i) \in app.gallery
      /\ Hid(c.arg) \notin s /\ Open(c.arg) \notin s
  BY PicFields
<1>7. (\A z \in s : Pic(z, used)) /\ (\A i : Hid(i) \in s => Hid(i) \in app.gallery)
  BY PicFacts DEF PicsAt
<1>8. c.arg \notin stored
  BY <1>3, PicFacts DEF PicsAt, CallPics
<1> HIDE DEF s
<1>9. Right(s, c.arg, AcctOf(sessions, app.token), stored, hidden)
  BY <1>6, <1>8 DEF Right
<1>10. \A i : NoItem # Hid(i)
  BY PicFields
<1> QED
  BY <1>1, <1>2, <1>3, <1>4, <1>5, <1>6, <1>7, <1>9, <1>10, PicChanged

LEMMA PicToggled ==
  ASSUME PicInv, OwnInv', NEW c \in wire, ToggleAnswered(c)
  PROVE  PicInv'
<1> DEFINE r == Orphaned(astray, c)
           a == Partial(r, c, {"gallery", "detail"})
           new == Toggled(c)
           s == {IF item.img = c.arg THEN new ELSE item : item \in app.gallery}
           p == AppRec(app.view, app.user, app.usage, app.token, app.ifpay, s)
           b == AcctOf(sessions, app.token)
<1>1. c.at = "ok" /\ c.kind = "toggle"
  BY DEF ToggleAnswered, Answered
<1>2. /\ c.got.items = {new} /\ Owner[c.arg] = AcctOf(sessions, c.tok) /\ c.arg \in Images
      /\ ~c.stale => c.arg \in stored /\ (c.want <=> c.arg \in hidden)
      /\ Pic(new, used)
  BY <1>1, PicFacts DEF PicsAt, CallPics
<1>3. PICK g : UiShape(g, Len(sessions)) /\ g.selected = new /\ Done(c, p, g, a)
  <2>1. PICK g, x, y :
           /\ UiShape(g, Len(sessions)) /\ g.selected = x
           /\ x = CHOOSE item \in c.got.items : TRUE
           /\ y = {IF item.img = c.arg THEN x ELSE item : item \in app.gallery}
           /\ Done(c, AppRec(app.view, app.user, app.usage, app.token, app.ifpay, y), g,
                   Partial(Orphaned(astray, c), c, {"gallery", "detail"}))
    BY PicFacts, ToggledDoes
  <2>2. x = new
    BY <1>2, <2>1
  <2>3. y = s
    BY <2>1, <2>2
  <2> QED
    BY <2>1, <2>2, <2>3
<1>4. p.gallery = s /\ p.token = app.token
  BY DEF AppRec
<1>5. /\ "gallery" \notin a => "gallery" \notin r /\ ~c.stale /\ About(c) = Acct(app.token)
      /\ "detail" \notin a => "detail" \notin r
  BY PartialPics
<1>6. /\ "gallery" \in astray => "gallery" \in r
      /\ "detail" \notin r => "detail" \notin astray /\ (~c.live => ui.selected.img # c.arg)
  BY OrphanedPics
<1>7. About(c) = AcctOf(sessions, c.tok)
  BY <1>1, PicFacts, OwnAnswer, AcctIs
<1>8. new = (IF c.want THEN Hid(c.arg) ELSE Open(c.arg)) /\ new.img = c.arg
  BY PicFields DEF Toggled
<1> HIDE DEF p, r, a, new
<1>9. \A i : i # c.arg => /\ Hid(i) \in s <=> Hid(i) \in app.gallery
                          /\ Open(i) \in s <=> Open(i) \in app.gallery
  BY <1>8, PicFields
<1>10. /\ Hid(c.arg) \in app.gallery \/ Open(c.arg) \in app.gallery => new \in s
       /\ \A z \in s : z = new \/ (z \in app.gallery /\ z.img # c.arg)
  BY PicFields
<1>11. \A z \in s : Pic(z, used)
  BY <1>2, <1>10, PicFacts DEF PicsAt
<1> HIDE DEF s
<1>12. \A i : Hid(i) \in s \/ new = Hid(i) =>
                Hid(i) \in app.gallery \/ \E e \in wire : Hid(i) \in e.got.items
  BY <1>2, <1>10
<1>13. ASSUME "gallery" \notin a, app.token # 0
       PROVE  \/ new \in s /\ Right(s, c.arg, b, stored, hidden)
              \/ \E e \in wire \ {c} : Coming(e, c.arg, s)
  <2>1. Owner[c.arg] = b /\ c.arg \in stored /\ (c.want <=> c.arg \in hidden)
    BY <1>2, <1>5, <1>7, <1>13, AcctIs
  <2>2. CASE Hid(c.arg) \in app.gallery \/ Open(c.arg) \in app.gallery
    <3>1. new \in s
      BY <1>10, <2>2
    <3>2. \A z \in s : z.img = c.arg => z = new
      BY <1>10
    <3>3. Hid(c.arg) \in s <=> c.want
      BY <1>8, <3>1, <3>2, PicFields
    <3>4. Open(c.arg) \in s <=> ~c.want
      BY <1>8, <3>1, <3>2, PicFields
    <3> QED
      BY <2>1, <3>1, <3>3, <3>4 DEF Right
  <2>3. CASE Hid(c.arg) \notin app.gallery /\ Open(c.arg) \notin app.gallery
    <3>1. ~Right(app.gallery, c.arg, b, stored, hidden)
      BY <2>1, <2>3 DEF Right
    <3>2. PICK e \in wire : Coming(e, c.arg, app.gallery)
      BY <1>2, <1>5, <1>6, <1>13, <3>1, PicFacts DEF GalleryAt
    <3>3. e # c /\ Coming(e, c.arg, s)
      BY <1>1, <1>5, <1>13, <2>3, <3>2 DEF Coming
    <3> QED
      BY <3>3
  <2> QED
    BY <2>2, <2>3
<1> QED
  BY <1>1, <1>2, <1>3, <1>4, <1>5, <1>6, <1>8, <1>9, <1>11, <1>12, <1>13, PicChanged

LEMMA PicRefreshed ==
  ASSUME PicInv, OwnInv', NEW c \in wire, CheckedOut(c) \/ KeyWritten(c)
  PROVE  PicInv'
<1>1. CASE CheckedOut(c)
  <2>1. PICK g : UiShape(g, Len(sessions)) /\ Alike(g, ui) /\ Render(app, Local(c, g), wire \ {c}, astray, TRUE)
    BY <1>1, PicFacts, CheckedOutDoes
  <2>2. UiShape(Local(c, g), Len(sessions)) /\ Local(c, g).selected = ui.selected /\ ByClient
    BY <1>1, <2>1, PicFacts DEF Local, Alike, CheckedOut
  <2>3. Idle(c)
    BY <1>1, IdleKinds DEF CheckedOut, Answered
  <2> DEFINE w == wire \ {c}
  <2>4. Calls(w, Len(sessions)) /\ (\A d \in w : d \in wire) /\ (\A e \in wire : e \in w \/ Idle(e))
    BY <2>3, PicsRest
  <2> HIDE DEF w
  <2> QED
    BY <2>1, <2>2, <2>4, PicSame DEF w
<1>2. CASE KeyWritten(c)
  <2> DEFINE a == IF c.live THEN astray ELSE astray \cup {"rows"}
  <2>1. PICK d : /\ Render(app, ui, (wire \ {c}) \cup {d}, a, FALSE)
                 /\ CallShape(d, Len(sessions)) /\ CallTrue(d)
                 /\ d.kind = "keys" /\ d.at = "sent" /\ d.got = NoAnswer
    BY <1>2, PicFacts, KeyDoes
  <2>2. ("gallery" \in astray => "gallery" \in a) /\ ("detail" \in astray => "detail" \in a)
    OBVIOUS
  <2>3. Idle(c) /\ ByClient
    BY <1>2, IdleKinds DEF KeyWritten, Answered
  <2>4. d.got.items = {}
    BY <2>1 DEF NoAnswer
  <2>5. CallPics(d, sessions, stored, hidden, used) /\ ~Fresh(d)
    BY <2>1, <2>4, PicsUnanswered
  <2> DEFINE w == (wire \ {c}) \cup {d}
  <2>6. Calls(w, Len(sessions))
    BY <2>1, PicsRest DEF Calls
  <2>7. /\ \A e \in w : \/ e \in wire
                        \/ CallPics(e, sessions, stored, hidden, used) /\ ~Fresh(e) /\ e.got.items = {}
        /\ \A e \in wire : e \in w \/ Idle(e)
    BY <2>3, <2>4, <2>5
  <2> HIDE DEF a, w
  <2> QED
    BY <2>1, <2>2, <2>3, <2>6, <2>7, PicFacts, PicSame DEF w
<1> QED
  BY <1>1, <1>2

LEMMA PicAnswered ==
  ASSUME PicInv, OwnInv', NEW c \in wire, Answer(c)
  PROVE  PicInv'
<1>1. ASSUME OAuthStarted(c)
      PROVE  PicInv'
  BY <1>1, PicReopen DEF OAuthStarted
<1>2. ASSUME Loaded(c)
      PROVE  PicInv'
  BY <1>2, PicLoaded, PicOther
<1> QED
  BY <1>1, <1>2, PicOther, PicImages, PicImported, PicUploaded, PicShown, PicDeleted, PicToggled,
     PicRefreshed DEF Answer

-----------------------------------------------------------------------------
\* The items of a list, and what it shows
LEMMA ListItem ==
  ASSUME NEW j, NEW hid
  PROVE  [img |-> j, private |-> j \in hid] = IF j \in hid THEN Hid(j) ELSE Open(j)
<1>1. CASE j \in hid
  <2>1. (j \in hid) = TRUE
    BY <1>1
  <2> QED
    BY <1>1, <2>1 DEF Hid
<1>2. CASE j \notin hid
  <2>1. (j \in hid) = FALSE
    BY <1>2
  <2> QED
    BY <1>2, <2>1 DEF Open
<1> QED
  BY <1>1, <1>2

LEMMA Listing ==
  ASSUME NEW b
  PROVE  /\ \A i : Right(List(b), i, b, stored, hidden)
         /\ \A x \in List(b) : Pic(x, stored)
         /\ \A i : Hid(i) \in List(b) => i \in hidden
<1>1. \A x : x \in List(b) <=> \E j \in stored : Owner[j] = b /\ x = IF j \in hidden THEN Hid(j) ELSE Open(j)
  <2> DEFINE f(j) == [img |-> j, private |-> j \in hidden]
             h(j) == IF j \in hidden THEN Hid(j) ELSE Open(j)
  <2>1. \A j : f(j) = h(j)
    BY ListItem
  <2>2. List(b) = {f(j) : j \in {i \in stored : Owner[i] = b}}
    BY DEF List
  <2> HIDE DEF f
  <2>3. \A x : x \in List(b) <=> \E j \in stored : Owner[j] = b /\ x = h(j)
    BY <2>1, <2>2
  <2> QED
    BY <2>3
<1>2. \A i : (Hid(i) \in List(b) <=> i \in stored /\ Owner[i] = b /\ i \in hidden)
  BY <1>1, PicFields
<1>3. \A i : (Open(i) \in List(b) <=> i \in stored /\ Owner[i] = b /\ i \notin hidden)
  BY <1>1, PicFields
<1> QED
  BY <1>1, <1>2, <1>3 DEF Right, Pic

\* A step of the server
LEMMA PicServed ==
  ASSUME PicInv, OwnInv', ByServer, stored' \subseteq used', used' \subseteq Images, hidden' \subseteq stored',
         PicsAt(app.gallery, ui.selected, wire', sessions', stored', hidden', used'),
         GalleryAt(app.gallery, wire', app.token, astray', sessions', stored', hidden'),
         DetailAt(ui.selected, app.gallery, wire', app.token, astray')
  PROVE  PicInv'
  BY DEF PicInv, ByServer

\* What a call carries, after a step that leaves the images it is about
LEMMA CallPicsLater ==
  ASSUME NEW n, NEW ss, NEW later, Grows(ss, later, n), NEW e, CallShape(e, n), NEW d, Kin(e, d),
         NEW st, NEW hid, NEW us, NEW st2, NEW hid2, NEW us2, us \subseteq us2, CallPics(e, ss, st, hid, us),
         ~d.stale => ~e.stale,
         e.at = "ok" /\ ~d.stale /\ e.kind \in {"load", "images"} =>
           \A i \in Images : Owner[i] = AcctOf(ss, e.tok) => (i \in st2 <=> i \in st) /\ (i \in hid2 <=> i \in hid),
         e.at \in {"ok", "timer"} /\ ~d.stale /\ e.kind = "upload" /\ e.arg \in st /\ e.arg \notin hid =>
           e.arg \in st2 /\ e.arg \notin hid2,
         e.at = "ok" /\ e.kind = "delete" /\ e.arg \in us /\ e.arg \notin st => e.arg \notin st2,
         e.at = "ok" /\ ~d.stale /\ e.kind = "toggle" /\ e.arg \in st =>
           e.arg \in st2 /\ (e.arg \in hid2 <=> e.arg \in hid)
  PROVE  CallPics(d, later, st2, hid2, us2)
<1>1. AcctOf(later, d.tok) = AcctOf(ss, e.tok)
  BY DEF CallShape, Grows, Kin
<1>2. d.kind \in {"upload", "import", "delete", "toggle"} => d.arg \in Images
  BY DEF CallPics, Kin
<1>3. d.kind = "toggle" => d.want \in BOOLEAN
  BY DEF CallPics, Kin
<1>4. \A x \in d.got.items : Pic(x, us2)
  BY DEF CallPics, Kin, Pic
<1>5. d.at = "ok" /\ ~d.stale /\ d.kind \in {"load", "images"} =>
        \A i \in Images : Right(d.got.items, i, AcctOf(later, d.tok), st2, hid2)
  BY <1>1 DEF CallPics, Kin, Right
<1>6. d.at \in {"ok", "timer"} /\ d.kind = "upload" =>
        d.got.items = {Open(d.arg)} /\ (~d.stale => d.arg \in st2 /\ d.arg \notin hid2)
  BY DEF CallPics, Kin
<1>7. d.at = "ok" /\ d.kind = "delete" => d.arg \notin st2 /\ d.arg \in us2
  BY DEF CallPics, Kin
<1>8. d.at = "ok" /\ d.kind = "toggle" =>
        /\ d.got.items = {Toggled(d)} /\ Owner[d.arg] = AcctOf(later, d.tok)
        /\ ~d.stale => d.arg \in st2 /\ (d.want <=> d.arg \in hid2)
  BY <1>1 DEF CallPics, Kin, Toggled
<1> QED
  BY <1>2, <1>3, <1>4, <1>5, <1>6, <1>7, <1>8 DEF CallPics

LEMMA LostPics ==
  ASSUME NEW n, NEW c, CallShape(c, n), NEW ss, NEW st, NEW hid, NEW us, CallPics(c, ss, st, hid, us),
         NEW later, NEW st2, NEW hid2, NEW us2, us \subseteq us2
  PROVE  CallPics(Lost(c), later, st2, hid2, us2) /\ ~Fresh(Lost(c))
  BY LostFields DEF CallPics, Fresh, Pic

\* The server answers c, with a write of topic x for account a.
LEMMA PicReply ==
  ASSUME PicInv, OwnInv', NEW c \in wire, NEW got, NEW x, NEW a, c.at = "sent", c.kind # "load", ByServer,
         Grows(sessions, sessions', Len(sessions)), Reply(c, got, x, a),
         stored' \subseteq used', used' \subseteq Images, hidden' \subseteq stored', used \subseteq used',
         \A e \in wire \ {c} : \A d : Aged(e, d, x, a, c.arg) => CallPics(d, sessions', stored', hidden', used'),
         CallPics(Ok(c, got), sessions', stored', hidden', used'),
         \A e \in wire \ {c} : Fresh(e) /\ ~Outdates(e, x, a, c.arg) => Hid(e.arg) \notin got.items,
         Fresh(Ok(c, got)) => Plain(c.arg, app.gallery, ui.selected, wire) /\ Hid(c.arg) \notin got.items,
         \A i \in Images : \A b :
           Right(app.gallery, i, b, stored, hidden) =>
             \/ Right(app.gallery, i, b, stored', hidden')
             \/ x = "gallery" /\ Coming(Ok(c, got), i, app.gallery)
  PROVE  PicInv'
<1>1. Calls(wire, Len(sessions)) /\ CallShape(c, Len(sessions)) /\ CallPics(c, sessions, stored, hidden, used)
  BY PicFacts DEF Calls, PicsAt
<1>2. \A e \in wire \ {c} : \E d \in wire' : Aged(e, d, x, a, c.arg)
  BY <1>1, ReplyWire
<1>3. \A d \in wire' : \/ \E e \in wire \ {c} : Aged(e, d, x, a, c.arg)
                       \/ d = Ok(c, got) \/ d = Lost(c)
  BY <1>1, ReplyWire
<1>4. /\ Ok(c, got).arg = c.arg /\ Ok(c, got).got = got /\ Lost(c).got = c.got
      /\ CallPics(Lost(c), sessions', stored', hidden', used') /\ ~Fresh(Lost(c))
  BY <1>1, OkFields, LostFields, LostPics
<1>5. \A d \in wire' : CallPics(d, sessions', stored', hidden', used')
  BY <1>3, <1>4
<1>6. \A e \in wire \ {c} : \A d : Aged(e, d, x, a, c.arg) /\ Fresh(d) =>
        Fresh(e) /\ ~Outdates(e, x, a, c.arg) /\ d.arg = e.arg
  BY DEF Aged, Kin, Fresh
<1>7. ASSUME NEW d \in wire', Fresh(d)
      PROVE  Plain(d.arg, app.gallery, ui.selected, wire')
  <2>1. Plain(d.arg, app.gallery, ui.selected, wire) /\ Hid(d.arg) \notin got.items
    <3>1. CASE d = Ok(c, got)
      BY <1>4, <1>7, <3>1
    <3>2. CASE \E e \in wire \ {c} : Aged(e, d, x, a, c.arg)
      BY <1>6, <1>7, <3>2, PicFacts DEF PicsAt
    <3> QED
      BY <1>3, <1>4, <1>7, <3>1, <3>2
  <2>2. \A f \in wire' : f.got = got \/ \E e \in wire : f.got = e.got
    BY <1>3, <1>4 DEF Aged, Kin
  <2> QED
    BY <2>1, <2>2 DEF Plain
<1>8. PicsAt(app.gallery, ui.selected, wire', sessions', stored', hidden', used')
  BY <1>5, <1>7, PicFacts DEF PicsAt, Pic
<1>9. \A i : (\E e \in wire : Coming(e, i, app.gallery)) => \E d \in wire' : Coming(d, i, app.gallery)
  <2>1. \A i : ~Coming(c, i, app.gallery)
    BY DEF Coming
  <2>2. \A e \in wire \ {c} : \A d : Aged(e, d, x, a, c.arg) =>
          \A i : Coming(e, i, app.gallery) => Coming(d, i, app.gallery)
    BY DEF Aged, Kin, Coming
  <2> QED
    BY <1>2, <2>1, <2>2
<1>10. /\ "gallery" \in astray => "gallery" \in astray'
       /\ "detail" \in astray => "detail" \in astray'
       /\ x = "gallery" => Ok(c, got) \in wire' \/ "gallery" \in astray'
  <2>1. (Ok(c, got) \in wire' /\ astray' = astray) \/ astray' = astray \cup ({x} \cap Topics)
    BY ReplyOutcome
  <2>2. "gallery" \in Topics
    BY DEF Topics
  <2> QED
    BY <2>1, <2>2
<1>11. AcctOf(sessions', app.token) = AcctOf(sessions, app.token)
  BY PicFacts, PageFacts DEF Grows
<1>12. GalleryAt(app.gallery, wire', app.token, astray', sessions', stored', hidden')
  BY <1>9, <1>10, <1>11, PicFacts DEF GalleryAt
<1>13. DetailAt(ui.selected, app.gallery, wire', app.token, astray')
  BY <1>9, <1>10, PicFacts DEF DetailAt
<1> QED
  BY <1>8, <1>12, <1>13, PicServed

\* An answer after which the images are what they were
LEMMA PicQuiet ==
  ASSUME PicInv, OwnInv', NEW c \in wire, NEW got, NEW x, NEW a, c.at = "sent", ByServer,
         c.kind \notin {"load", "images", "upload", "import", "delete", "toggle"}, got.items = {},
         Grows(sessions, sessions', Len(sessions)), Reply(c, got, x, a),
         stored' = stored, hidden' = hidden, used' = used
  PROVE  PicInv'
<1>1. ASSUME NEW e \in wire \ {c}, NEW d, Aged(e, d, x, a, c.arg)
      PROVE  CallPics(d, sessions', stored, hidden, used)
  <2>1. CallShape(e, Len(sessions)) /\ CallPics(e, sessions, stored, hidden, used)
    BY PicFacts DEF Calls, PicsAt
  <2>2. Kin(e, d) /\ (~d.stale => ~e.stale)
    BY <1>1 DEF Aged
  <2> QED
    BY <2>1, <2>2, CallPicsLater
<1>2. CallShape(c, Len(sessions)) /\ CallPics(c, sessions, stored, hidden, used)
  BY PicFacts DEF Calls, PicsAt
<1>3. CallPics(Ok(c, got), sessions', stored, hidden, used) /\ ~Fresh(Ok(c, got))
  BY <1>2, OkFields DEF CallPics, Fresh
<1> QED
  BY <1>1, <1>3, PicFacts, PicReply

LEMMA PicRead ==
  ASSUME PicInv, OwnInv', NEW c \in wire, ServeRead(c)
  PROVE  PicInv'
<1> DEFINE b == Acct(c.tok)
           full == [user |-> IF c.kind \in {"load", "me"} THEN Me(b) ELSE NoUser,
                    items |-> IF c.kind \in {"load", "images"} THEN List(b) ELSE {},
                    rows |-> CASE c.kind = "keys" -> Rows(b, "keys")
                               [] c.kind \in {"orders", "reorders"} -> Rows(b, "orders")
                               [] OTHER -> NoRows,
                    tok |-> 0]
           new == Ok(c, full)
<1>1. /\ c.kind \in Reads /\ c.at = "sent" /\ ByServer /\ sessions' = sessions /\ astray' = astray
      /\ stored' = stored /\ hidden' = hidden /\ used' = used /\ wire' = (wire \ {c}) \cup {new}
  BY DEF ServeRead, Served, server, Ok
<1>2. full.items = IF c.kind \in {"load", "images"} THEN List(b) ELSE {}
  OBVIOUS
<1> HIDE DEF full
<1>3. CallShape(c, Len(sessions)) /\ CallPics(c, sessions, stored, hidden, used)
  BY PicFacts DEF Calls, PicsAt
<1>4. /\ new.kind = c.kind /\ new.tok = c.tok /\ new.live = c.live /\ new.at = "ok" /\ new.got = full
  BY <1>3, OkFields
<1> HIDE DEF new
<1>5. c.kind \notin {"upload", "import", "delete", "toggle"}
  BY <1>1 DEF Reads
<1>6. b = AcctOf(sessions, c.tok)
  BY AcctIs
<1> HIDE DEF b
<1>7. \A x \in full.items : Pic(x, used)
  BY <1>2, Listing, PicFacts DEF Pic
<1>8. CallPics(new, sessions, stored, hidden, used) /\ ~Fresh(new)
  BY <1>2, <1>4, <1>5, <1>6, <1>7, Listing DEF CallPics, Fresh
<1>9. ASSUME NEW d \in wire', Fresh(d)
      PROVE  Plain(d.arg, app.gallery, ui.selected, wire')
  <2>1. d \in wire
    BY <1>1, <1>8, <1>9
  <2>2. Plain(d.arg, app.gallery, ui.selected, wire) /\ d.arg \notin hidden
    BY <1>9, <2>1, PicFacts DEF PicsAt, CallPics, Fresh
  <2>3. Hid(d.arg) \notin full.items
    BY <1>2, <2>2, Listing
  <2> QED
    BY <1>1, <1>4, <2>2, <2>3 DEF Plain
<1>10. PicsAt(app.gallery, ui.selected, wire', sessions, stored, hidden, used)
  BY <1>1, <1>8, <1>9, PicFacts DEF PicsAt
<1>11. \A i : (\E e \in wire : Coming(e, i, app.gallery)) => \E d \in wire' : Coming(d, i, app.gallery)
  <2>1. \A i : Coming(c, i, app.gallery) => Coming(new, i, app.gallery)
    BY <1>1, <1>4 DEF Coming
  <2> QED
    BY <1>1, <2>1
<1>12. GalleryAt(app.gallery, wire', app.token, astray, sessions, stored, hidden)
  BY <1>11, PicFacts DEF GalleryAt
<1>13. DetailAt(ui.selected, app.gallery, wire', app.token, astray)
  BY <1>11, PicFacts DEF DetailAt
<1> QED
  BY <1>1, <1>10, <1>12, <1>13, PicFacts, PicServed

LEMMA PicRefuse ==
  ASSUME PicInv, OwnInv', NEW c \in wire, Refuse(c)
  PROVE  PicInv'
<1>1. /\ ByServer /\ sessions' = sessions /\ astray' = astray /\ c.at = "sent"
      /\ stored' = stored /\ hidden' = hidden /\ used' = used /\ wire' = (wire \ {c}) \cup {Lost(c)}
  BY DEF Refuse, server, Lost
<1>2. CallShape(c, Len(sessions)) /\ CallPics(c, sessions, stored, hidden, used)
  BY PicFacts DEF Calls, PicsAt
<1>3. /\ Lost(c).kind = c.kind /\ Lost(c).live = c.live /\ Lost(c).got = c.got
      /\ CallPics(Lost(c), sessions, stored, hidden, used) /\ ~Fresh(Lost(c))
  BY <1>2, LostFields, LostPics
<1>4. ASSUME NEW d \in wire', Fresh(d)
      PROVE  Plain(d.arg, app.gallery, ui.selected, wire')
  <2>1. Plain(d.arg, app.gallery, ui.selected, wire)
    BY <1>1, <1>3, <1>4, PicFacts DEF PicsAt
  <2> QED
    BY <1>1, <1>3, <2>1 DEF Plain
<1>5. PicsAt(app.gallery, ui.selected, wire', sessions, stored, hidden, used)
  BY <1>1, <1>3, <1>4, PicFacts DEF PicsAt
<1>6. \A i : (\E e \in wire : Coming(e, i, app.gallery)) => \E d \in wire' : Coming(d, i, app.gallery)
  <2>1. \A i : Coming(c, i, app.gallery) => Coming(Lost(c), i, app.gallery)
    BY <1>1, <1>3 DEF Coming
  <2> QED
    BY <1>1, <2>1
<1>7. GalleryAt(app.gallery, wire', app.token, astray, sessions, stored, hidden)
  BY <1>6, PicFacts DEF GalleryAt
<1>8. DetailAt(ui.selected, app.gallery, wire', app.token, astray)
  BY <1>6, PicFacts DEF DetailAt
<1> QED
  BY <1>1, <1>5, <1>7, <1>8, PicFacts, PicServed

\* Answers about image arg of account a that the server's write of it leaves
\* as good as they were are about other images, or for other accounts.
LEMMA Untouched ==
  ASSUME PicInv, NEW c \in wire, NEW a, NEW e \in wire \ {c}, ~Outdates(e, "gallery", a, c.arg)
  PROVE  /\ e.at = "ok" /\ e.kind \in {"load", "images"} => AcctOf(sessions, e.tok) # a
         /\ e.at \in {"ok", "timer"} /\ e.kind = "upload" /\ Owner[c.arg] = a => e.arg # c.arg
         /\ e.at = "ok" /\ e.kind = "toggle" /\ Owner[c.arg] = a => e.arg # c.arg
<1>1. e.kind \in {"load", "images", "upload", "toggle"} => About(e) = AcctOf(sessions, e.tok)
  BY PicFacts, OwnAnswer, AcctIs
<1>2. e.kind \in {"load", "images", "upload", "toggle"} => "gallery" \in Carries(e.kind)
  BY DEF Carries
<1>3. e.kind = "upload" => e.tok # 0
  BY PicFacts DEF Calls, CallTrue, Signing
<1>4. e.kind = "upload" => AcctOf(sessions, e.tok) = Owner[e.arg]
  BY <1>3, PicFacts, OwnFacts DEF CallOwns
<1>5. e.at = "ok" /\ e.kind = "toggle" => AcctOf(sessions, e.tok) = Owner[e.arg]
  BY PicFacts DEF PicsAt, CallPics
<1>6. e.at = "ok" /\ e.kind \in {"load", "images"} => AcctOf(sessions, e.tok) # a
  BY <1>1, <1>2 DEF Outdates, Reads
<1>7. e.at \in {"ok", "timer"} /\ e.kind = "upload" /\ Owner[c.arg] = a => e.arg # c.arg
  BY <1>1, <1>2, <1>4 DEF Outdates
<1>8. e.at = "ok" /\ e.kind = "toggle" /\ Owner[c.arg] = a => e.arg # c.arg
  BY <1>1, <1>2, <1>5 DEF Outdates
<1> QED
  BY <1>6, <1>7, <1>8

\* An image is added.
LEMMA PicAdd ==
  ASSUME PicInv, OwnInv', NEW c \in wire, ServeImage(c), c.kind \in {"upload", "import"}
  PROVE  PicInv'
<1> DEFINE a == AcctOf(sessions, c.tok)
           got == [NoAnswer EXCEPT !.items = Shown(c.arg, FALSE)]
           new == Ok(c, got)
<1>1. /\ c.at = "sent" /\ ByServer /\ sessions' = sessions /\ c.tok # 0 /\ c.arg \notin used
      /\ stored' = stored \cup {c.arg} /\ used' = used \cup {c.arg} /\ hidden' = hidden
      /\ Reply(c, got, "gallery", a)
  BY AcctIs DEF ServeImage, Served
<1>2. got.items = {Open(c.arg)}
  BY GotItems DEF Shown, Open
<1> HIDE DEF got
<1>3. CallShape(c, Len(sessions)) /\ CallPics(c, sessions, stored, hidden, used) /\ c.arg \in Images
  BY PicFacts DEF Calls, PicsAt, CallPics
<1>4. Owner[c.arg] = a
  BY <1>1, PicFacts, OwnFacts DEF CallOwns
<1>5. new.kind = c.kind /\ new.arg = c.arg /\ new.at = "ok" /\ new.got = got
  BY <1>3, OkFields
<1> HIDE DEF new, a
<1>6. c.arg \notin stored /\ c.arg \notin hidden
  BY <1>1, PicFacts
<1>7. ASSUME NEW e \in wire \ {c}, NEW d, Aged(e, d, "gallery", a, c.arg)
      PROVE  CallPics(d, sessions', stored', hidden', used')
  <2>1. CallShape(e, Len(sessions)) /\ CallPics(e, sessions, stored, hidden, used)
    BY PicFacts DEF Calls, PicsAt
  <2>2. Kin(e, d) /\ (~d.stale => ~e.stale /\ ~Outdates(e, "gallery", a, c.arg))
    BY <1>7 DEF Aged
  <2>3. ~d.stale => (e.at = "ok" /\ e.kind \in {"load", "images"} => AcctOf(sessions, e.tok) # a)
    BY <2>2, Untouched
  <2>4. e.at = "ok" /\ ~d.stale /\ e.kind \in {"load", "images"} =>
          \A i \in Images : Owner[i] = AcctOf(sessions, e.tok) =>
            (i \in stored' <=> i \in stored) /\ (i \in hidden' <=> i \in hidden)
    BY <1>1, <1>4, <2>3
  <2>5. Grows(sessions, sessions', Len(sessions))
    BY <1>1, GrowsSame
  <2> QED
    BY <1>1, <2>1, <2>2, <2>4, <2>5, CallPicsLater
<1>8. CallPics(new, sessions', stored', hidden', used')
  <2>1. \A x \in new.got.items : Pic(x, used')
    BY <1>1, <1>2, <1>5 DEF Pic
  <2> QED
    BY <1>1, <1>2, <1>3, <1>5, <1>6, <2>1 DEF CallPics
<1>9. Plain(c.arg, app.gallery, ui.selected, wire)
  <2>1. \A x : Pic(x, used) => x # Hid(c.arg)
    BY <1>1, PicFields DEF Pic
  <2> QED
    BY <2>1, PicFacts, PicFields DEF Plain, PicsAt, CallPics
<1>10. \A i : Hid(i) \notin got.items
  BY <1>2, PicFields
<1>11. ASSUME NEW i \in Images, NEW b, Right(app.gallery, i, b, stored, hidden)
       PROVE  Right(app.gallery, i, b, stored', hidden') \/ Coming(new, i, app.gallery)
  <2>1. CASE i = c.arg
    BY <1>5, <2>1 DEF Coming
  <2>2. CASE i # c.arg
    BY <1>1, <1>11, <2>2 DEF Right
  <2> QED
    BY <2>1, <2>2
<1>12. /\ stored' \subseteq used' /\ used' \subseteq Images /\ hidden' \subseteq stored' /\ used \subseteq used'
       /\ c.kind # "load" /\ Grows(sessions, sessions', Len(sessions))
  BY <1>1, <1>3, PicFacts, GrowsSame
<1> QED
  BY <1>1, <1>7, <1>8, <1>9, <1>10, <1>11, <1>12, PicReply DEF new

\* An image is taken away.
LEMMA PicDrop ==
  ASSUME PicInv, OwnInv', NEW c \in wire, ServeImage(c), c.kind = "delete"
  PROVE  PicInv'
<1> DEFINE a == AcctOf(sessions, c.tok)
           new == Ok(c, NoAnswer)
<1>1. /\ c.at = "sent" /\ ByServer /\ sessions' = sessions /\ Owner[c.arg] = a /\ c.arg \in stored
      /\ stored' = stored \ {c.arg} /\ hidden' = hidden \ {c.arg} /\ used' = used
      /\ Reply(c, NoAnswer, "gallery", a)
  BY AcctIs DEF ServeImage, Served
<1>2. NoAnswer.items = {}
  BY DEF NoAnswer
<1>3. CallShape(c, Len(sessions)) /\ CallPics(c, sessions, stored, hidden, used) /\ c.arg \in Images
  BY PicFacts DEF Calls, PicsAt, CallPics
<1>4. new.kind = "delete" /\ new.arg = c.arg /\ new.at = "ok" /\ new.got = NoAnswer
  BY <1>3, OkFields
<1> HIDE DEF new, a
<1>5. ASSUME NEW e \in wire \ {c}, NEW d, Aged(e, d, "gallery", a, c.arg)
      PROVE  CallPics(d, sessions', stored', hidden', used')
  <2>1. CallShape(e, Len(sessions)) /\ CallPics(e, sessions, stored, hidden, used)
    BY PicFacts DEF Calls, PicsAt
  <2>2. Kin(e, d) /\ (~d.stale => ~e.stale /\ ~Outdates(e, "gallery", a, c.arg))
    BY <1>5 DEF Aged
  <2>3. ~d.stale =>
          /\ e.at = "ok" /\ e.kind \in {"load", "images"} => AcctOf(sessions, e.tok) # a
          /\ e.at \in {"ok", "timer"} /\ e.kind = "upload" => e.arg # c.arg
          /\ e.at = "ok" /\ e.kind = "toggle" => e.arg # c.arg
    BY <1>1, <2>2, Untouched
  <2>4. e.at = "ok" /\ ~d.stale /\ e.kind \in {"load", "images"} =>
          \A i \in Images : Owner[i] = AcctOf(sessions, e.tok) =>
            (i \in stored' <=> i \in stored) /\ (i \in hidden' <=> i \in hidden)
    BY <1>1, <2>3
  <2>5. Grows(sessions, sessions', Len(sessions))
    BY <1>1, GrowsSame
  <2> QED
    BY <1>1, <2>1, <2>2, <2>3, <2>4, <2>5, CallPicsLater
<1>6. CallPics(new, sessions', stored', hidden', used') /\ ~Fresh(new)
  BY <1>1, <1>2, <1>3, <1>4, PicFacts DEF CallPics, Fresh
<1>7. ASSUME NEW i \in Images, NEW b, Right(app.gallery, i, b, stored, hidden)
      PROVE  Right(app.gallery, i, b, stored', hidden') \/ Coming(new, i, app.gallery)
  <2>1. CASE i = c.arg
    BY <1>4, <2>1 DEF Coming
  <2>2. CASE i # c.arg
    BY <1>1, <1>7, <2>2 DEF Right
  <2> QED
    BY <2>1, <2>2
<1>8. /\ stored' \subseteq used' /\ used' \subseteq Images /\ hidden' \subseteq stored' /\ used \subseteq used'
      /\ c.kind # "load" /\ Grows(sessions, sessions', Len(sessions)) /\ \A i : Hid(i) \notin NoAnswer.items
  BY <1>1, <1>2, PicFacts, GrowsSame
<1> QED
  BY <1>1, <1>5, <1>6, <1>7, <1>8, PicReply DEF new

\* An image becomes private, or public.
LEMMA PicHide ==
  ASSUME PicInv, OwnInv', NEW c \in wire, ServeImage(c), c.kind = "toggle"
  PROVE  PicInv'
<1> DEFINE a == AcctOf(sessions, c.tok)
           got == [NoAnswer EXCEPT !.items = Shown(c.arg, c.want)]
           new == Ok(c, got)
<1>1. /\ c.at = "sent" /\ ByServer /\ sessions' = sessions /\ Owner[c.arg] = a /\ c.arg \in stored
      /\ hidden' = (IF c.want THEN hidden \cup {c.arg} ELSE hidden \ {c.arg})
      /\ stored' = stored /\ used' = used /\ Reply(c, got, "gallery", a)
  BY AcctIs DEF ServeImage, Served
<1>2. CallShape(c, Len(sessions)) /\ CallPics(c, sessions, stored, hidden, used) /\ c.arg \in Images /\ c.want \in BOOLEAN
  BY PicFacts DEF Calls, PicsAt, CallPics
<1>3. got.items = {Toggled(c)}
  <2>1. got.items = {[img |-> c.arg, private |-> c.want]}
    BY GotItems DEF Shown
  <2>2. CASE c.want
    <3>1. c.want = TRUE
      BY <1>2, <2>2
    <3> QED
      BY <2>1, <3>1 DEF Toggled, Hid
  <2>3. CASE ~c.want
    <3>1. c.want = FALSE
      BY <1>2, <2>3
    <3> QED
      BY <2>1, <3>1 DEF Toggled, Open
  <2> QED
    BY <2>2, <2>3
<1> HIDE DEF got
<1>4. /\ new.kind = "toggle" /\ new.arg = c.arg /\ new.at = "ok" /\ new.got = got /\ new.tok = c.tok
      /\ new.want = c.want /\ Toggled(new) = Toggled(c)
  BY <1>2, OkFields DEF Toggled
<1>5. /\ \A i : i # c.arg => (i \in hidden' <=> i \in hidden)
      /\ c.arg \in hidden' <=> c.want
  BY <1>1
<1> HIDE DEF new
<1>6. ASSUME NEW e \in wire \ {c}, NEW d, Aged(e, d, "gallery", a, c.arg)
      PROVE  CallPics(d, sessions', stored', hidden', used')
  <2>1. CallShape(e, Len(sessions)) /\ CallPics(e, sessions, stored, hidden, used)
    BY PicFacts DEF Calls, PicsAt
  <2>2. Kin(e, d) /\ (~d.stale => ~e.stale /\ ~Outdates(e, "gallery", a, c.arg))
    BY <1>6 DEF Aged
  <2> HIDE DEF a
  <2>3. ~d.stale =>
          /\ e.at = "ok" /\ e.kind \in {"load", "images"} => AcctOf(sessions, e.tok) # a
          /\ e.at \in {"ok", "timer"} /\ e.kind = "upload" => e.arg # c.arg
          /\ e.at = "ok" /\ e.kind = "toggle" => e.arg # c.arg
    BY <1>1, <2>2, Untouched
  <2>4. e.at = "ok" /\ ~d.stale /\ e.kind \in {"load", "images"} =>
          \A i \in Images : Owner[i] = AcctOf(sessions, e.tok) =>
            (i \in stored' <=> i \in stored) /\ (i \in hidden' <=> i \in hidden)
    BY <1>1, <1>5, <2>3
  <2>5. Grows(sessions, sessions', Len(sessions))
    BY <1>1, GrowsSame
  <2> QED
    BY <1>1, <1>5, <2>1, <2>2, <2>3, <2>4, <2>5, CallPicsLater
<1>7. CallPics(new, sessions', stored', hidden', used') /\ ~Fresh(new)
  <2>1. Pic(Toggled(c), used')
    BY <1>1, PicFacts DEF Pic, Toggled
  <2> QED
    BY <1>1, <1>2, <1>3, <1>4, <1>5, <2>1 DEF CallPics, Fresh
<1> HIDE DEF a
<1>8. ASSUME NEW e \in wire \ {c}, Fresh(e), ~Outdates(e, "gallery", a, c.arg)
      PROVE  Hid(e.arg) \notin got.items
  <2>1. e.arg # c.arg
    BY <1>1, <1>8, Untouched DEF Fresh
  <2> QED
    BY <1>3, <2>1, PicFields DEF Toggled
<1>9. ASSUME NEW i \in Images, NEW b, Right(app.gallery, i, b, stored, hidden)
      PROVE  Right(app.gallery, i, b, stored', hidden') \/ Coming(new, i, app.gallery)
  <2>1. CASE i = c.arg /\ Owner[i] = b
    <3>1. Hid(i) \in app.gallery \/ Open(i) \in app.gallery
      BY <1>1, <1>9, <2>1 DEF Right
    <3> QED
      BY <1>4, <2>1, <3>1 DEF Coming
  <2>2. CASE i # c.arg \/ Owner[i] # b
    BY <1>1, <1>5, <1>9, <2>2 DEF Right
  <2> QED
    BY <2>1, <2>2
<1>10. /\ stored' \subseteq used' /\ used' \subseteq Images /\ hidden' \subseteq stored' /\ used \subseteq used'
       /\ c.kind # "load" /\ Grows(sessions, sessions', Len(sessions))
  BY <1>1, PicFacts, GrowsSame
<1> QED
  BY <1>1, <1>6, <1>7, <1>8, <1>9, <1>10, PicReply DEF new

LEMMA PicServe ==
  ASSUME PicInv, OwnInv', NEW c \in wire, Serve(c)
  PROVE  PicInv'
<1>1. ASSUME NEW a \in journey.who, ServeSignIn(c, a)
      PROVE  PicInv'
  <2> DEFINE got == SessionGot(Me(a), Len(sessions'))
  <2>1. /\ ByServer /\ sessions' = Append(sessions, a) /\ Reply(c, got, "none", a) /\ c.at = "sent"
        /\ stored' = stored /\ hidden' = hidden /\ used' = used
        /\ c.kind \in {"login", "register", "callback"}
    BY <1>1 DEF ServeSignIn, Served, SessionGot
  <2>2. a \in Accounts
    BY PicFacts, JourneyFacts
  <2>3. Grows(sessions, sessions', Len(sessions))
    BY <2>1, <2>2, PicFacts, OwnCall, GrowsAppend
  <2>4. got.items = {}
    BY GotSession
  <2> HIDE DEF got
  <2> QED
    BY <2>1, <2>3, <2>4, PicQuiet
<1>2. CASE ServeVerify(c)
  <2> DEFINE u == [Me(c.arg) EXCEPT !.verified = TRUE]
             got == SessionGot(u, c.tok)
  <2>1. /\ ByServer /\ sessions' = sessions /\ Reply(c, got, "profile", c.arg) /\ c.kind = "verify"
        /\ c.at = "sent" /\ stored' = stored /\ hidden' = hidden /\ used' = used
    BY <1>2 DEF ServeVerify, Served, SessionGot
  <2> HIDE DEF u
  <2>2. got.items = {}
    BY GotSession
  <2> HIDE DEF got
  <2> QED
    BY <2>1, <2>2, GrowsSame, PicQuiet
<1>3. CASE ServeMail(c) \/ ServeWrite(c)
  <2>1. /\ ByServer /\ sessions' = sessions /\ c.at = "sent"
        /\ stored' = stored /\ hidden' = hidden /\ used' = used
        /\ c.kind \in {"resend", "forgot", "reset", "oauth", "checkout", "create", "revoke"}
    BY <1>3 DEF ServeMail, ServeWrite, Served, server
  <2>2. \E x, a : Reply(c, NoAnswer, x, a)
    BY <1>3 DEF ServeMail, ServeWrite
  <2>3. NoAnswer.items = {}
    BY DEF NoAnswer
  <2> QED
    BY <2>1, <2>2, <2>3, GrowsSame, PicQuiet
<1>4. CASE ServeProfile(c)
  <2> DEFINE a == Acct(c.tok)
             u == [Me(a) EXCEPT !.name = c.arg]
             got == [NoAnswer EXCEPT !.user = u]
  <2>1. /\ ByServer /\ sessions' = sessions /\ Reply(c, got, "profile", a) /\ c.kind = "profile"
        /\ c.at = "sent" /\ stored' = stored /\ hidden' = hidden /\ used' = used
    BY <1>4 DEF ServeProfile, Served
  <2> HIDE DEF u
  <2>2. got.items = {}
    BY GotUser
  <2> HIDE DEF got
  <2> QED
    BY <2>1, <2>2, GrowsSame, PicQuiet
<1>5. CASE ServeImage(c)
  <2>1. c.kind \in {"upload", "import", "delete", "toggle"}
    BY <1>5 DEF ServeImage, Served
  <2> QED
    BY <1>5, <2>1, PicAdd, PicDrop, PicHide
<1> QED
  BY <1>1, <1>2, <1>3, <1>4, <1>5, PicRead, PicRefuse DEF Serve

LEMMA InitPic ==
  ASSUME Init
  PROVE  PicInv
<1>1. OwnInv
  BY InitOwn
<1>2. /\ app.token = 0 /\ wire = {} /\ stored = {} /\ hidden = {} /\ used = {} /\ ui = Mounted(app)
      /\ app.gallery = {}
  BY DEF Init
<1>3. ui.selected = NoItem
  BY <1>2 DEF Mounted
<1> QED
  BY <1>1, <1>2, <1>3 DEF PicInv, PicsAt, GalleryAt, DetailAt

LEMMA PicNext ==
  ASSUME PicInv, [Next]_vars
  PROVE  PicInv'
<1>1. OwnInv'
  BY PicFacts, OwnNext
<1>2. CASE UNCHANGED vars
  <2>1. /\ app' = app /\ ui' = ui /\ wire' = wire /\ sessions' = sessions /\ astray' = astray
        /\ stored' = stored /\ hidden' = hidden /\ used' = used
    BY <1>2 DEF vars, server
  <2> QED
    BY <1>1, <2>1 DEF PicInv
<1> QED
  BY <1>1, <1>2, PicAct, PicServe, PicAnswered DEF Next

\* A gallery that shows every image as the server lists it is its list.
LEMMA AllRight ==
  ASSUME PicInv, NEW b, \A i \in Images : Right(app.gallery, i, b, stored, hidden)
  PROVE  app.gallery = List(b)
<1>1. \A x \in app.gallery \cup List(b) : Pic(x, Images)
  BY PicFacts, Listing DEF PicsAt, Pic
<1>2. \A i \in Images : /\ Hid(i) \in app.gallery <=> Hid(i) \in List(b)
                        /\ Open(i) \in app.gallery <=> Open(i) \in List(b)
  BY Listing DEF Right
<1>3. \A x : x \in app.gallery <=> x \in List(b)
  BY <1>1, <1>2 DEF Pic
<1> QED
  BY <1>3

\* Once nothing is under way, a page whose answers came in order, and whose
\* failures were not silent, shows what the server has: the list of the user's
\* images, an open detail view that is of that list, and the user's profile.
\* The setters of App.tsx (setGallery, setSelectedImage, setUser) take every
\* answer as it comes, in any order and after any other request.
THEOREM PageIsTrue == Spec => []PageIsServers
<1>1. Init => ProfileInv /\ PicInv
  BY InitProfile, InitPic
<1>2. ProfileInv /\ PicInv /\ [Next]_vars => ProfileInv' /\ PicInv'
  BY ProfileNext, PicNext
<1>3. ProfileInv /\ PicInv => PageIsServers
  <2> SUFFICES ASSUME ProfileInv, PicInv, AtRest, Signed, "session" \notin astray
               PROVE  /\ "gallery" \notin astray => app.gallery = List(app.user.of)
                      /\ astray \cap {"gallery", "detail"} = {} => ui.selected \in app.gallery \cup {NoItem}
                      /\ "profile" \notin astray => app.user = Me(app.user.of)
    BY DEF PageIsServers
  <2>1. wire = {} /\ app.token # 0 /\ app.user # NoUser
    BY DEF AtRest, Signed
  <2>2. AcctOf(sessions, app.token) = app.user.of
    BY <2>1, PicFacts, OwnFacts DEF PageOwns
  <2>3. "gallery" \notin astray => app.gallery = List(app.user.of)
    BY <2>1, <2>2, PicFacts, AllRight DEF GalleryAt
  <2>4. astray \cap {"gallery", "detail"} = {} => ui.selected \in app.gallery \cup {NoItem}
    BY <2>1, PicFacts DEF DetailAt
  <2>5. "profile" \notin astray => app.user = Me(app.user.of)
    BY <2>1, <2>2, ProfileFacts DEF ProfileAt, Me, MeOf
  <2> QED
    BY <2>3, <2>4, <2>5
<1> QED
  BY <1>1, <1>2, <1>3, PTL DEF Spec
-----------------------------------------------------------------------------
(* What everything is, and how much of it.                                 *)

\* The calls that may still make a session
Opening(w) == {c \in w : c.at = "sent" /\ c.kind \in {"login", "register", "callback"}}

CallSort(c) ==
  /\ c.kind \in Kinds /\ c.want \in BOOLEAN /\ c.live \in BOOLEAN /\ c.stale \in BOOLEAN
  /\ c.at \in {"sent", "ok", "failed", "timer"} /\ c.got.user \in Users
  /\ c.kind = "profile" => c.arg \in Names

\* n sessions, of m that there may be, and calls w that may make more
WireSort(w, n, m) ==
  /\ IsFiniteSet(w) /\ n + Cardinality(Opening(w)) <= m
  /\ \A c \in w : CallSort(c)

AppSort(p) ==
  p.view \in Views /\ p.user \in Users /\ p.usage \in Accounts \cup {Nobody} /\ p.ifpay \in BOOLEAN

Flags(g) == g.busy \in Cycles \cup {"", "yes"} /\ g.resending \in BOOLEAN /\ g.loading \in BOOLEAN

\* The nickname that SettingsView edits is one that may be saved.
AliasSort(x, s) == x \in Names \cup {""} /\ (s = "settings" => x \in Names)

ServerSort ==
  /\ \A t \in 1..Len(sessions) : sessions[t] \in members
  /\ members \subseteq Accounts /\ verified \subseteq members
  /\ names \in [Accounts -> Names] /\ written \in [Accounts -> [Lists -> 0..MaxWrites]]

BoundSort ==
  /\ Cardinality(wire) <= journey.wire
  /\ reloads \in 0..journey.reloads /\ faults \in 0..journey.faults /\ astray \subseteq Topics

TypeInv ==
  /\ PicInv /\ ServerSort /\ BoundSort
  /\ WireSort(wire, Len(sessions), journey.sessions)
  /\ AppSort(app) /\ Flags(ui) /\ AliasSort(ui.alias, Screen(app))

LEMMA TypeFacts ==
  ASSUME TypeInv
  PROVE  /\ PicInv /\ OwnInv /\ CheckInv /\ Calls(wire, Len(sessions)) /\ UiShape(ui, Len(sessions))
         /\ IsUi(ui) /\ Len(sessions) \in Nat /\ Alike(ui, ui)
         /\ ServerSort /\ BoundSort /\ WireSort(wire, Len(sessions), journey.sessions)
         /\ AppSort(app) /\ Flags(ui) /\ AliasSort(ui.alias, Screen(app))
         /\ journey.wire \in Nat /\ journey.sessions \in Nat /\ journey.reloads \in Nat /\ journey.faults \in Nat
  BY PicFacts, AppFacts, JourneyFacts DEF TypeInv

\* The calls that take the place of those of w
Replaced(F, w) == {F[c] : c \in w}

LEMMA ReplacedFinite ==
  ASSUME NEW w, IsFiniteSet(w), NEW F
  PROVE  IsFiniteSet(Replaced(F, w)) /\ Cardinality(Replaced(F, w)) <= Cardinality(w)
<1> DEFINE G == [c \in w |-> F[c]]
<1>1. G \in Surjection(w, Replaced(F, w))
  BY DEF Surjection, Replaced
<1> QED
  BY <1>1, FS_Surjection

\* They make no more sessions, and neither do new calls of other kinds.
LEMMA WireReplaced ==
  ASSUME NEW w, NEW n \in Nat, NEW m \in Nat, WireSort(w, n, m), NEW F, NEW new, IsFiniteSet(new),
         \A c \in w : CallSort(F[c]) /\ F[c].kind = c.kind /\ F[c].at = c.at,
         \A d \in new : CallSort(d) /\ (d.at # "sent" \/ d.kind \notin {"login", "register", "callback"})
  PROVE  WireSort(Replaced(F, w) \cup new, n, m)
<1> DEFINE r == Replaced(F, w)
           o == Replaced(F, Opening(w))
<1>1. Opening(w) \in SUBSET w /\ IsFiniteSet(w) /\ n + Cardinality(Opening(w)) <= m
  BY DEF Opening, WireSort
<1>2. IsFiniteSet(Opening(w)) /\ Cardinality(Opening(w)) \in Nat
  BY <1>1, FS_Subset, FS_CardinalityType
<1>3. IsFiniteSet(o) /\ Cardinality(o) <= Cardinality(Opening(w)) /\ IsFiniteSet(r)
  BY <1>1, <1>2, ReplacedFinite
<1>4. Opening(r \cup new) \in SUBSET o
  BY DEF Opening, Replaced
<1>5. \A d \in r \cup new : CallSort(d)
  BY DEF Replaced
<1> HIDE DEF r, o
<1>6. IsFiniteSet(r \cup new)
  BY <1>3, FS_Union
<1>7. Cardinality(Opening(r \cup new)) <= Cardinality(o) /\ Cardinality(o) \in Nat
      /\ Cardinality(Opening(r \cup new)) \in Nat
  BY <1>3, <1>4, FS_Subset, FS_CardinalityType
<1>8. n + Cardinality(Opening(r \cup new)) <= m
  BY <1>1, <1>2, <1>3, <1>7
<1>9. WireSort(r \cup new, n, m)
  BY <1>5, <1>6, <1>8 DEF WireSort
<1> QED
  BY <1>9 DEF r

\* Some of the calls, with calls that cannot make a session
LEMMA WireFewer ==
  ASSUME NEW w, NEW n \in Nat, NEW m \in Nat, WireSort(w, n, m), NEW v \in SUBSET w, NEW new, IsFiniteSet(new),
         \A d \in new : CallSort(d) /\ (d.at # "sent" \/ d.kind \notin {"login", "register", "callback"})
  PROVE  WireSort(v \cup new, n, m)
<1>1. Opening(v \cup new) \in SUBSET Opening(w) /\ Opening(w) \in SUBSET w
  BY DEF Opening
<1>2. IsFiniteSet(w) /\ n + Cardinality(Opening(w)) <= m
  BY DEF WireSort
<1>3. IsFiniteSet(Opening(w)) /\ Cardinality(Opening(w)) \in Nat /\ IsFiniteSet(v)
  BY <1>1, <1>2, FS_Subset, FS_CardinalityType
<1>4. Cardinality(Opening(v \cup new)) <= Cardinality(Opening(w)) /\ Cardinality(Opening(v \cup new)) \in Nat
  BY <1>1, <1>3, FS_Subset, FS_CardinalityType
<1>5. IsFiniteSet(v \cup new)
  BY <1>3, FS_Union
<1>6. n + Cardinality(Opening(v \cup new)) <= m
  BY <1>2, <1>3, <1>4
<1>7. \A d \in v \cup new : CallSort(d)
  BY DEF WireSort
<1> QED
  BY <1>5, <1>6, <1>7 DEF WireSort

LEMMA AskSort ==
  ASSUME NEW kind \in Reads, NEW tok
  PROVE  /\ CallSort(Ask(kind, tok, Nobody))
         /\ Ask(kind, tok, Nobody).kind \notin {"login", "register", "callback"}
<1> DEFINE c == Ask(kind, tok, Nobody)
<1>1. /\ c.kind = kind /\ c.want = FALSE /\ c.live = TRUE /\ c.stale = FALSE /\ c.at = "sent" /\ c.got = NoAnswer
  BY DEF Ask
<1> HIDE DEF c
<1>2. NoAnswer.user \in Users
  BY DEF NoAnswer, Users
<1>3. CallSort(c) /\ c.kind \notin {"login", "register", "callback"}
  BY <1>1, <1>2 DEF CallSort, Kinds, Reads
<1> QED
  BY <1>3 DEF c

LEMMA CleanedSort ==
  ASSUME NEW n, NEW c, CallShape(c, n), CallSort(c), NEW moved, NEW fresh, NEW again
  PROVE  LET d == Cleaned(c, moved, fresh, again)
         IN CallSort(d) /\ d.kind = c.kind /\ d.at = c.at
<1> DEFINE b == /\ c.live /\ ~(moved /\ c.kind \notin AppOnly)
                /\ ~(fresh /\ c.kind = "load") /\ ~((fresh \/ again) /\ c.kind = "orders")
           d == [c EXCEPT !.live = b]
<1>1. Cleaned(c, moved, fresh, again) = d
  BY DEF Cleaned
<1>2. b \in BOOLEAN
  OBVIOUS
<1> HIDE DEF b
<1>3. Kin(c, d) /\ d.live = b /\ d.stale = c.stale
  BY SetLiveKin
<1> HIDE DEF d
<1>4. CallSort(d) /\ d.kind = c.kind /\ d.at = c.at
  BY <1>2, <1>3 DEF CallSort, Kin
<1> QED
  BY <1>1, <1>4

\* The calls that Render leaves in flight
LEMMA RenderSort ==
  ASSUME NEW n \in Nat, NEW m \in Nat, NEW p, NEW g, NEW w, NEW a, NEW again, Calls(w, n), WireSort(w, n, m),
         Render(p, g, w, a, again)
  PROVE  WireSort(wire', n, m)
<1> DEFINE moved == Screen(p) # Screen(app)
           fresh == p.token # app.token
           reads == Screen(p) = "pricing" /\ (moved \/ fresh \/ again)
           F == [c \in w |-> Cleaned(c, moved, fresh, again)]
           keys == Screen(p) = "api" /\ (moved \/ fresh)
           new == LoadEffect(p, fresh) \cup OrdersEffect(p, reads) \cup KeysEffect(p, keys)
<1>1. wire' = {Cleaned(c, moved, fresh, again) : c \in w} \cup new
  BY DEF Render
<1> HIDE DEF moved, fresh, reads, keys
<1>2. {Cleaned(c, moved, fresh, again) : c \in w} = Replaced(F, w)
  BY DEF Replaced
<1>3. \A c \in w : CallSort(F[c]) /\ F[c].kind = c.kind /\ F[c].at = c.at
  BY CleanedSort DEF Calls, WireSort
<1> HIDE DEF F
<1>4. /\ LoadEffect(p, fresh) \subseteq {Ask("load", p.token, Nobody)}
      /\ OrdersEffect(p, reads) \subseteq {Ask("orders", p.token, Nobody)}
      /\ KeysEffect(p, keys) \subseteq {Ask("keys", p.token, Nobody)}
  BY DEF LoadEffect, OrdersEffect, KeysEffect
<1> DEFINE three == {Ask("load", p.token, Nobody)} \cup {Ask("orders", p.token, Nobody)} \cup {Ask("keys", p.token, Nobody)}
<1>5. new \in SUBSET three
  BY <1>4
<1>6. IsFiniteSet(three)
  BY FS_Singleton, FS_Union
<1>7. \A d \in three : CallSort(d) /\ d.kind \notin {"login", "register", "callback"}
  BY AskSort DEF Reads
<1> HIDE DEF new, three
<1>8. IsFiniteSet(new)
  BY <1>5, <1>6, FS_Subset
<1>9. WireSort(Replaced(F, w) \cup new, n, m)
  BY <1>3, <1>5, <1>7, <1>8, WireReplaced
<1> QED
  BY <1>1, <1>2, <1>9

\* A user on the screen has a nickname.
LEMMA UserName ==
  ASSUME NEW u \in Users, u # NoUser
  PROVE  u.name \in Names
  BY DEF Users

\* A state of the mounted view whose flags are flags
Kept(g) == UiShape(g, Len(sessions)) /\ Flags(g)

LEMMA FlagsSet ==
  ASSUME CheckInv, Flags(ui), NEW x
  PROVE  /\ Kept(ui)
         /\ x \in Cycles \cup {"", "yes"} => Kept([ui EXCEPT !.busy = x])
         /\ x \in BOOLEAN => Kept([ui EXCEPT !.resending = x]) /\ Kept([ui EXCEPT !.loading = x])
         /\ x \in Modes => Kept([ui EXCEPT !.mode = x])
         /\ Kept([ui EXCEPT !.selected = x]) /\ Kept([ui EXCEPT !.rows = x]) /\ Kept([ui EXCEPT !.alias = x])
         /\ Kept([ui EXCEPT !.rows = x, !.loading = FALSE])
<1>1. /\ IsUi(ui) /\ UiShape(ui, Len(sessions)) /\ Len(sessions) \in Nat
  BY AppFacts
<1>2. Kept(ui)
  BY <1>1 DEF Kept
<1>3. x \in Cycles \cup {"", "yes"} => Kept([ui EXCEPT !.busy = x])
  BY <1>1, UiBusy, SetUi DEF Kept, Flags, UiRec
<1>4. x \in BOOLEAN => Kept([ui EXCEPT !.resending = x])
  BY <1>1, UiResending, SetUi DEF Kept, Flags, UiRec
<1>5. x \in BOOLEAN => Kept([ui EXCEPT !.loading = x])
  BY <1>1, UiLoading, SetUi DEF Kept, Flags, UiRec
<1>6. x \in Modes => Kept([ui EXCEPT !.mode = x])
  BY <1>1, UiMode, SetUi DEF Kept, Flags, UiRec
<1>7. Kept([ui EXCEPT !.selected = x])
  BY <1>1, UiSelected, SetUi DEF Kept, Flags, UiRec
<1>8. Kept([ui EXCEPT !.rows = x])
  BY <1>1, UiRows, SetUi DEF Kept, Flags, UiRec
<1>9. Kept([ui EXCEPT !.alias = x])
  BY <1>1, UiAlias, SetUi DEF Kept, Flags, UiRec
<1>10. Kept([ui EXCEPT !.rows = x, !.loading = FALSE])
  BY <1>1, UiListed, SetRowsLoading DEF Kept, Flags, UiRec
<1> QED
  BY <1>2, <1>3, <1>4, <1>5, <1>6, <1>7, <1>8, <1>9, <1>10

LEMMA FlagsMounted ==
  ASSUME NEW p
  PROVE  Flags(Mounted(p))
<1>1. /\ Mounted(p).busy = "" /\ Mounted(p).resending = FALSE
      /\ Mounted(p).loading = (Screen(p) = "pricing" /\ p.token # 0)
  BY DEF Mounted
<1> QED
  BY <1>1 DEF Flags

LEMMA FlagsRender ==
  ASSUME NEW p, NEW g, NEW w, NEW a, NEW again, Kept(g), Render(p, g, w, a, again)
  PROVE  Flags(ui')
<1>1. UiShape(g, Len(sessions)) /\ Flags(g)
  BY DEF Kept
<1>2. CASE Screen(p) # Screen(app)
  BY <1>1, <1>2, RenderUi, FlagsMounted
<1>3. CASE Screen(p) = Screen(app)
  <2>1. /\ ui'.busy = g.busy /\ ui'.resending = g.resending
        /\ ui'.loading = g.loading \/ ui'.loading = (p.token # 0)
    BY <1>1, <1>3, RenderUi
  <2> QED
    BY <1>1, <2>1 DEF Flags
<1> QED
  BY <1>2, <1>3

LEMMA FlagsAct ==
  ASSUME CheckInv, Flags(ui), Act
  PROVE  Flags(ui')
<1>1. ASSUME NEW g, NEW c, Send(g, c), Kept(g)
      PROVE  Flags(ui')
  BY <1>1, FlagsRender DEF Send
<1>2. ASSUME NEW g, Set(g), Kept(g)
      PROVE  Flags(ui')
  BY <1>2, FlagsRender DEF Set
<1>3. ASSUME NEW v, Show(v)
      PROVE  Flags(ui')
  BY <1>3, FlagsSet, FlagsRender DEF Show
<1>4. CASE OpenAuth \/ LeaveAuth \/ OpenDocs \/ HashDocs \/ CloseDocs \/ DocsLogin \/ \E v \in AppViews : Navigate(v)
  BY <1>3, <1>4 DEF OpenAuth, LeaveAuth, OpenDocs, HashDocs, CloseDocs, DocsLogin, Navigate
<1>5. CASE Logout
  BY <1>5, FlagsSet, FlagsRender, LogoutDoes
<1>6. CASE \E m \in Modes : SwitchMode(m)
  BY <1>2, <1>6, FlagsSet DEF SwitchMode
<1>7. CASE \/ \E a \in journey.who : Submit(a)
           \/ \E i \in journey.images : UploadFile(i)
           \/ StartIFPayOAuth
  <2>1. Kept([ui EXCEPT !.busy = "yes"]) /\ Kept(ui)
    BY FlagsSet
  <2> QED
    BY <1>1, <1>7, <2>1 DEF Submit, UploadFile, StartIFPayOAuth
<1>8. CASE ResendVerification
  BY <1>1, <1>8, FlagsSet DEF ResendVerification
<1>9. CASE DeleteImage \/ TogglePrivacy \/ CreateKey \/ RevokeKey \/ SaveProfile
           \/ \E i \in journey.images : ImportBackup(i)
  BY <1>1, <1>9, FlagsSet DEF DeleteImage, TogglePrivacy, CreateKey, RevokeKey, SaveProfile, ImportBackup
<1>10. CASE (\E item \in app.gallery : Select(item)) \/ Back
  <2>1. CASE Back
    BY <1>2, <2>1, FlagsSet DEF Back
  <2>2. CASE \E item \in app.gallery : Select(item)
    BY <2>2, FlagsSet, FlagsRender DEF Select
  <2> QED
    BY <1>10, <2>1, <2>2
<1>11. CASE \E cycle \in Cycles : Checkout(cycle)
  <2>1. \A cycle \in Cycles : Kept([ui EXCEPT !.busy = cycle])
    BY FlagsSet
  <2> QED
    BY <1>1, <1>3, <1>11, <2>1 DEF Checkout
<1>12. CASE RefreshOrders
  <2>1. Kept([ui EXCEPT !.loading = TRUE]) /\ Kept([ui EXCEPT !.rows = NoRows])
    BY FlagsSet
  <2> QED
    BY <1>1, <1>2, <1>12, <2>1 DEF RefreshOrders
<1>13. CASE \E x \in Names : EditAlias(x)
  BY <1>2, <1>13, FlagsSet DEF EditAlias
<1>14. CASE \E v \in {"landing", "docs"} : Reload(v)
  BY <1>14, FlagsMounted DEF Reload, Reopen
<1> QED
  BY <1>4, <1>5, <1>6, <1>7, <1>8, <1>9, <1>10, <1>11, <1>12, <1>13, <1>14 DEF Act

LEMMA FlagsAnswered ==
  ASSUME CheckInv, Flags(ui), NEW c \in wire, Answer(c)
  PROVE  Flags(ui')
<1>1. \A g : Kept(g) => Kept(Local(c, g))
  BY FlagsSet DEF Local
<1>2. ASSUME NEW p, NEW g, NEW a, Done(c, p, g, a), Kept(g)
      PROVE  Flags(ui')
  BY <1>1, <1>2, FlagsRender DEF Done
<1>3. Kept(ui) /\ Kept([ui EXCEPT !.busy = ""]) /\ Kept(Resent)
  <2>1. Kept(ui) /\ Kept([ui EXCEPT !.busy = ""]) /\ Kept([ui EXCEPT !.resending = FALSE])
    BY FlagsSet
  <2> QED
    BY <2>1 DEF Resent
<1>4. CASE SignedIn(c)
  BY <1>2, <1>3, <1>4 DEF SignedIn
<1>5. CASE IFPayCallback(c) \/ ImagesAnswered(c) \/ MeAnswered(c) \/ Imported(c) \/ ProfileSaved(c) \/ LoadFailed(c)
  BY <1>2, <1>3, <1>5 DEF IFPayCallback, ImagesAnswered, MeAnswered, Imported, ProfileSaved, LoadFailed
<1>6. CASE AuthAnswered(c)
  <2> DEFINE idle == [ui EXCEPT !.busy = ""]
             known == [of |-> c.arg, tok |-> c.got.tok]
             g1 == [idle EXCEPT !.pending = known, !.mode = "verify"]
  <2>1. UiShape(idle, Len(sessions)) /\ Flags(idle) /\ IsUi(idle)
    BY <1>3, AppFacts, UiIs DEF Kept
  <2>2. CASE c.kind = "resend"
    <3>1. Done(c, app, Resent, astray)
      BY <1>6, <2>2 DEF AuthAnswered
    <3> QED
      BY <1>2, <1>3, <3>1
  <2>3. CASE c.kind = "register"
    <3>1. Done(c, app, g1, astray)
      BY <1>6, <2>3 DEF AuthAnswered
    <3> HIDE DEF idle
    <3>2. UiShape(g1, Len(sessions))
      BY <1>6, <2>1, AppFacts, SetPendingMode, AnswerFacts DEF Modes
    <3>3. Flags(g1)
      BY <2>1, UiRegistered DEF UiRec, Flags
    <3> HIDE DEF g1
    <3> QED
      BY <1>2, <3>1, <3>2, <3>3 DEF Kept
  <2>4. ASSUME c.kind \in {"forgot", "reset"}
        PROVE  \E x : \E m \in Modes : Done(c, app, [idle EXCEPT !.reset = x, !.mode = m], astray)
    BY <1>6, <2>4 DEF AuthAnswered, Modes
  <2>5. CASE c.kind \in {"forgot", "reset"}
    <3>1. PICK x : \E m \in Modes : Done(c, app, [idle EXCEPT !.reset = x, !.mode = m], astray)
      BY <2>4, <2>5
    <3>2. PICK m \in Modes : Done(c, app, [idle EXCEPT !.reset = x, !.mode = m], astray)
      BY <3>1
    <3> DEFINE g == [idle EXCEPT !.reset = x, !.mode = m]
    <3> HIDE DEF idle
    <3>3. UiShape(g, Len(sessions))
      BY <2>1, AppFacts, SetResetMode
    <3>4. Flags(g)
      BY <2>1, UiReset DEF UiRec, Flags
    <3>5. Done(c, app, g, astray)
      BY <3>2
    <3> HIDE DEF g
    <3> QED
      BY <1>2, <3>3, <3>4, <3>5 DEF Kept
  <2> QED
    BY <1>6, <2>2, <2>3, <2>5 DEF AuthAnswered, Answered
<1>7. CASE OAuthStarted(c)
  BY <1>7, FlagsMounted DEF OAuthStarted, Reopen
<1>8. CASE Loaded(c)
  BY <1>2, <1>3, <1>8 DEF Loaded
<1>9. CASE UploadAnswered(c) \/ KeyWritten(c)
  BY <1>3, <1>9, FlagsRender DEF UploadAnswered, KeyWritten
<1>10. CASE UploadShown(c) \/ CheckedOut(c)
  BY <1>1, <1>3, <1>10, FlagsRender DEF UploadShown, CheckedOut
<1>11. CASE DeleteAnswered(c) \/ ToggleAnswered(c)
  BY <1>2, <1>11, FlagsSet DEF DeleteAnswered, ToggleAnswered
<1>12. CASE OrdersAnswered(c) \/ KeysAnswered(c)
  BY <1>2, <1>12, FlagsSet DEF OrdersAnswered, KeysAnswered
<1>13. CASE Failed(c)
  <2>1. \E g \in {ui, [ui EXCEPT !.busy = ""], Resent} : Done(c, app, g, astray)
    BY <1>13 DEF Failed
  <2> QED
    BY <1>2, <1>3, <2>1
<1> QED
  BY <1>4, <1>5, <1>6, <1>7, <1>8, <1>9, <1>10, <1>11, <1>12, <1>13 DEF Answer

LEMMA TypePage ==
  ASSUME TypeInv, PicInv', NEW p, NEW g, NEW w, NEW a, NEW again, UiShape(g, Len(sessions)),
         Calls(w, Len(sessions)), AppSort(p), Flags(ui'), AliasSort(g.alias, Screen(app)),
         WireSort(w, Len(sessions), journey.sessions), a \subseteq Topics, Render(p, g, w, a, again), ByClient
  PROVE  TypeInv'
<1> DEFINE moved == Screen(p) # Screen(app)
<1>1. /\ app' = p /\ Cardinality(wire') <= journey.wire /\ astray' \subseteq Topics
      /\ sessions' = sessions /\ members' = members /\ verified' = verified /\ names' = names
      /\ written' = written /\ reloads' = reloads /\ faults' = faults /\ journey' = journey
  BY DEF Render, ByClient, server, bounds
<1>2. WireSort(wire', Len(sessions), journey.sessions)
  BY TypeFacts, RenderSort
<1>3. Screen(p) = "settings" => p.user.name \in Names
  BY UserName DEF Screen, AppSort
<1>4. AliasSort(ui'.alias, Screen(p))
  <2>1. CASE moved
    <3>1. Mounted(p).alias = (IF Screen(p) = "settings" THEN p.user.name ELSE "")
      BY DEF Mounted
    <3>2. ui' = Mounted(p)
      BY <2>1, RenderUi
    <3> QED
      BY <1>3, <3>1, <3>2 DEF AliasSort
  <2>2. CASE ~moved
    <3>1. ui'.alias = (IF Screen(p) = "settings" /\ p.user.name # app.user.name THEN p.user.name ELSE g.alias)
      BY <2>2, RenderUi
    <3> QED
      BY <1>3, <2>2, <3>1 DEF AliasSort
  <2> QED
    BY <2>1, <2>2
<1>5. ServerSort'
  BY <1>1, TypeFacts DEF ServerSort
<1>6. BoundSort'
  BY <1>1, TypeFacts DEF BoundSort
<1>7. Screen(app)' = Screen(p)
  BY <1>1 DEF Screen
<1> QED
  BY <1>1, <1>2, <1>4, <1>5, <1>6, <1>7 DEF TypeInv

LEMMA TypeSending ==
  ASSUME TypeInv, PicInv', Flags(ui'), NEW g, NEW c, Sending(g, c)
  PROVE  TypeInv'
<1>1. /\ Render(app, g, wire \cup {c}, astray, FALSE) /\ ByClient /\ UiShape(g, Len(sessions))
      /\ g.alias = ui.alias /\ CallShape(c, Len(sessions)) /\ CallTrue(c) /\ Asked(c)
  BY DEF Sending, Send, Alike
<1>2. Calls(wire \cup {c}, Len(sessions))
  BY <1>1, TypeFacts DEF Calls
<1>3. CallSort(c)
  <2>1. NoAnswer.user \in Users
    BY DEF NoAnswer, Users
  <2>2. c.kind \in Kinds
    BY <1>1 DEF Asked, Kinds, Unauthorized, Reads
  <2>3. c.kind = "profile" => c.arg \in Names
    BY <1>1, TypeFacts DEF Asked, AliasSort, On
  <2> QED
    BY <1>1, <2>1, <2>2, <2>3 DEF Asked, CallSort
<1>4. WireSort(wire \cup {c}, Len(sessions), journey.sessions)
  <2>1. IsFiniteSet(wire) /\ Len(sessions) + Cardinality(Opening(wire)) <= journey.sessions
        /\ \A d \in wire : CallSort(d)
    BY TypeFacts DEF WireSort
  <2>2. CASE c.kind \notin {"login", "register"}
    <3>1. c.kind # "callback"
      BY <1>1 DEF Asked
    <3> QED
      BY <1>3, <2>2, <3>1, TypeFacts, FS_Singleton, WireFewer
  <2>3. CASE c.kind \in {"login", "register"}
    <3> DEFINE all == {d \in wire : d.at = "sent" /\ d.kind \in SignIns}
    <3>1. Opening(wire) \in SUBSET all /\ all \in SUBSET wire
      BY DEF Opening, SignIns
    <3>2. Len(sessions) + Cardinality(all) < journey.sessions
      BY <1>1, <2>3 DEF Asked, SignInsLeft
    <3> HIDE DEF all
    <3>3. /\ IsFiniteSet(all) /\ Cardinality(all) \in Nat /\ IsFiniteSet(Opening(wire))
          /\ Cardinality(Opening(wire)) \in Nat /\ Cardinality(Opening(wire)) <= Cardinality(all)
      BY <2>1, <3>1, FS_Subset, FS_CardinalityType
    <3>4. Opening(wire \cup {c}) \in SUBSET (Opening(wire) \cup {c})
      BY DEF Opening
    <3>5. /\ IsFiniteSet(Opening(wire) \cup {c}) /\ IsFiniteSet(wire \cup {c})
          /\ Cardinality(Opening(wire) \cup {c}) \in Nat
          /\ Cardinality(Opening(wire) \cup {c}) <= Cardinality(Opening(wire)) + 1
      <4> DEFINE o == Opening(wire)
      <4>1. IsFiniteSet(o) /\ Cardinality(o) \in Nat
        BY <3>3
      <4> HIDE DEF o
      <4>2. IsFiniteSet(o \cup {c}) /\ Cardinality(o \cup {c}) = IF c \in o THEN Cardinality(o) ELSE Cardinality(o) + 1
        BY <4>1, FS_AddElement
      <4>3. Cardinality(o \cup {c}) \in Nat /\ Cardinality(o \cup {c}) <= Cardinality(o) + 1
        BY <4>1, <4>2
      <4>4. IsFiniteSet(wire \cup {c})
        BY <2>1, FS_AddElement
      <4> QED
        BY <4>2, <4>3, <4>4 DEF o
    <3>6. Cardinality(Opening(wire \cup {c})) <= Cardinality(Opening(wire) \cup {c})
          /\ Cardinality(Opening(wire \cup {c})) \in Nat
      BY <3>4, <3>5, FS_Subset, FS_CardinalityType
    <3>7. Len(sessions) + Cardinality(Opening(wire \cup {c})) <= journey.sessions
      BY <3>2, <3>3, <3>5, <3>6, TypeFacts
    <3> QED
      BY <1>3, <2>1, <3>5, <3>7 DEF WireSort
  <2> QED
    BY <2>2, <2>3
<1>5. astray \subseteq Topics
  BY TypeFacts DEF BoundSort
<1> QED
  BY <1>1, <1>2, <1>4, <1>5, TypeFacts, TypePage

\* A page that is opened again
LEMMA TypeReopen ==
  ASSUME TypeInv, PicInv', Flags(ui'), NEW v \in {"landing", "docs"}, NEW calls, IsFiniteSet(calls), Reopen(v, calls),
         \A c \in calls : CallSort(c), Len(sessions) + Cardinality(Opening(calls)) <= journey.sessions
  PROVE  TypeInv'
<1>1. /\ app' = Opened(v) /\ ui' = Mounted(app') /\ wire' = calls \cup LoadEffect(app', TRUE)
      /\ Cardinality(wire') <= journey.wire /\ astray' = {} /\ reloads < journey.reloads /\ reloads' = reloads + 1
      /\ sessions' = sessions /\ members' = members /\ verified' = verified /\ names' = names
      /\ written' = written /\ faults' = faults /\ journey' = journey
  BY DEF Reopen, server
<1>2. LoadEffect(app', TRUE) \in SUBSET {Ask("load", app'.token, Nobody)}
  BY DEF LoadEffect
<1>3. IsFiniteSet(LoadEffect(app', TRUE))
  <2>1. ASSUME NEW x, NEW e \in SUBSET {x}
        PROVE  IsFiniteSet(e)
    <3>1. IsFiniteSet({x})
      BY FS_Singleton
    <3> QED
      BY <3>1, FS_Subset
  <2> QED
    BY <1>2, <2>1
<1>4. \A d \in LoadEffect(app', TRUE) : CallSort(d) /\ d.kind \notin {"login", "register", "callback"}
  BY <1>2, AskSort DEF Reads
<1>5. WireSort(calls, Len(sessions), journey.sessions)
  BY DEF WireSort
<1>6. WireSort(wire', Len(sessions), journey.sessions)
  <2> DEFINE e == LoadEffect(app', TRUE)
  <2>1. wire' = calls \cup e /\ IsFiniteSet(e) /\ \A d \in e : CallSort(d) /\ d.kind \notin {"login", "register", "callback"}
    BY <1>1, <1>3, <1>4
  <2> HIDE DEF e
  <2> QED
    BY <1>5, <2>1, TypeFacts, WireFewer
<1>7. AppSort(app') /\ Screen(app)' \in {"landing", "docs"} /\ app'.user = NoUser
  <2>1. /\ app'.view = v /\ app'.user = NoUser /\ app'.usage = Nobody /\ app'.ifpay = app.ifpay
    BY <1>1 DEF Opened
  <2> QED
    BY <2>1, TypeFacts DEF AppSort, Views, Users, Screen
<1>8. AliasSort(ui'.alias, Screen(app)')
  <2>1. Mounted(app').alias = (IF Screen(app') = "settings" THEN app'.user.name ELSE "")
    BY DEF Mounted
  <2>2. Screen(app') = Screen(app)'
    BY DEF Screen
  <2> QED
    BY <1>1, <1>7, <2>1, <2>2 DEF AliasSort
<1>9. ServerSort'
  BY <1>1, TypeFacts DEF ServerSort
<1>10. BoundSort'
  BY <1>1, TypeFacts DEF BoundSort
<1> QED
  BY <1>1, <1>6, <1>7, <1>8, <1>9, <1>10 DEF TypeInv

LEMMA TypeAct ==
  ASSUME TypeInv, PicInv', Act
  PROVE  TypeInv'
<1>1. Flags(ui')
  BY TypeFacts, FlagsAct
<1>2. WireSort(wire, Len(sessions), journey.sessions) /\ Calls(wire, Len(sessions)) /\ astray \subseteq Topics
  BY TypeFacts DEF BoundSort
<1>3. ASSUME NEW p, NEW g, NEW a, Render(p, g, wire, a, FALSE), ByClient, AppSort(p), UiShape(g, Len(sessions)),
             AliasSort(g.alias, Screen(app)), a \subseteq astray
      PROVE  TypeInv'
  BY <1>1, <1>2, <1>3, TypePage
<1>4. ASSUME NEW v \in Views, Show(v)
      PROVE  TypeInv'
  <2> DEFINE p == AppRec(v, app.user, app.usage, app.token, app.ifpay, app.gallery)
  <2>1. Render(p, ui, wire, astray, FALSE) /\ ByClient
    BY <1>4, TypeFacts, ShowDoes DEF Show
  <2>2. AppSort(p)
    BY TypeFacts DEF AppSort, AppRec
  <2> HIDE DEF p
  <2> QED
    BY <1>3, <2>1, <2>2, TypeFacts
<1>5. CASE Logout
  <2> DEFINE p == AppRec("landing", NoUser, Nobody, 0, FALSE, app.gallery)
  <2>1. Render(p, ui, wire, astray \ {"session"}, FALSE) /\ ByClient
    BY <1>5, TypeFacts, LogoutDoes DEF Logout
  <2>2. AppSort(p)
    BY DEF AppSort, AppRec, Views, Users
  <2> HIDE DEF p
  <2> QED
    BY <1>3, <2>1, <2>2, TypeFacts
<1>6. ASSUME NEW g, Set(g), UiShape(g, Len(sessions)), AliasSort(g.alias, Screen(app))
      PROVE  TypeInv'
  BY <1>3, <1>6, TypeFacts DEF Set
<1>7. CASE \E item \in app.gallery : Select(item)
  <2>1. PICK item \in app.gallery : Select(item)
    BY <1>7
  <2> DEFINE g == [ui EXCEPT !.selected = item]
  <2>2. Render(app, g, wire, astray \ {"detail"}, FALSE) /\ ByClient
    BY <2>1 DEF Select
  <2>3. UiShape(g, Len(sessions)) /\ g.alias = ui.alias
    BY TypeFacts, SelectDoes
  <2> HIDE DEF g
  <2> QED
    BY <1>3, <2>2, <2>3, TypeFacts
<1>8. CASE Back
  <2> DEFINE g == [ui EXCEPT !.selected = NoItem]
  <2>1. Set(g) /\ UiShape(g, Len(sessions)) /\ g.alias = ui.alias
    BY <1>8, TypeFacts, SelectDoes DEF Back
  <2> HIDE DEF g
  <2> QED
    BY <1>6, <2>1, TypeFacts
<1>9. CASE \E m \in Modes : SwitchMode(m)
  <2>1. PICK m \in Modes : SwitchMode(m)
    BY <1>9
  <2> DEFINE g == [ui EXCEPT !.mode = m]
  <2>2. Set(g) /\ UiShape(g, Len(sessions)) /\ Alike(g, ui)
    BY <2>1, TypeFacts, AlikeUi DEF SwitchMode
  <2> HIDE DEF g
  <2> QED
    BY <1>6, <2>2, TypeFacts DEF Alike
<1>10. CASE \E x \in Names : EditAlias(x)
  <2>1. PICK x \in Names : EditAlias(x)
    BY <1>10
  <2> DEFINE g == [ui EXCEPT !.alias = x]
  <2>2. Set(g) /\ UiShape(g, Len(sessions)) /\ g.alias = x
    BY <2>1, TypeFacts, AliasDoes DEF EditAlias
  <2> HIDE DEF g
  <2> QED
    BY <1>6, <2>2 DEF AliasSort
<1>11. CASE Set([ui EXCEPT !.rows = NoRows])
  <2> DEFINE g == [ui EXCEPT !.rows = NoRows]
  <2>1. Set(g) /\ UiShape(g, Len(sessions)) /\ g.alias = ui.alias
    BY <1>11, TypeFacts, RowsDoes
  <2> HIDE DEF g
  <2> QED
    BY <1>6, <2>1, TypeFacts
<1>12. CASE \E v \in {"landing", "docs"} : Reload(v)
  <2>1. PICK v \in {"landing", "docs"} : Reopen(v, {})
    BY <1>12 DEF Reload
  <2>2. /\ IsFiniteSet({}) /\ Opening({}) = {} /\ Cardinality({}) = 0
    BY FS_EmptySet DEF Opening
  <2>3. Len(sessions) + Cardinality(Opening({})) <= journey.sessions
    <3>1. Opening(wire) \in SUBSET wire
      BY DEF Opening
    <3>2. Cardinality(Opening(wire)) \in Nat /\ Len(sessions) + Cardinality(Opening(wire)) <= journey.sessions
      BY <1>2, <3>1, FS_Subset, FS_CardinalityType DEF WireSort
    <3>3. Cardinality(Opening({})) = 0
      BY <2>2
    <3>4. Len(sessions) \in Nat /\ journey.sessions \in Nat
      BY TypeFacts
    <3> QED
      BY <3>2, <3>3, <3>4
  <2> QED
    BY <1>1, <2>1, <2>2, <2>3, TypeReopen
<1> QED
  BY <1>1, <1>4, <1>5, <1>7, <1>8, <1>9, <1>10, <1>11, <1>12, TypeFacts, ActDoes, TypeSending

\* What answers put out of step is a topic.
LEMMA StrayTopics ==
  ASSUME NEW s \in SUBSET Topics, NEW c, NEW items
  PROVE  /\ \A ts \in SUBSET Topics : /\ Checked(s, c, ts) \subseteq Topics /\ Partial(s, c, ts) \subseteq Topics
                                      /\ Full(s, c, ts) \subseteq Topics
         /\ Detached(s, items) \subseteq Topics /\ Orphaned(s, c) \subseteq Topics
<1>1. \A ts \in SUBSET Topics : \A r \in SUBSET Topics : Partial(r, c, ts) \subseteq Topics
  BY DEF Partial
<1>2. \A ts \in SUBSET Topics : Checked(s, c, ts) \subseteq Topics
  BY DEF Checked
<1>3. \A ts \in SUBSET Topics : Full(s, c, ts) \subseteq Topics
  <2> TAKE ts \in SUBSET Topics
  <2>1. (s \ ts) \in SUBSET Topics
    OBVIOUS
  <2> QED
    BY <1>1, <2>1 DEF Full
<1>4. "detail" \in Topics
  BY DEF Topics
<1>5. Detached(s, items) \subseteq Topics /\ Orphaned(s, c) \subseteq Topics
  BY <1>4 DEF Detached, Orphaned
<1> QED
  BY <1>1, <1>2, <1>3, <1>5

\* The handler of an answer leaves the page like this.
LEMMA TypeStep ==
  ASSUME TypeInv, PicInv', Flags(ui'), NEW c \in wire, NEW p, NEW g, NEW new, NEW a, NEW again,
         IsFiniteSet(new), Calls(new, Len(sessions)),
         \A d \in new : CallSort(d) /\ (d.at # "sent" \/ d.kind \notin {"login", "register", "callback"}),
         Render(p, Local(c, g), (wire \ {c}) \cup new, a, again), ByClient,
         UiShape(g, Len(sessions)), g.alias = ui.alias, AppSort(p), a \subseteq Topics
  PROVE  TypeInv'
<1>1. UiShape(Local(c, g), Len(sessions)) /\ AliasSort(Local(c, g).alias, Screen(app))
  BY TypeFacts DEF Local
<1> DEFINE w == (wire \ {c}) \cup new
<1>2. WireSort(w, Len(sessions), journey.sessions)
  BY TypeFacts, WireFewer
<1>3. Calls(w, Len(sessions))
  BY TypeFacts DEF Calls
<1> HIDE DEF w
<1> QED
  BY <1>1, <1>2, <1>3, TypePage DEF w

LEMMA TypeDone ==
  ASSUME TypeInv, PicInv', Flags(ui'), NEW c \in wire, NEW p, NEW g, NEW a, Done(c, p, g, a),
         UiShape(g, Len(sessions)), g.alias = ui.alias, AppSort(p), a \subseteq Topics
  PROVE  TypeInv'
<1>1. Render(p, Local(c, g), (wire \ {c}) \cup {}, a, FALSE) /\ ByClient
  <2>1. (wire \ {c}) \cup {} = wire \ {c}
    OBVIOUS
  <2> QED
    BY <2>1 DEF Done
<1>2. IsFiniteSet({}) /\ Calls({}, Len(sessions))
  BY FS_EmptySet DEF Calls
<1> QED
  BY <1>1, <1>2, TypeStep

\* App with the user that an answer brings
LEMMA GotSort ==
  ASSUME TypeInv, NEW c \in wire
  PROVE  CallSort(c) /\ c.got.user \in Users /\ c.got.user.of \in Accounts \cup {Nobody}
<1>1. CallSort(c)
  BY TypeFacts DEF WireSort
<1>2. c.got.user \in Users
  BY <1>1 DEF CallSort
<1>3. ASSUME NEW u \in Users
      PROVE  u.of \in Accounts \cup {Nobody}
  <2>1. CASE u = NoUser
    BY <2>1 DEF NoUser
  <2>2. CASE u \in [of : Accounts, name : Names, verified : BOOLEAN]
    <3>1. u.of \in Accounts
      BY <2>2
    <3> QED
      BY <3>1
  <2> QED
    BY <2>1, <2>2 DEF Users
<1> QED
  BY <1>1, <1>2, <1>3

\* The answers that change who is on the screen
LEMMA TypeUser ==
  ASSUME TypeInv, PicInv', Flags(ui'), NEW c \in wire,
         SignedIn(c) \/ IFPayCallback(c) \/ Loaded(c) \/ LoadFailed(c) \/ MeAnswered(c) \/ ProfileSaved(c)
  PROVE  TypeInv'
<1>1. /\ CheckInv /\ UiShape(ui, Len(sessions)) /\ AppSort(app) /\ astray \in SUBSET Topics
      /\ c.got.user \in Users /\ c.got.user.of \in Accounts \cup {Nobody}
  BY TypeFacts, GotSort DEF BoundSort
<1>2. \A s \in SUBSET Topics : \A items : \A ts \in SUBSET Topics :
        /\ Checked(s, c, ts) \subseteq Topics /\ Partial(s, c, ts) \subseteq Topics
        /\ Full(s, c, ts) \subseteq Topics /\ Detached(s, items) \subseteq Topics
  BY StrayTopics
<1>3. CASE SignedIn(c)
  <2> DEFINE p == AppRec("dashboard", c.got.user, Nobody, c.got.tok, app.ifpay, app.gallery)
             a == Checked(astray, c, {"session", "profile"})
  <2>1. PICK g : UiShape(g, Len(sessions)) /\ Alike(g, ui) /\ Done(c, p, g, a)
    BY <1>1, <1>3, SignedInDoes
  <2>2. AppSort(p)
    BY <1>1 DEF AppSort, AppRec, Views, AppViews
  <2>3. a \subseteq Topics
    BY <1>1, <1>2 DEF Topics
  <2> HIDE DEF p, a
  <2> QED
    BY <2>1, <2>2, <2>3, TypeDone DEF Alike
<1>4. CASE IFPayCallback(c)
  <2> DEFINE p == AppRec("pricing", c.got.user, app.usage, c.got.tok, TRUE, app.gallery)
             b == IF app.usage \in {Nobody, c.got.user.of} THEN astray ELSE astray \cup {"usage"}
             a == Checked(b, c, {"session", "profile"})
  <2>1. Done(c, p, ui, a)
    BY <1>1, <1>4, CallbackDoes
  <2>2. AppSort(p)
    BY <1>1 DEF AppSort, AppRec, Views, AppViews
  <2>3. b \in SUBSET Topics /\ {"session", "profile"} \in SUBSET Topics
    BY <1>1 DEF Topics
  <2> HIDE DEF p, b
  <2>4. a \subseteq Topics
    BY <1>2, <2>3
  <2> HIDE DEF a
  <2> QED
    BY <1>1, <2>1, <2>2, <2>4, TypeDone
<1>5. CASE Loaded(c) /\ c.live
  <2> DEFINE p == AppRec(IF app.view \in {"landing", "auth"} THEN "dashboard" ELSE app.view, c.got.user,
                         c.got.user.of, app.token, app.ifpay, c.got.items)
             b == Checked(astray, c, {"session", "usage", "gallery", "profile"})
             a == Detached(b, c.got.items)
  <2>1. Done(c, p, ui, a)
    BY <1>1, <1>5, LoadedDoes
  <2>2. AppSort(p)
    BY <1>1 DEF AppSort, AppRec, Views, AppViews
  <2>3. {"session", "usage", "gallery", "profile"} \in SUBSET Topics
    BY DEF Topics
  <2>4. b \in SUBSET Topics
    BY <1>1, <1>2, <2>3
  <2> HIDE DEF p, b
  <2>5. a \subseteq Topics
    BY <1>2, <2>4
  <2> HIDE DEF a
  <2> QED
    BY <1>1, <2>1, <2>2, <2>5, TypeDone
<1>6. CASE Loaded(c) /\ ~c.live
  <2>1. Done(c, app, ui, astray)
    BY <1>6 DEF Loaded
  <2> QED
    BY <1>1, <2>1, TypeDone
<1>7. CASE LoadFailed(c)
  <2> DEFINE p == AppRec(app.view, app.user, app.usage, 0, app.ifpay, app.gallery)
             a == IF app.user = NoUser THEN astray ELSE astray \cup {"session"}
  <2>1. Done(c, p, ui, a)
    BY <1>1, <1>7, LoadFailedDoes
  <2>2. AppSort(p)
    BY <1>1 DEF AppSort, AppRec
  <2>3. a \subseteq Topics
    BY <1>1 DEF Topics
  <2> HIDE DEF p, a
  <2> QED
    BY <1>1, <2>1, <2>2, <2>3, TypeDone
<1>8. CASE MeAnswered(c)
  <2> DEFINE p == AppRec(app.view, c.got.user, c.got.user.of, app.token, app.ifpay, app.gallery)
             a == Full(astray, c, {"session", "usage", "profile"})
  <2>1. Done(c, p, ui, a)
    BY <1>1, <1>8, MeDoes
  <2>2. AppSort(p)
    BY <1>1 DEF AppSort, AppRec
  <2>3. a \subseteq Topics
    BY <1>1, <1>2 DEF Topics
  <2> HIDE DEF p, a
  <2> QED
    BY <1>1, <2>1, <2>2, <2>3, TypeDone
<1>9. CASE ProfileSaved(c)
  <2> DEFINE p == AppRec(app.view, c.got.user, app.usage, app.token, app.ifpay, app.gallery)
             b == astray \ {"profile"}
             a == Partial(b, c, {"session", "profile"})
  <2>1. Done(c, p, ui, a)
    BY <1>1, <1>9, ProfileDoes
  <2>2. AppSort(p)
    BY <1>1 DEF AppSort, AppRec
  <2>3. b \in SUBSET Topics
    BY <1>1
  <2> HIDE DEF p, b
  <2>4. a \subseteq Topics
    BY <1>2, <2>3 DEF Topics
  <2> HIDE DEF a
  <2> QED
    BY <1>1, <2>1, <2>2, <2>4, TypeDone
<1> QED
  BY <1>3, <1>4, <1>5, <1>6, <1>7, <1>8, <1>9

\* The answers that change a list or the state of a view
LEMMA TypeList ==
  ASSUME TypeInv, PicInv', Flags(ui'), NEW c \in wire,
         \/ AuthAnswered(c) \/ ImagesAnswered(c) \/ DeleteAnswered(c) \/ ToggleAnswered(c)
         \/ OrdersAnswered(c) \/ KeysAnswered(c) \/ Imported(c) \/ Failed(c)
  PROVE  TypeInv'
<1>1. /\ CheckInv /\ UiShape(ui, Len(sessions)) /\ AppSort(app) /\ astray \in SUBSET Topics
  BY TypeFacts DEF BoundSort
<1>2. \A s \in SUBSET Topics : \A items : \A ts \in SUBSET Topics :
        /\ Checked(s, c, ts) \subseteq Topics /\ Partial(s, c, ts) \subseteq Topics
        /\ Full(s, c, ts) \subseteq Topics /\ Detached(s, items) \subseteq Topics
        /\ Orphaned(s, c) \subseteq Topics
  BY StrayTopics
<1>3. {"gallery"} \in SUBSET Topics /\ {"gallery", "detail"} \in SUBSET Topics /\ {"rows"} \in SUBSET Topics
  BY DEF Topics
<1>4. CASE ImagesAnswered(c) \/ DeleteAnswered(c) \/ ToggleAnswered(c)
  <2>1. PICK s, g, a :
          /\ Done(c, AppRec(app.view, app.user, app.usage, app.token, app.ifpay, s), g, a)
          /\ UiShape(g, Len(sessions)) /\ g.alias = ui.alias /\ a \subseteq Topics
    <3>1. CASE ImagesAnswered(c)
      <4>1. Full(astray, c, {"gallery"}) \in SUBSET Topics
        BY <1>1, <1>2, <1>3
      <4>2. Detached(Full(astray, c, {"gallery"}), c.got.items) \subseteq Topics
        BY <1>2, <4>1
      <4> QED
        BY <1>1, <3>1, <4>2, ImagesDoes
    <3>2. Orphaned(astray, c) \in SUBSET Topics
      BY <1>1, <1>2
    <3>3. /\ Partial(Orphaned(astray, c), c, {"gallery"}) \subseteq Topics
          /\ Partial(Orphaned(astray, c), c, {"gallery", "detail"}) \subseteq Topics
      BY <1>2, <1>3, <3>2
    <3>4. CASE DeleteAnswered(c)
      BY <1>1, <3>3, <3>4, DeleteDoes
    <3>5. CASE ToggleAnswered(c)
      <4> DEFINE a == Partial(Orphaned(astray, c), c, {"gallery", "detail"})
      <4>1. PICK g, s : /\ UiShape(g, Len(sessions)) /\ g.alias = ui.alias
                        /\ Done(c, AppRec(app.view, app.user, app.usage, app.token, app.ifpay, s), g, a)
        BY <1>1, <3>5, ToggledDoes
      <4>2. a \subseteq Topics
        BY <3>3
      <4> HIDE DEF a
      <4> QED
        BY <4>1, <4>2
    <3> QED
      BY <1>4, <3>1, <3>4, <3>5
  <2> DEFINE p == AppRec(app.view, app.user, app.usage, app.token, app.ifpay, s)
  <2>2. Done(c, p, g, a) /\ AppSort(p)
    BY <1>1, <2>1 DEF AppSort, AppRec
  <2> HIDE DEF p
  <2> QED
    BY <2>1, <2>2, TypeDone
<1>5. CASE AuthAnswered(c) \/ OrdersAnswered(c) \/ KeysAnswered(c) \/ Imported(c) \/ Failed(c)
  <2>1. \E g, a : /\ Done(c, app, g, a) /\ UiShape(g, Len(sessions)) /\ g.alias = ui.alias
                  /\ a \subseteq Topics
    <3>1. CASE OrdersAnswered(c)
      <4> DEFINE g == [ui EXCEPT !.rows = c.got.rows, !.loading = FALSE]
                 a == IF ~c.live THEN astray
                      ELSE IF c.at = "failed" THEN astray \cup {"rows"}
                      ELSE IF c.kind = "orders" THEN Checked(astray, c, {"rows"}) ELSE Full(astray, c, {"rows"})
      <4>1. Done(c, app, g, a)
        BY <3>1 DEF OrdersAnswered
      <4>2. UiShape(g, Len(sessions)) /\ g.alias = ui.alias
        BY <1>1, ListDoes
      <4>3. a \subseteq Topics
        BY <1>1, <1>2, <1>3
      <4> HIDE DEF g, a
      <4> QED
        BY <4>1, <4>2, <4>3
    <3>2. CASE KeysAnswered(c)
      <4> DEFINE h == [ui EXCEPT !.rows = c.got.rows]
                 g == IF c.at = "ok" THEN h ELSE ui
                 a == IF ~c.live THEN astray
                      ELSE IF c.at = "ok" THEN Full(astray, c, {"rows"})
                      ELSE astray \cup {"rows"}
      <4>1. Done(c, app, g, a)
        BY <3>2 DEF KeysAnswered
      <4>2. UiShape(h, Len(sessions)) /\ h.alias = ui.alias
        BY <1>1, RowsDoes
      <4>3. a \subseteq Topics
        BY <1>1, <1>2, <1>3
      <4> HIDE DEF h, a
      <4>4. UiShape(g, Len(sessions)) /\ g.alias = ui.alias
        BY <1>1, <4>2
      <4> HIDE DEF g
      <4> QED
        BY <4>1, <4>3, <4>4
    <3>3. CASE Imported(c)
      <4>1. astray \cup {"gallery"} \subseteq Topics
        BY <1>1, <1>3
      <4> QED
        BY <1>1, <3>3, <4>1 DEF Imported
    <3>4. CASE Failed(c)
      BY <1>1, <3>4, FailedDoes DEF Alike
    <3>5. CASE AuthAnswered(c)
      BY <1>1, <3>5, AuthDoes
    <3> QED
      BY <1>5, <3>1, <3>2, <3>3, <3>4, <3>5
  <2> QED
    BY <1>1, <2>1, TypeDone
<1> QED
  BY <1>4, <1>5

\* The answers that make another call, or read the orders again
LEMMA TypeCalls ==
  ASSUME TypeInv, PicInv', Flags(ui'), NEW c \in wire,
         OAuthStarted(c) \/ UploadAnswered(c) \/ UploadShown(c) \/ CheckedOut(c) \/ KeyWritten(c)
  PROVE  TypeInv'
<1>1. /\ CheckInv /\ UiShape(ui, Len(sessions)) /\ AppSort(app) /\ astray \in SUBSET Topics
      /\ CallSort(c) /\ CallShape(c, Len(sessions))
  BY TypeFacts, GotSort DEF BoundSort, Calls
<1>2. ASSUME NEW d, CallShape(d, Len(sessions)), CallTrue(d), CallSort(d),
             d.at # "sent" \/ d.kind \notin {"login", "register", "callback"},
             NEW a, a \subseteq Topics, Render(app, ui, (wire \ {c}) \cup {d}, a, FALSE), ByClient
      PROVE  TypeInv'
  <2>1. Local(c, ui) = ui
    BY DEF Local
  <2>2. IsFiniteSet({d}) /\ Calls({d}, Len(sessions))
    BY <1>2, FS_Singleton DEF Calls
  <2> QED
    BY <1>1, <1>2, <2>1, <2>2, TypeStep
<1>3. CASE OAuthStarted(c)
  <2> DEFINE d == Ask("callback", 0, Nobody)
  <2>1. Reopen("landing", {d}) /\ SignInsLeft
    BY <1>3 DEF OAuthStarted
  <2>2. /\ d.kind = "callback" /\ d.want = FALSE /\ d.live = TRUE /\ d.stale = FALSE /\ d.at = "sent"
        /\ d.got = NoAnswer
    BY DEF Ask
  <2> HIDE DEF d
  <2>3. NoAnswer.user \in Users
    BY DEF NoAnswer, Users
  <2>4. CallSort(d)
    BY <2>2, <2>3 DEF CallSort, Kinds, Unauthorized
  <2>5. IsFiniteSet({d}) /\ Cardinality({d}) = 1 /\ Opening({d}) = {d}
    BY <2>2, FS_Singleton DEF Opening
  <2>6. Len(sessions) + Cardinality(Opening({d})) <= journey.sessions
    <3> DEFINE all == {e \in wire : e.at = "sent" /\ e.kind \in SignIns}
    <3>1. Len(sessions) + Cardinality(all) < journey.sessions
      BY <2>1 DEF SignInsLeft
    <3>2. all \in SUBSET wire /\ IsFiniteSet(wire)
      BY TypeFacts DEF WireSort
    <3> HIDE DEF all
    <3>3. Cardinality(all) \in Nat
      BY <3>2, FS_Subset, FS_CardinalityType
    <3>4. Cardinality(Opening({d})) = 1
      BY <2>5
    <3> QED
      BY <3>1, <3>3, <3>4, TypeFacts
  <2> QED
    BY <2>1, <2>4, <2>5, <2>6, TypeReopen
<1>4. CASE UploadAnswered(c)
  <2>1. PICK d : /\ Render(app, ui, (wire \ {c}) \cup {d}, astray, FALSE)
                 /\ CallShape(d, Len(sessions)) /\ CallTrue(d)
                 /\ d.kind = c.kind /\ d.tok = c.tok /\ d.arg = c.arg /\ d.want = c.want
                 /\ d.live = c.live /\ d.stale = c.stale /\ d.at = "timer" /\ d.got = c.got
    BY <1>1, <1>4, UploadDoes
  <2>2. CallSort(d) /\ d.at # "sent"
    BY <1>1, <2>1 DEF CallSort
  <2>3. ByClient
    BY <1>4 DEF UploadAnswered
  <2> QED
    BY <1>1, <1>2, <2>1, <2>2, <2>3
<1>5. CASE KeyWritten(c)
  <2>1. PICK d : /\ Render(app, ui, (wire \ {c}) \cup {d},
                           IF c.live THEN astray ELSE astray \cup {"rows"}, FALSE)
                 /\ CallShape(d, Len(sessions)) /\ CallTrue(d)
                 /\ d.kind = "keys" /\ d.tok = c.tok /\ d.arg = Nobody /\ d.want = FALSE
                 /\ d.live = c.live /\ d.stale = FALSE /\ d.at = "sent" /\ d.got = NoAnswer
    BY <1>1, <1>5, KeyDoes
  <2>2. NoAnswer.user \in Users
    BY DEF NoAnswer, Users
  <2>3. CallSort(d) /\ d.kind \notin {"login", "register", "callback"}
    BY <1>1, <2>1, <2>2 DEF CallSort, Kinds, Reads
  <2>4. ByClient
    BY <1>5 DEF KeyWritten
  <2> DEFINE a == IF c.live THEN astray ELSE astray \cup {"rows"}
  <2>5. a \subseteq Topics /\ Render(app, ui, (wire \ {c}) \cup {d}, a, FALSE)
    BY <1>1, <2>1 DEF Topics
  <2> HIDE DEF a
  <2> QED
    BY <1>2, <2>1, <2>3, <2>4, <2>5
<1>6. CASE UploadShown(c)
  <2> DEFINE p == AppRec("gallery", app.user, app.usage, app.token, app.ifpay, app.gallery \cup c.got.items)
             new == {Ask("images", c.tok, Nobody), Ask("me", c.tok, Nobody)}
             a == Partial(astray, c, {"gallery"})
  <2>1. PICK g : UiShape(g, Len(sessions)) /\ Alike(g, ui) /\ Render(p, Local(c, g), (wire \ {c}) \cup new, a, FALSE)
    BY <1>1, <1>6, ShownDoes
  <2>2. ByClient
    BY <1>6 DEF UploadShown
  <2>3. Calls((wire \ {c}) \cup new, Len(sessions))
    BY <1>1, <1>6, RefreshCalls
  <2>4. AppSort(p)
    BY <1>1 DEF AppSort, AppRec, Views, AppViews
  <2>5. a \subseteq Topics
    <3>1. {"gallery"} \in SUBSET Topics
      BY DEF Topics
    <3> QED
      BY <1>1, <3>1, StrayTopics
  <2>6. IsFiniteSet(new)
    <3> DEFINE x == Ask("images", c.tok, Nobody)
               y == Ask("me", c.tok, Nobody)
    <3>1. new = {x} \cup {y}
      OBVIOUS
    <3> HIDE DEF x, y, new
    <3>2. IsFiniteSet({x}) /\ IsFiniteSet({y})
      BY FS_Singleton
    <3> QED
      BY <3>1, <3>2, FS_Union
  <2>7. \A d \in new : CallSort(d) /\ d.kind \notin {"login", "register", "callback"}
    BY AskSort DEF Reads
  <2> HIDE DEF p, new, a
  <2>8. Calls(new, Len(sessions))
    BY <2>3 DEF Calls
  <2> QED
    BY <2>1, <2>2, <2>4, <2>5, <2>6, <2>7, <2>8, TypeStep DEF Alike
<1>7. CASE CheckedOut(c)
  <2>1. PICK g : UiShape(g, Len(sessions)) /\ Alike(g, ui) /\ Render(app, Local(c, g), wire \ {c}, astray, TRUE)
    BY <1>1, <1>7, CheckedOutDoes
  <2>2. ByClient
    BY <1>7 DEF CheckedOut
  <2>3. (wire \ {c}) \cup {} = wire \ {c}
    OBVIOUS
  <2>4. Render(app, Local(c, g), (wire \ {c}) \cup {}, astray, TRUE)
    BY <2>1, <2>3
  <2>5. IsFiniteSet({}) /\ Calls({}, Len(sessions))
    BY FS_EmptySet DEF Calls
  <2> QED
    BY <1>1, <2>1, <2>2, <2>4, <2>5, TypeStep DEF Alike
<1> QED
  BY <1>3, <1>4, <1>5, <1>6, <1>7

LEMMA TypeAnswered ==
  ASSUME TypeInv, PicInv', NEW c \in wire, Answer(c)
  PROVE  TypeInv'
<1>1. Flags(ui')
  BY TypeFacts, FlagsAnswered
<1> QED
  BY <1>1, TypeUser, TypeList, TypeCalls DEF Answer

-----------------------------------------------------------------------------
(* What the server leaves in flight.                                       *)

\* The calls of w, or what a write makes of them
Aging(rest, w) ==
  /\ IsFiniteSet(rest) /\ Cardinality(rest) <= Cardinality(w)
  /\ Cardinality(Opening(rest)) <= Cardinality(Opening(w))
  /\ \A e \in rest : CallSort(e)

LEMMA OthersAge ==
  ASSUME TypeInv, NEW c \in wire, NEW x, NEW a, NEW arg
  PROVE  Aging(wire \ {c}, wire \ {c}) /\ Aging(Outdated(wire \ {c}, x, a, arg), wire \ {c})
<1> DEFINE w == wire \ {c}
           new(e) == IF Outdates(e, x, a, arg) THEN [e EXCEPT !.stale = TRUE] ELSE e
           F == [e \in w |-> new(e)]
<1>1. IsFiniteSet(wire) /\ w \in SUBSET wire /\ \A e \in wire : CallShape(e, Len(sessions)) /\ CallSort(e)
  BY TypeFacts DEF WireSort, Calls
<1>2. Outdated(w, x, a, arg) = Replaced(F, w)
  <2>1. Outdated(w, x, a, arg) = {new(e) : e \in w}
    BY DEF Outdated, Outdates
  <2>2. Replaced(F, w) = {new(e) : e \in w}
    <3> HIDE DEF new
    <3> QED
      BY DEF Replaced
  <2> QED
    BY <2>1, <2>2
<1>3. \A e \in w : CallSort(new(e)) /\ new(e).kind = e.kind /\ new(e).at = e.at
  <2>1. ASSUME NEW e \in w
        PROVE  CallSort(new(e)) /\ new(e).kind = e.kind /\ new(e).at = e.at
    <3>1. CallShape(e, Len(sessions)) /\ CallSort(e)
      BY <1>1
    <3>2. CASE Outdates(e, x, a, arg)
      <4> DEFINE yes == TRUE
                 d == [e EXCEPT !.stale = yes]
      <4>1. yes \in BOOLEAN /\ new(e) = d
        BY <3>2
      <4> HIDE DEF yes, new
      <4>2. Kin(e, d) /\ d.live = e.live /\ d.stale = yes
        BY <3>1, SetStaleKin
      <4> HIDE DEF d
      <4>3. CallSort(d) /\ d.kind = e.kind /\ d.at = e.at
        BY <3>1, <4>1, <4>2 DEF CallSort, Kin
      <4> QED
        BY <4>1, <4>3
    <3>3. CASE ~Outdates(e, x, a, arg)
      BY <3>1, <3>3
    <3> QED
      BY <3>2, <3>3
  <2> QED
    BY <2>1
<1> HIDE DEF new
<1>4. \A e \in w : CallSort(F[e]) /\ F[e].kind = e.kind /\ F[e].at = e.at
  BY <1>3
<1> HIDE DEF F
<1>5. Opening(w) \in SUBSET w
  BY DEF Opening
<1> HIDE DEF w
<1>6. IsFiniteSet(w) /\ Cardinality(w) \in Nat
  BY <1>1, FS_Subset, FS_CardinalityType
<1>7. IsFiniteSet(Opening(w)) /\ Cardinality(Opening(w)) \in Nat
  BY <1>5, <1>6, FS_Subset, FS_CardinalityType
<1>8. IsFiniteSet(Replaced(F, w)) /\ Cardinality(Replaced(F, w)) <= Cardinality(w)
  BY <1>6, ReplacedFinite
<1>9. Opening(Replaced(F, w)) \in SUBSET Replaced(F, Opening(w))
  BY <1>4 DEF Opening, Replaced
<1>10. IsFiniteSet(Replaced(F, Opening(w))) /\ Cardinality(Replaced(F, Opening(w))) <= Cardinality(Opening(w))
       /\ Cardinality(Replaced(F, Opening(w))) \in Nat
  BY <1>7, ReplacedFinite, FS_CardinalityType
<1>11. Cardinality(Opening(Replaced(F, w))) <= Cardinality(Replaced(F, Opening(w)))
       /\ Cardinality(Opening(Replaced(F, w))) \in Nat
  BY <1>9, <1>10, FS_Subset, FS_CardinalityType
<1>12. Cardinality(Opening(Replaced(F, w))) <= Cardinality(Opening(w))
  BY <1>7, <1>10, <1>11
<1>13. \A e \in Replaced(F, w) : CallSort(e)
  BY <1>4 DEF Replaced
<1>14. Aging(Replaced(F, w), w)
  BY <1>8, <1>12, <1>13 DEF Aging
<1>15. Aging(w, w)
  BY <1>1, <1>6, <1>7 DEF Aging
<1> QED
  BY <1>2, <1>14, <1>15 DEF w

\* A call that is answered makes room for its answer.
LEMMA Answering ==
  ASSUME NEW w, IsFiniteSet(w), NEW c \in w, NEW rest, NEW d, Aging(rest, w \ {c}), CallSort(d), d.at # "sent",
         NEW n \in Nat, NEW m \in Nat, n + Cardinality(Opening(w \ {c})) <= m
  PROVE  WireSort(rest \cup {d}, n, m) /\ Cardinality(rest \cup {d}) <= Cardinality(w)
<1>1. IsFiniteSet(w \ {c}) /\ Cardinality(w \ {c}) = Cardinality(w) - 1 /\ Cardinality(w) \in Nat
  BY FS_RemoveElement, FS_CardinalityType
<1>2. IsFiniteSet(rest) /\ Cardinality(rest) \in Nat /\ Cardinality(rest) <= Cardinality(w \ {c})
  BY FS_CardinalityType DEF Aging
<1>3. IsFiniteSet(rest \cup {d})
      /\ Cardinality(rest \cup {d}) = IF d \in rest THEN Cardinality(rest) ELSE Cardinality(rest) + 1
  BY <1>2, FS_AddElement
<1>4. Cardinality(rest \cup {d}) <= Cardinality(w)
  BY <1>1, <1>2, <1>3
<1>5. Opening(rest \cup {d}) = Opening(rest) /\ Opening(rest) \in SUBSET rest
      /\ Opening(w \ {c}) \in SUBSET (w \ {c})
  BY DEF Opening
<1>6. Cardinality(Opening(rest)) \in Nat /\ Cardinality(Opening(w \ {c})) \in Nat
  BY <1>1, <1>2, <1>5, FS_Subset, FS_CardinalityType
<1>7. n + Cardinality(Opening(rest \cup {d})) <= m
  <2>1. Cardinality(Opening(rest)) <= Cardinality(Opening(w \ {c}))
    BY DEF Aging
  <2>2. Cardinality(Opening(rest \cup {d})) = Cardinality(Opening(rest))
    BY <1>5
  <2> QED
    BY <1>6, <2>1, <2>2
<1>8. \A e \in rest \cup {d} : CallSort(e)
  BY DEF Aging
<1> QED
  BY <1>3, <1>4, <1>7, <1>8 DEF WireSort

\* A step of the server
LEMMA TypeServed ==
  ASSUME TypeInv, PicInv', ServerSort', ByServer, NEW c \in wire, NEW rest, NEW d, Aging(rest, wire \ {c}),
         CallSort(d), d.at # "sent", wire' = rest \cup {d}, Len(sessions') \in Nat,
         Len(sessions') + Cardinality(Opening(wire \ {c})) <= journey.sessions,
         faults' \in 0..journey.faults, astray' \subseteq Topics
  PROVE  TypeInv'
<1>1. app' = app /\ ui' = ui /\ reloads' = reloads /\ journey' = journey
  BY DEF ByServer
<1>2. IsFiniteSet(wire) /\ Cardinality(wire) <= journey.wire /\ reloads \in 0..journey.reloads
  BY TypeFacts DEF WireSort, BoundSort
<1>3. WireSort(wire', Len(sessions'), journey.sessions) /\ Cardinality(wire') <= Cardinality(wire)
  BY <1>2, TypeFacts, Answering
<1>4. Cardinality(wire') <= journey.wire
  <2>1. Cardinality(wire') \in Nat /\ Cardinality(wire) \in Nat
    BY <1>2, <1>3, FS_CardinalityType DEF WireSort
  <2> QED
    BY <1>2, <1>3, <2>1, TypeFacts
<1>5. BoundSort'
  BY <1>1, <1>2, <1>4 DEF BoundSort
<1>6. WireSort(wire, Len(sessions), journey.sessions)'
  BY <1>1, <1>3
<1>7. AppSort(app)' /\ Flags(ui)' /\ AliasSort(ui.alias, Screen(app))'
  <2>1. AppSort(app) /\ Flags(ui) /\ AliasSort(ui.alias, Screen(app))
    BY TypeFacts
  <2>2. Screen(app') = Screen(app)
    BY <1>1
  <2> QED
    BY <1>1, <2>1, <2>2 DEF AppSort, Flags, AliasSort, Screen
<1> QED
  BY <1>5, <1>6, <1>7 DEF TypeInv

\* How many sessions there may be once call c is served
LEMMA Room ==
  ASSUME TypeInv, NEW c \in wire
  PROVE  /\ Len(sessions) + Cardinality(Opening(wire \ {c})) <= journey.sessions
         /\ c \in Opening(wire) => Len(sessions) + 1 + Cardinality(Opening(wire \ {c})) <= journey.sessions
<1>1. IsFiniteSet(wire) /\ Len(sessions) + Cardinality(Opening(wire)) <= journey.sessions
  BY TypeFacts DEF WireSort
<1>2. Opening(wire) \in SUBSET wire /\ Opening(wire \ {c}) = Opening(wire) \ {c}
  BY DEF Opening
<1> DEFINE o == Opening(wire)
<1>3. IsFiniteSet(o) /\ Cardinality(o) \in Nat
  BY <1>1, <1>2, FS_Subset, FS_CardinalityType
<1> HIDE DEF o
<1>4. IsFiniteSet(o \ {c}) /\ Cardinality(o \ {c}) = IF c \in o THEN Cardinality(o) - 1 ELSE Cardinality(o)
  BY <1>3, FS_RemoveElement
<1>5. Len(sessions) + Cardinality(o) <= journey.sessions /\ Cardinality(Opening(wire \ {c})) = Cardinality(o \ {c})
  BY <1>1, <1>2 DEF o
<1>6. /\ Len(sessions) + Cardinality(o \ {c}) <= journey.sessions
      /\ c \in o => Len(sessions) + 1 + Cardinality(o \ {c}) <= journey.sessions
  BY <1>3, <1>4, <1>5, TypeFacts
<1> QED
  BY <1>5, <1>6 DEF o

\* What the server knows of an account is a user of the page.
LEMMA MeSort ==
  ASSUME TypeInv, NEW a \in Accounts
  PROVE  /\ Me(a) \in Users
         /\ [Me(a) EXCEPT !.verified = TRUE] \in Users
         /\ \A x \in Names : [Me(a) EXCEPT !.name = x] \in Users
<1>1. names[a] \in Names
  BY TypeFacts DEF ServerSort
<1> DEFINE b == a \in verified
<1>2. b \in BOOLEAN
  OBVIOUS
<1>3. Me(a) = [of |-> a, name |-> names[a], verified |-> b]
  BY DEF Me
<1> HIDE DEF b
<1>4. \A x \in Names : \A y \in BOOLEAN : [of |-> a, name |-> x, verified |-> y] \in Users
  BY DEF Users
<1>5. [Me(a) EXCEPT !.verified = TRUE] = [of |-> a, name |-> names[a], verified |-> TRUE]
  BY <1>3, MadeVerified
<1>6. \A x \in Names : [Me(a) EXCEPT !.name = x] = [of |-> a, name |-> x, verified |-> b]
  BY <1>3
<1>7. TRUE \in BOOLEAN
  OBVIOUS
<1>8. [Me(a) EXCEPT !.verified = TRUE] \in Users
  BY <1>1, <1>4, <1>5, <1>7
<1>9. Me(a) \in Users
  BY <1>1, <1>2, <1>3, <1>4
<1>10. \A x \in Names : [Me(a) EXCEPT !.name = x] \in Users
  BY <1>2, <1>4, <1>6
<1> QED
  BY <1>8, <1>9, <1>10

LEMMA TypeReply ==
  ASSUME TypeInv, PicInv', ServerSort', ByServer, NEW c \in wire, NEW got, NEW x, NEW a, Reply(c, got, x, a),
         got.user \in Users, Len(sessions') \in Nat,
         Len(sessions') + Cardinality(Opening(wire \ {c})) <= journey.sessions
  PROVE  TypeInv'
<1> DEFINE rest == Outdated(wire \ {c}, x, a, c.arg)
<1>1. Aging(rest, wire \ {c})
  BY OthersAge
<1>2. CallSort(c) /\ CallShape(c, Len(sessions))
  BY TypeFacts, GotSort DEF Calls
<1>3. \/ wire' = rest \cup {Ok(c, got)} /\ faults' = faults /\ astray' = astray
      \/ /\ wire' = rest \cup {Lost(c)} /\ faults < journey.faults /\ faults' = faults + 1
         /\ astray' = astray \cup ({x} \cap Topics)
  BY DEF Reply, Fault, Ok, Lost
<1>4. faults' \in 0..journey.faults /\ astray' \subseteq Topics
  BY <1>3, TypeFacts DEF BoundSort
<1>5. CallSort(Ok(c, got)) /\ Ok(c, got).at # "sent"
  <2> DEFINE d == Ok(c, got)
  <2>1. /\ d.kind = c.kind /\ d.arg = c.arg /\ d.want = c.want /\ d.live = c.live /\ d.stale = c.stale
        /\ d.at = "ok" /\ d.got = got
    BY <1>2, OkFields
  <2> HIDE DEF d
  <2>2. CallSort(d) /\ d.at # "sent"
    BY <1>2, <2>1 DEF CallSort
  <2> QED
    BY <2>2 DEF d
<1>6. CallSort(Lost(c)) /\ Lost(c).at # "sent"
  <2> DEFINE d == Lost(c)
  <2>1. /\ d.kind = c.kind /\ d.arg = c.arg /\ d.want = c.want /\ d.live = c.live /\ d.stale = c.stale
        /\ d.at = "failed" /\ d.got = c.got
    BY <1>2, LostFields
  <2> HIDE DEF d
  <2>2. CallSort(d) /\ d.at # "sent"
    BY <1>2, <2>1 DEF CallSort
  <2> QED
    BY <2>2 DEF d
<1> HIDE DEF rest
<1> QED
  BY <1>1, <1>3, <1>4, <1>5, <1>6, TypeServed

\* A reply that makes no session
LEMMA TypeQuiet ==
  ASSUME TypeInv, PicInv', ServerSort', ByServer, NEW c \in wire, NEW got, NEW x, NEW a, Reply(c, got, x, a),
         got.user \in Users, sessions' = sessions
  PROVE  TypeInv'
<1>1. Len(sessions') = Len(sessions) /\ Len(sessions) \in Nat
  BY TypeFacts
<1>2. Len(sessions') + Cardinality(Opening(wire \ {c})) <= journey.sessions
  BY <1>1, Room
<1> QED
  BY <1>1, <1>2, TypeReply

LEMMA TypeSignIn ==
  ASSUME TypeInv, PicInv', NEW c \in wire, NEW a \in journey.who, ServeSignIn(c, a)
  PROVE  TypeInv'
<1> DEFINE got == SessionGot(Me(a), Len(sessions'))
<1>1. /\ ByServer /\ sessions' = Append(sessions, a) /\ Reply(c, got, "none", a) /\ members' = members \cup {a}
      /\ verified' = verified /\ names' = names /\ written' = written
      /\ c.kind \in {"login", "register", "callback"} /\ c.at = "sent"
  BY DEF ServeSignIn, Served, SessionGot
<1>2. a \in Accounts /\ sessions \in Seq(Accounts)
  BY TypeFacts, JourneyFacts, OwnCall
<1>3. /\ Len(sessions') = Len(sessions) + 1 /\ Len(sessions) \in Nat
      /\ \A t \in 1..Len(sessions') : sessions'[t] = IF t = Len(sessions) + 1 THEN a ELSE sessions[t]
  BY <1>1, <1>2
<1>4. ServerSort'
  BY <1>1, <1>2, <1>3, TypeFacts DEF ServerSort
<1>5. got.user = Me(a) /\ Me(a) \in Users
  BY <1>2, GotSession, MeSort
<1>6. c \in Opening(wire)
  BY <1>1 DEF Opening
<1>7. Len(sessions') + Cardinality(Opening(wire \ {c})) <= journey.sessions
  BY <1>3, <1>6, Room
<1> HIDE DEF got
<1> QED
  BY <1>1, <1>3, <1>4, <1>5, <1>7, TypeReply

LEMMA TypeVerify ==
  ASSUME TypeInv, PicInv', NEW c \in wire, ServeVerify(c)
  PROVE  TypeInv'
<1> DEFINE u == [Me(c.arg) EXCEPT !.verified = TRUE]
           got == SessionGot(u, c.tok)
<1>1. /\ ByServer /\ sessions' = sessions /\ Reply(c, got, "profile", c.arg) /\ c.kind = "verify"
      /\ verified' = verified \cup {c.arg} /\ members' = members /\ names' = names /\ written' = written
  BY DEF ServeVerify, Served, SessionGot
<1>2. /\ c.tok # 0 /\ AcctOf(sessions, c.tok) = c.arg /\ c.arg \in Accounts
      /\ c.tok \in 0..Len(sessions) /\ Len(sessions) \in Nat
  BY <1>1, TypeFacts, OwnCall DEF CallOwns
<1>3. c.arg \in members
  BY <1>2, TypeFacts DEF ServerSort, AcctOf
<1>4. ServerSort'
  BY <1>1, <1>3, TypeFacts DEF ServerSort
<1>5. u \in Users
  BY <1>2, MeSort
<1> HIDE DEF u
<1>6. got.user \in Users
  BY <1>5, GotSession
<1> HIDE DEF got
<1> QED
  BY <1>1, <1>4, <1>6, TypeQuiet

LEMMA TypeProfile ==
  ASSUME TypeInv, PicInv', NEW c \in wire, ServeProfile(c)
  PROVE  TypeInv'
<1> DEFINE a == AcctOf(sessions, c.tok)
           u == [Me(a) EXCEPT !.name = c.arg]
           got == [NoAnswer EXCEPT !.user = u]
<1>1. /\ ByServer /\ sessions' = sessions /\ Reply(c, got, "profile", a) /\ c.tok # 0 /\ c.kind = "profile"
      /\ verified' = verified /\ members' = members /\ written' = written
      /\ names' = [names EXCEPT ![a] = c.arg]
  BY AcctIs DEF ServeProfile, Served
<1>2. a \in Accounts
  BY <1>1, TypeFacts, OwnCall
<1>3. c.arg \in Names
  BY <1>1, GotSort DEF CallSort
<1>4. u \in Users
  BY <1>2, <1>3, MeSort
<1> HIDE DEF a, u
<1>5. names' \in [Accounts -> Names]
  BY <1>1, <1>2, <1>3, TypeFacts DEF ServerSort
<1>6. ServerSort'
  BY <1>1, <1>5, TypeFacts DEF ServerSort
<1>7. got.user \in Users
  BY <1>4, GotUser
<1> HIDE DEF got
<1> QED
  BY <1>1, <1>6, <1>7, TypeQuiet

LEMMA TypeWrite ==
  ASSUME TypeInv, PicInv', NEW c \in wire, ServeWrite(c)
  PROVE  TypeInv'
<1> DEFINE a == AcctOf(sessions, c.tok)
           l == IF c.kind = "checkout" THEN "orders" ELSE "keys"
<1>1. /\ ByServer /\ sessions' = sessions /\ Reply(c, NoAnswer, "rows", a) /\ c.tok # 0
      /\ verified' = verified /\ members' = members /\ names' = names
      /\ written[a][l] < MaxWrites /\ written' = [written EXCEPT ![a][l] = @ + 1]
  BY AcctIs DEF ServeWrite
<1>2. a \in Accounts /\ l \in Lists
  BY <1>1, TypeFacts, OwnCall DEF Lists
<1> HIDE DEF a, l
<1>3. written \in [Accounts -> [Lists -> 0..MaxWrites]] /\ MaxWrites \in Nat
  BY TypeFacts, BoundAssumption DEF ServerSort
<1>4. written' \in [Accounts -> [Lists -> 0..MaxWrites]]
  <2> DEFINE f == [written[a] EXCEPT ![l] = written[a][l] + 1]
  <2>1. written[a] \in [Lists -> 0..MaxWrites]
    BY <1>2, <1>3
  <2>2. written[a][l] \in 0..MaxWrites
    BY <1>2, <2>1
  <2>3. written[a][l] + 1 \in 0..MaxWrites
    BY <1>1, <1>3, <2>2
  <2>4. f \in [Lists -> 0..MaxWrites]
    BY <2>1, <2>3
  <2>5. written' = [written EXCEPT ![a] = f]
    BY <1>1
  <2> HIDE DEF f
  <2> QED
    BY <1>3, <2>4, <2>5
<1>5. ServerSort'
  BY <1>1, <1>4, TypeFacts DEF ServerSort
<1>6. NoAnswer.user \in Users
  BY DEF NoAnswer, Users
<1> QED
  BY <1>1, <1>5, <1>6, TypeQuiet

LEMMA TypeOther ==
  ASSUME TypeInv, PicInv', NEW c \in wire, ServeMail(c) \/ ServeImage(c)
  PROVE  TypeInv'
<1>1. ByServer /\ sessions' = sessions /\ members' = members /\ verified' = verified /\ names' = names /\ written' = written
  BY DEF ServeMail, ServeImage, server
<1>2. ServerSort'
  BY <1>1, TypeFacts DEF ServerSort
<1>3. NoAnswer.user \in Users
  BY DEF NoAnswer, Users
<1>4. \A s : [NoAnswer EXCEPT !.items = s].user \in Users
  BY GotItems DEF Users
<1>5. PICK got, x, a : Reply(c, got, x, a) /\ got.user \in Users
  <2>1. CASE ServeMail(c)
    BY <1>3, <2>1 DEF ServeMail
  <2>2. CASE ServeImage(c)
    <3>1. c.kind \in {"upload", "import", "delete", "toggle"}
      BY <2>2 DEF ServeImage, Served
    <3>2. CASE c.kind \in {"upload", "import"}
      <4>1. Reply(c, [NoAnswer EXCEPT !.items = Shown(c.arg, FALSE)], "gallery", Acct(c.tok))
        BY <2>2, <3>2 DEF ServeImage
      <4> QED
        BY <1>4, <4>1
    <3>3. CASE c.kind = "delete"
      <4>1. Reply(c, NoAnswer, "gallery", Acct(c.tok))
        BY <2>2, <3>3 DEF ServeImage
      <4> QED
        BY <1>3, <4>1
    <3>4. CASE c.kind = "toggle"
      <4>1. Reply(c, [NoAnswer EXCEPT !.items = Shown(c.arg, c.want)], "gallery", Acct(c.tok))
        BY <2>2, <3>4 DEF ServeImage
      <4> QED
        BY <1>4, <4>1
    <3> QED
      BY <3>1, <3>2, <3>3, <3>4
  <2> QED
    BY <2>1, <2>2
<1> QED
  BY <1>1, <1>2, <1>5, TypeQuiet

\* An answer that no write comes with
LEMMA TypePlain ==
  ASSUME TypeInv, PicInv', NEW c \in wire, NEW d, ByServer, UNCHANGED server, astray' = astray,
         faults' \in 0..journey.faults, wire' = (wire \ {c}) \cup {d}, CallSort(d), d.at # "sent"
  PROVE  TypeInv'
<1>1. /\ sessions' = sessions /\ members' = members /\ verified' = verified /\ names' = names /\ written' = written
  BY DEF server
<1>2. ServerSort'
  BY <1>1, TypeFacts DEF ServerSort
<1>3. Aging(wire \ {c}, wire \ {c})
  BY OthersAge
<1>4. Len(sessions') \in Nat /\ Len(sessions') + Cardinality(Opening(wire \ {c})) <= journey.sessions
  BY <1>1, Room, TypeFacts
<1>5. astray' \subseteq Topics
  BY TypeFacts DEF BoundSort
<1> DEFINE rest == wire \ {c}
<1>6. wire' = rest \cup {d} /\ Aging(rest, wire \ {c})
  BY <1>3
<1> HIDE DEF rest
<1> QED
  BY <1>2, <1>4, <1>5, <1>6, TypeServed

LEMMA TypeRead ==
  ASSUME TypeInv, PicInv', NEW c \in wire, ServeRead(c)
  PROVE  TypeInv'
<1> DEFINE a == Acct(c.tok)
           full == [user |-> IF c.kind \in {"load", "me"} THEN Me(a) ELSE NoUser,
                    items |-> IF c.kind \in {"load", "images"} THEN List(a) ELSE {},
                    rows |-> CASE c.kind = "keys" -> Rows(a, "keys")
                               [] c.kind \in {"orders", "reorders"} -> Rows(a, "orders")
                               [] OTHER -> NoRows,
                    tok |-> 0]
           d == Ok(c, full)
<1>1. /\ ByServer /\ UNCHANGED server /\ astray' = astray /\ faults' = faults
      /\ wire' = (wire \ {c}) \cup {d}
  BY DEF ServeRead, Ok
<1>2. full.user = IF c.kind \in {"load", "me"} THEN Me(a) ELSE NoUser
  OBVIOUS
<1> HIDE DEF full
<1>3. CallSort(c) /\ CallShape(c, Len(sessions))
  BY TypeFacts, GotSort DEF Calls
<1>4. full.user \in Users
  <2>1. c.kind \in {"load", "me"} => a \in Accounts
    BY TypeFacts, OwnCall DEF CallTrue, Signing
  <2>2. NoUser \in Users
    BY DEF Users
  <2> HIDE DEF a
  <2> QED
    BY <1>2, <2>1, <2>2, MeSort
<1>5. /\ d.kind = c.kind /\ d.arg = c.arg /\ d.want = c.want /\ d.live = c.live /\ d.stale = c.stale
      /\ d.at = "ok" /\ d.got = full
  BY <1>3, OkFields
<1> HIDE DEF d, a
<1>6. CallSort(d) /\ d.at # "sent"
  BY <1>3, <1>4, <1>5 DEF CallSort
<1>7. faults' \in 0..journey.faults
  BY <1>1, TypeFacts DEF BoundSort
<1> QED
  BY <1>1, <1>6, <1>7, TypePlain

LEMMA TypeRefuse ==
  ASSUME TypeInv, PicInv', NEW c \in wire, Refuse(c)
  PROVE  TypeInv'
<1> DEFINE d == Lost(c)
<1>1. /\ ByServer /\ UNCHANGED server /\ astray' = astray /\ wire' = (wire \ {c}) \cup {d}
      /\ faults' = faults \/ (faults < journey.faults /\ faults' = faults + 1)
  BY DEF Refuse, Fault, Lost
<1>2. CallSort(c) /\ CallShape(c, Len(sessions))
  BY TypeFacts, GotSort DEF Calls
<1>3. /\ d.kind = c.kind /\ d.arg = c.arg /\ d.want = c.want /\ d.live = c.live /\ d.stale = c.stale
      /\ d.at = "failed" /\ d.got = c.got
  BY <1>2, LostFields
<1> HIDE DEF d
<1>4. CallSort(d) /\ d.at # "sent"
  BY <1>2, <1>3 DEF CallSort
<1>5. faults' \in 0..journey.faults
  BY <1>1, TypeFacts DEF BoundSort
<1> QED
  BY <1>1, <1>4, <1>5, TypePlain

LEMMA InitType ==
  ASSUME Init
  PROVE  TypeInv
<1>1. PicInv
  BY InitPic
<1>2. /\ sessions = <<>> /\ members = Members /\ verified = Members /\ names = [a \in Accounts |-> "first"]
      /\ written = [a \in Accounts |-> [l \in Lists |-> 0]] /\ wire = {} /\ ui = Mounted(app)
      /\ reloads = 0 /\ faults = 0 /\ astray = {}
      /\ app.view = "landing" /\ app.user = NoUser /\ app.usage = Nobody /\ app.ifpay = FALSE
  BY DEF Init
<1>3. journey.wire \in Nat /\ journey.sessions \in Nat /\ journey.reloads \in Nat /\ journey.faults \in Nat
  BY <1>1, PicFacts, JourneyFacts
<1>4. IsFiniteSet(wire) /\ Cardinality(wire) = 0 /\ Opening(wire) = {} /\ Cardinality(Opening(wire)) = 0
  BY <1>2, FS_EmptySet DEF Opening
<1>5. MaxWrites \in Nat /\ "first" \in Names /\ Members \subseteq Accounts
  BY BoundAssumption, AccountAssumption DEF Names
<1>6. Len(sessions) = 0
  BY <1>2
<1>7. ServerSort
  <2>1. names \in [Accounts -> Names]
    BY <1>2, <1>5
  <2>2. written \in [Accounts -> [Lists -> 0..MaxWrites]]
    BY <1>2, <1>5
  <2> QED
    BY <1>2, <1>5, <1>6, <2>1, <2>2 DEF ServerSort
<1>8. BoundSort
  BY <1>2, <1>3, <1>4 DEF BoundSort
<1>9. WireSort(wire, Len(sessions), journey.sessions)
  BY <1>2, <1>3, <1>4, <1>6 DEF WireSort
<1>10. AppSort(app)
  BY <1>2 DEF AppSort, Views, Users
<1>11. Flags(ui)
  BY <1>2, FlagsMounted
<1>12. AliasSort(ui.alias, Screen(app))
  <2>1. Mounted(app).alias = (IF Screen(app) = "settings" THEN app.user.name ELSE "")
    BY DEF Mounted
  <2>2. Screen(app) = "landing"
    BY <1>2 DEF Screen
  <2> QED
    BY <1>2, <2>1, <2>2 DEF AliasSort
<1> QED
  BY <1>1, <1>7, <1>8, <1>9, <1>10, <1>11, <1>12 DEF TypeInv

LEMMA TypeNext ==
  ASSUME TypeInv, [Next]_vars
  PROVE  TypeInv'
<1>1. PicInv'
  BY TypeFacts, PicNext
<1>2. CASE UNCHANGED vars
  <2>1. /\ sessions' = sessions /\ members' = members /\ verified' = verified /\ names' = names /\ written' = written
        /\ app' = app /\ ui' = ui /\ wire' = wire /\ reloads' = reloads /\ faults' = faults /\ journey' = journey
        /\ astray' = astray
    BY <1>2 DEF vars, server, bounds
  <2>2. ServerSort'
    BY <2>1, TypeFacts DEF ServerSort
  <2>3. BoundSort'
    BY <2>1, TypeFacts DEF BoundSort
  <2>4. WireSort(wire, Len(sessions), journey.sessions)'
    BY <2>1, TypeFacts DEF WireSort, Opening, CallSort
  <2>5. AppSort(app)' /\ Flags(ui)' /\ AliasSort(ui.alias, Screen(app))'
    BY <2>1, TypeFacts DEF AppSort, Flags, AliasSort, Screen
  <2> QED
    BY <1>1, <2>2, <2>3, <2>4, <2>5 DEF TypeInv
<1>3. CASE Act
  BY <1>1, <1>3, TypeAct
<1>4. ASSUME NEW c \in wire, Serve(c)
      PROVE  TypeInv'
  BY <1>1, <1>4, TypeSignIn, TypeVerify, TypeProfile, TypeWrite, TypeOther, TypeRead, TypeRefuse DEF Serve
<1>5. ASSUME NEW c \in wire, Answer(c)
      PROVE  TypeInv'
  BY <1>1, <1>5, TypeAnswered
<1> QED
  BY <1>2, <1>3, <1>4, <1>5 DEF Next

\* What the page, the calls in flight and the server hold is always of its
\* type: a user is one that mapUser makes, an image one that mapImage makes;
\* the token, in App and in localStorage, is one that was handed out; every
\* session is a registered account's; and only such accounts are verified.
THEOREM TypesHold == Spec => []TypeOK
<1>1. Init => TypeInv
  BY InitType
<1>2. TypeInv /\ [Next]_vars => TypeInv'
  BY TypeNext
<1>3. TypeInv => TypeOK
  <2> SUFFICES ASSUME TypeInv
               PROVE  TypeOK
    OBVIOUS
  <2>1. /\ stored \subseteq used /\ hidden \subseteq stored /\ used \subseteq Images
        /\ PicsAt(app.gallery, ui.selected, wire, sessions, stored, hidden, used)
        /\ CheckInv /\ journey \in Journeys /\ app.token \in 0..Len(sessions) /\ kept \in 0..Len(sessions)
        /\ ui.mode \in Modes /\ ui.pending.tok \in 0..Len(sessions) /\ Calls(wire, Len(sessions))
    BY TypeFacts, AppFacts DEF PicInv, CheckInv, Shapes, UiShape
  <2>2. \A x : Pic(x, used) => x \in Items
    <3>1. \A i \in Images : Hid(i) \in Items /\ Open(i) \in Items
      BY DEF Hid, Open, Items
    <3> QED
      BY <2>1, <3>1 DEF Pic
  <2>3. app.gallery \subseteq Items /\ ui.selected \in Items \cup {NoItem} /\ \A c \in wire : c.got.items \subseteq Items
    BY <2>1, <2>2 DEF PicsAt, CallPics
  <2>4. \A c \in wire : Call(c)
    BY <2>1, <2>3, TypeFacts DEF Call, Calls, CallShape, AnswerShape, WireSort, CallSort
  <2>5. Len(sessions) <= journey.sessions /\ DOMAIN sessions = 1..Len(sessions)
    <3>1. Opening(wire) \in SUBSET wire /\ IsFiniteSet(wire) /\ Len(sessions) + Cardinality(Opening(wire)) <= journey.sessions
      BY TypeFacts DEF Opening, WireSort
    <3>2. Cardinality(Opening(wire)) \in Nat
      BY <3>1, FS_Subset, FS_CardinalityType
    <3>3. sessions \in Seq(Accounts)
      BY <2>1 DEF CheckInv, Shapes
    <3> QED
      BY <3>1, <3>2, <3>3, TypeFacts
  <2>6. /\ ui.busy \in Cycles \cup {"", "yes"} /\ ui.resending \in BOOLEAN /\ ui.loading \in BOOLEAN
        /\ ui.alias \in Names \cup {""}
        /\ app.view \in Views /\ app.user \in Users /\ app.usage \in Accounts \cup {Nobody} /\ app.ifpay \in BOOLEAN
    BY TypeFacts DEF Flags, AliasSort, AppSort
  <2> QED
    BY <2>1, <2>3, <2>4, <2>5, <2>6, TypeFacts DEF TypeOK, ServerSort, BoundSort
<1> QED
  BY <1>1, <1>2, <1>3, PTL DEF Spec
=============================================================================
