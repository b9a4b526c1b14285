--------------------------- MODULE UserWebProofs ---------------------------
(* Theorems about UserWeb, for any accounts, images, owners and bounds.    *)
EXTENDS UserWeb, SequenceTheorems, TLAPS

\* Records with the fields of the model.  n is the number of sessions made.
AnswerShape(x, n) ==
  /\ x = [user |-> x.user, items |-> x.items, rows |-> x.rows, tok |-> x.tok]
  /\ x.tok \in 0..n

CallShape(c, n) ==
  /\ c = [kind |-> c.kind, tok |-> c.tok, arg |-> c.arg, want |-> c.want, live |-> c.live,
          stale |-> c.stale, at |-> c.at, got |-> c.got]
  /\ c.tok \in 0..n /\ AnswerShape(c.got, n)

AppShape(p, n) ==
  /\ p = [view |-> p.view, user |-> p.user, usage |-> p.usage, token |-> p.token,
          ifpay |-> p.ifpay, gallery |-> p.gallery]
  /\ p.token \in 0..n

\* App in state q, with user u and token t
Turns(q, n, u, t) == AppShape(q, n) /\ q.user = u /\ q.token = t

UiShape(g, n) ==
  /\ g = [mode |-> g.mode, pending |-> g.pending, reset |-> g.reset, busy |-> g.busy,
          resending |-> g.resending, selected |-> g.selected, rows |-> g.rows,
          loading |-> g.loading, alias |-> g.alias]
  /\ g.mode \in Modes /\ g.pending.tok \in 0..n

\* Calls that are made with a token only, and answers that bring a user
Signing == {"load", "me", "upload"}
Bringing == {"load", "me", "login", "verify", "callback", "profile"}

CallTrue(c) ==
  /\ c.kind \in Signing => c.tok # 0
  /\ c.at = "ok" /\ c.kind \in Bringing => c.got.user # NoUser
  /\ c.at = "timer" => c.kind = "upload"

\* A call d that takes the place of c
Becomes(c, d, n) ==
  CallShape(d, n) /\ CallTrue(d) /\ d.kind = c.kind /\ d.tok = c.tok /\ d.live = c.live

Checking(c, p) == c.kind = "load" /\ c.live /\ c.tok = p.token

\* A page without user that stays with its token has its check in w.
Keeps(p, w) == p.user = NoUser /\ p.token # 0 => \E c \in w : Checking(c, p)

Calls(w, n) == \A c \in w : CallShape(c, n) /\ CallTrue(c)

Shapes ==
  /\ sessions \in Seq(Accounts) /\ journey \in Journeys
  /\ kept \in 0..Len(sessions)
  /\ AppShape(app, Len(sessions)) /\ UiShape(ui, Len(sessions))
  /\ Calls(wire, Len(sessions))

CheckInv == Shapes /\ TokenIsChecked

-----------------------------------------------------------------------------
(* Shapes and changes of a field.                                          *)

LEMMA AskShape ==
  ASSUME NEW n \in Nat, NEW kind, NEW tok \in 0..n, NEW arg, kind \in Signing => tok # 0
  PROVE  /\ CallShape(Ask(kind, tok, arg), n) /\ CallTrue(Ask(kind, tok, arg))
         /\ Ask(kind, tok, arg).kind = kind /\ Ask(kind, tok, arg).tok = tok
         /\ Ask(kind, tok, arg).live = TRUE
  BY DEF Ask, CallShape, CallTrue, AnswerShape, NoAnswer

LEMMA Longer ==
  ASSUME NEW n \in Nat, NEW m \in Nat, n <= m
  PROVE  /\ \A c : CallShape(c, n) => CallShape(c, m)
         /\ \A p : AppShape(p, n) => AppShape(p, m)
         /\ \A g : UiShape(g, n) => UiShape(g, m)
  BY DEF CallShape, AnswerShape, AppShape, UiShape

LEMMA SetLive ==
  ASSUME NEW n \in Nat, NEW c, CallShape(c, n), CallTrue(c), NEW b
  PROVE  /\ CallShape([c EXCEPT !.live = b], n) /\ CallTrue([c EXCEPT !.live = b])
         /\ [c EXCEPT !.live = b].kind = c.kind /\ [c EXCEPT !.live = b].tok = c.tok
         /\ [c EXCEPT !.live = b].live = b
  BY DEF CallShape, CallTrue

LEMMA CleanedShape ==
  ASSUME NEW n \in Nat, NEW c, CallShape(c, n), CallTrue(c), NEW moved, NEW fresh, NEW again
  PROVE  /\ CallShape(Cleaned(c, moved, fresh, again), n)
         /\ CallTrue(Cleaned(c, moved, fresh, again))
         /\ Cleaned(c, moved, fresh, again).kind = c.kind
         /\ Cleaned(c, moved, fresh, again).tok = c.tok
         /\ c.kind = "load" /\ c.live /\ ~fresh => Cleaned(c, moved, fresh, again).live
<1> DEFINE b == /\ c.live
                /\ ~(moved /\ c.kind \notin AppOnly)
                /\ ~(fresh /\ c.kind = "load")
                /\ ~((fresh \/ again) /\ c.kind = "orders")
           d == [c EXCEPT !.live = b]
<1>1. Cleaned(c, moved, fresh, again) = d
  BY DEF Cleaned
<1>2. c.kind = "load" /\ c.live /\ ~fresh => b
  BY DEF AppOnly
<1> HIDE DEF b
<1>3. CallShape(d, n) /\ CallTrue(d) /\ d.kind = c.kind /\ d.tok = c.tok /\ d.live = b
  BY SetLive
<1> QED
  BY <1>1, <1>2, <1>3

LEMMA MountedShape ==
  ASSUME NEW n \in Nat, NEW p
  PROVE  UiShape(Mounted(p), n)
  BY DEF UiShape, Mounted, NoContext, Modes

LEMMA SetUi ==
  ASSUME NEW n \in Nat, NEW g, UiShape(g, n), NEW x
  PROVE  /\ x \in Modes => UiShape([g EXCEPT !.mode = x], n)
         /\ UiShape([g EXCEPT !.reset = x], n)
         /\ UiShape([g EXCEPT !.busy = x], n) /\ UiShape([g EXCEPT !.resending = x], n)
         /\ UiShape([g EXCEPT !.selected = x], n) /\ UiShape([g EXCEPT !.rows = x], n)
         /\ UiShape([g EXCEPT !.loading = x], n) /\ UiShape([g EXCEPT !.alias = x], n)
         /\ x.tok \in 0..n => UiShape([g EXCEPT !.pending = x], n)
<1>1. x \in Modes => UiShape([g EXCEPT !.mode = x], n)
  BY DEF UiShape
<1>2. UiShape([g EXCEPT !.reset = x], n)
  BY DEF UiShape
<1>3. UiShape([g EXCEPT !.busy = x], n)
  BY DEF UiShape
<1>4. UiShape([g EXCEPT !.resending = x], n)
  BY DEF UiShape
<1>5. UiShape([g EXCEPT !.selected = x], n)
  BY DEF UiShape
<1>6. UiShape([g EXCEPT !.rows = x], n)
  BY DEF UiShape
<1>7. UiShape([g EXCEPT !.loading = x], n)
  BY DEF UiShape
<1>8. UiShape([g EXCEPT !.alias = x], n)
  BY DEF UiShape
<1>9. x.tok \in 0..n => UiShape([g EXCEPT !.pending = x], n)
  BY DEF UiShape
<1> QED
  BY <1>1, <1>2, <1>3, <1>4, <1>5, <1>6, <1>7, <1>8, <1>9

LEMMA SetRowsLoading ==
  ASSUME NEW n \in Nat, NEW g, UiShape(g, n), NEW x, NEW y
  PROVE  UiShape([g EXCEPT !.rows = x, !.loading = y], n)
<1> DEFINE h == [g EXCEPT !.rows = x]
<1>1. UiShape(h, n)
  BY SetUi
<1>2. [g EXCEPT !.rows = x, !.loading = y] = [h EXCEPT !.loading = y]
  OBVIOUS
<1> HIDE DEF h
<1>3. UiShape([h EXCEPT !.loading = y], n)
  BY <1>1, SetUi
<1> QED
  BY <1>2, <1>3, Zenon

LEMMA SetResetMode ==
  ASSUME NEW n \in Nat, NEW g, UiShape(g, n), NEW x, NEW y \in Modes
  PROVE  UiShape([g EXCEPT !.reset = x, !.mode = y], n)
<1> DEFINE h == [g EXCEPT !.reset = x]
<1>1. UiShape(h, n)
  BY SetUi
<1>2. [g EXCEPT !.reset = x, !.mode = y] = [h EXCEPT !.mode = y]
  OBVIOUS
<1> HIDE DEF h
<1>3. UiShape([h EXCEPT !.mode = y], n)
  BY <1>1, SetUi
<1> QED
  BY <1>2, <1>3, Zenon

LEMMA SetPendingMode ==
  ASSUME NEW n \in Nat, NEW g, UiShape(g, n), NEW x, NEW y \in Modes, x.tok \in 0..n
  PROVE  UiShape([g EXCEPT !.pending = x, !.mode = y], n)
<1> DEFINE h == [g EXCEPT !.pending = x]
<1>1. UiShape(h, n)
  BY SetUi
<1>2. [g EXCEPT !.pending = x, !.mode = y] = [h EXCEPT !.mode = y]
  OBVIOUS
<1> HIDE DEF h
<1>3. UiShape([h EXCEPT !.mode = y], n)
  BY <1>1, SetUi
<1> QED
  BY <1>2, <1>3, Zenon

LEMMA SetLoadingRows ==
  ASSUME NEW n \in Nat, NEW g, UiShape(g, n), NEW x, NEW y
  PROVE  UiShape([g EXCEPT !.loading = x, !.rows = y], n)
<1> DEFINE h == [g EXCEPT !.loading = x]
<1>1. UiShape(h, n)
  BY SetUi
<1>2. [g EXCEPT !.loading = x, !.rows = y] = [h EXCEPT !.rows = y]
  OBVIOUS
<1> HIDE DEF h
<1>3. UiShape([h EXCEPT !.rows = y], n)
  BY <1>1, SetUi
<1> QED
  BY <1>2, <1>3, Zenon

LEMMA SetView ==
  ASSUME NEW n \in Nat, NEW g, UiShape(g, n), NEW x, NEW y, NEW z
  PROVE  UiShape([g EXCEPT !.loading = x, !.rows = y, !.alias = z], n)
<1> DEFINE h == [g EXCEPT !.loading = x, !.rows = y]
<1>1. UiShape(h, n)
  BY SetLoadingRows
<1>2. [g EXCEPT !.loading = x, !.rows = y, !.alias = z] = [h EXCEPT !.alias = z]
  OBVIOUS
<1> HIDE DEF h
<1>3. UiShape([h EXCEPT !.alias = z], n)
  BY <1>1, SetUi
<1> QED
  BY <1>2, <1>3, Zenon

LEMMA AppView ==
  ASSUME NEW n \in Nat, NEW p, AppShape(p, n), NEW x
  PROVE  /\ AppShape([p EXCEPT !.view = x], n)
         /\ [p EXCEPT !.view = x].user = p.user /\ [p EXCEPT !.view = x].token = p.token
  BY DEF AppShape

LEMMA AppUsage ==
  ASSUME NEW n \in Nat, NEW p, AppShape(p, n), NEW x
  PROVE  /\ AppShape([p EXCEPT !.usage = x], n)
         /\ [p EXCEPT !.usage = x].user = p.user /\ [p EXCEPT !.usage = x].token = p.token
  BY DEF AppShape

LEMMA AppIfpay ==
  ASSUME NEW n \in Nat, NEW p, AppShape(p, n), NEW x
  PROVE  /\ AppShape([p EXCEPT !.ifpay = x], n)
         /\ [p EXCEPT !.ifpay = x].user = p.user /\ [p EXCEPT !.ifpay = x].token = p.token
  BY DEF AppShape

LEMMA AppGallery ==
  ASSUME NEW n \in Nat, NEW p, AppShape(p, n), NEW x
  PROVE  /\ AppShape([p EXCEPT !.gallery = x], n)
         /\ [p EXCEPT !.gallery = x].user = p.user /\ [p EXCEPT !.gallery = x].token = p.token
  BY DEF AppShape

LEMMA AppUser ==
  ASSUME NEW n \in Nat, NEW p, AppShape(p, n), NEW x
  PROVE  /\ AppShape([p EXCEPT !.user = x], n)
         /\ [p EXCEPT !.user = x].user = x /\ [p EXCEPT !.user = x].token = p.token
  BY DEF AppShape

LEMMA AppToken ==
  ASSUME NEW n \in Nat, NEW p, AppShape(p, n), NEW x \in 0..n
  PROVE  /\ AppShape([p EXCEPT !.token = x], n)
         /\ [p EXCEPT !.token = x].user = p.user /\ [p EXCEPT !.token = x].token = x
  BY DEF AppShape

LEMMA AppSignedIn ==
  ASSUME NEW n \in Nat, NEW p, AppShape(p, n), NEW t \in 0..n, NEW u, NEW x, NEW v
  PROVE  Turns([p EXCEPT !.token = t, !.user = u, !.usage = x, !.view = v], n, u, t)
<1> DEFINE p1 == [p EXCEPT !.token = t]
           p2 == [p1 EXCEPT !.user = u]
           p3 == [p2 EXCEPT !.usage = x]
           p4 == [p3 EXCEPT !.view = v]
<1>1. [p EXCEPT !.token = t, !.user = u, !.usage = x, !.view = v] = p4
  OBVIOUS
<1>2. AppShape(p1, n) /\ p1.token = t /\ p1.user = p.user
  BY AppToken
<1> HIDE DEF p1
<1>3. AppShape(p2, n) /\ p2.token = t /\ p2.user = u
  BY <1>2, AppUser
<1> HIDE DEF p2
<1>4. AppShape(p3, n) /\ p3.token = t /\ p3.user = u
  BY <1>3, AppUsage
<1> HIDE DEF p3
<1>5. AppShape(p4, n) /\ p4.token = t /\ p4.user = u
  BY <1>4, AppView
<1> HIDE DEF p4
<1>6. Turns(p4, n, u, t)
  BY <1>5 DEF Turns
<1> QED
  BY <1>1, <1>6, Zenon

LEMMA AppReturned ==
  ASSUME NEW n \in Nat, NEW p, AppShape(p, n), NEW t \in 0..n, NEW u, NEW x, NEW v
  PROVE  Turns([p EXCEPT !.token = t, !.user = u, !.ifpay = x, !.view = v], n, u, t)
<1> DEFINE p1 == [p EXCEPT !.token = t]
           p2 == [p1 EXCEPT !.user = u]
           p3 == [p2 EXCEPT !.ifpay = x]
           p4 == [p3 EXCEPT !.view = v]
<1>1. [p EXCEPT !.token = t, !.user = u, !.ifpay = x, !.view = v] = p4
  OBVIOUS
<1>2. AppShape(p1, n) /\ p1.token = t /\ p1.user = p.user
  BY AppToken
<1> HIDE DEF p1
<1>3. AppShape(p2, n) /\ p2.token = t /\ p2.user = u
  BY <1>2, AppUser
<1> HIDE DEF p2
<1>4. AppShape(p3, n) /\ p3.token = t /\ p3.user = u
  BY <1>3, AppIfpay
<1> HIDE DEF p3
<1>5. AppShape(p4, n) /\ p4.token = t /\ p4.user = u
  BY <1>4, AppView
<1> HIDE DEF p4
<1>6. Turns(p4, n, u, t)
  BY <1>5 DEF Turns
<1> QED
  BY <1>1, <1>6, Zenon

LEMMA AppLoaded ==
  ASSUME NEW n \in Nat, NEW p, AppShape(p, n), NEW u, NEW x, NEW y, NEW v
  PROVE  Turns([p EXCEPT !.user = u, !.usage = x, !.gallery = y, !.view = v], n, u, p.token)
<1> DEFINE p1 == [p EXCEPT !.user = u]
           p2 == [p1 EXCEPT !.usage = x]
           p3 == [p2 EXCEPT !.gallery = y]
           p4 == [p3 EXCEPT !.view = v]
<1>1. [p EXCEPT !.user = u, !.usage = x, !.gallery = y, !.view = v] = p4
  OBVIOUS
<1>2. AppShape(p1, n) /\ p1.user = u /\ p1.token = p.token
  BY AppUser
<1> HIDE DEF p1
<1>3. AppShape(p2, n) /\ p2.user = u /\ p2.token = p.token
  BY <1>2, AppUsage
<1> HIDE DEF p2
<1>4. AppShape(p3, n) /\ p3.user = u /\ p3.token = p.token
  BY <1>3, AppGallery
<1> HIDE DEF p3
<1>5. AppShape(p4, n) /\ p4.user = u /\ p4.token = p.token
  BY <1>4, AppView
<1> HIDE DEF p4
<1>6. Turns(p4, n, u, p.token)
  BY <1>5 DEF Turns
<1> QED
  BY <1>1, <1>6, Zenon

LEMMA AppAccount ==
  ASSUME NEW n \in Nat, NEW p, AppShape(p, n), NEW u, NEW x
  PROVE  Turns([p EXCEPT !.user = u, !.usage = x], n, u, p.token)
<1> DEFINE p1 == [p EXCEPT !.user = u]
           p2 == [p1 EXCEPT !.usage = x]
<1>1. [p EXCEPT !.user = u, !.usage = x] = p2
  OBVIOUS
<1>2. AppShape(p1, n) /\ p1.user = u /\ p1.token = p.token
  BY AppUser
<1> HIDE DEF p1
<1>3. AppShape(p2, n) /\ p2.user = u /\ p2.token = p.token
  BY <1>2, AppUsage
<1> HIDE DEF p2
<1>4. Turns(p2, n, u, p.token)
  BY <1>3 DEF Turns
<1> QED
  BY <1>1, <1>4, Zenon

LEMMA AppUploaded ==
  ASSUME NEW n \in Nat, NEW p, AppShape(p, n), NEW x, NEW v
  PROVE  Turns([p EXCEPT !.gallery = x, !.view = v], n, p.user, p.token)
<1> DEFINE p1 == [p EXCEPT !.gallery = x]
           p2 == [p1 EXCEPT !.view = v]
<1>1. [p EXCEPT !.gallery = x, !.view = v] = p2
  OBVIOUS
<1>2. AppShape(p1, n) /\ p1.token = p.token /\ p1.user = p.user
  BY AppGallery
<1> HIDE DEF p1
<1>3. AppShape(p2, n) /\ p2.token = p.token /\ p2.user = p.user
  BY <1>2, AppView
<1> HIDE DEF p2
<1>4. Turns(p2, n, p.user, p.token)
  BY <1>3 DEF Turns
<1> QED
  BY <1>1, <1>4, Zenon

LEMMA AppLeft ==
  ASSUME NEW n \in Nat, NEW p, AppShape(p, n), NEW u, NEW x, NEW t \in 0..n, NEW y, NEW v
  PROVE  Turns([p EXCEPT !.user = u, !.usage = x, !.token = t, !.ifpay = y, !.view = v], n, u, t)
<1> DEFINE p1 == [p EXCEPT !.user = u]
           p2 == [p1 EXCEPT !.usage = x]
           p3 == [p2 EXCEPT !.token = t]
           p4 == [p3 EXCEPT !.ifpay = y]
           p5 == [p4 EXCEPT !.view = v]
<1>1. [p EXCEPT !.user = u, !.usage = x, !.token = t, !.ifpay = y, !.view = v] = p5
  OBVIOUS
<1>2. AppShape(p1, n) /\ p1.user = u /\ p1.token = p.token
  BY AppUser
<1> HIDE DEF p1
<1>3. AppShape(p2, n) /\ p2.user = u /\ p2.token = p.token
  BY <1>2, AppUsage
<1> HIDE DEF p2
<1>4. AppShape(p3, n) /\ p3.user = u /\ p3.token = t
  BY <1>3, AppToken
<1> HIDE DEF p3
<1>5. AppShape(p4, n) /\ p4.user = u /\ p4.token = t
  BY <1>4, AppIfpay
<1> HIDE DEF p4
<1>6. AppShape(p5, n) /\ p5.user = u /\ p5.token = t
  BY <1>5, AppView
<1> HIDE DEF p5
<1>7. Turns(p5, n, u, t)
  BY <1>6 DEF Turns
<1> QED
  BY <1>1, <1>7, Zenon

LEMMA SetOk ==
  ASSUME NEW n \in Nat, NEW c, CallShape(c, n)
  PROVE  /\ CallShape([c EXCEPT !.at = "ok"], n)
         /\ [c EXCEPT !.at = "ok"].at = "ok" /\ [c EXCEPT !.at = "ok"].kind = c.kind
         /\ [c EXCEPT !.at = "ok"].tok = c.tok /\ [c EXCEPT !.at = "ok"].live = c.live
  BY DEF CallShape

LEMMA SetGot ==
  ASSUME NEW n \in Nat, NEW c, CallShape(c, n), NEW x, AnswerShape(x, n)
  PROVE  /\ CallShape([c EXCEPT !.got = x], n)
         /\ [c EXCEPT !.got = x].got = x
         /\ [c EXCEPT !.got = x].at = c.at /\ [c EXCEPT !.got = x].kind = c.kind
         /\ [c EXCEPT !.got = x].tok = c.tok /\ [c EXCEPT !.got = x].live = c.live
  BY DEF CallShape

LEMMA SetCall ==
  ASSUME NEW n \in Nat, NEW c, CallShape(c, n), CallTrue(c), NEW got, AnswerShape(got, n),
         c.kind \in Bringing => got.user # NoUser
  PROVE  Becomes(c, [c EXCEPT !.at = "ok", !.got = got], n)
<1> DEFINE h == [c EXCEPT !.at = "ok"]
           d == [h EXCEPT !.got = got]
<1>1. CallShape(h, n) /\ h.at = "ok" /\ h.kind = c.kind /\ h.tok = c.tok /\ h.live = c.live
  BY SetOk
<1>2. [c EXCEPT !.at = "ok", !.got = got] = d
  OBVIOUS
<1> HIDE DEF h
<1>3. /\ CallShape(d, n) /\ d.got = got /\ d.at = "ok"
      /\ d.kind = c.kind /\ d.tok = c.tok /\ d.live = c.live
  BY <1>1, SetGot
<1> HIDE DEF d
<1>4. Becomes(c, d, n)
  BY <1>1, <1>3 DEF CallTrue, Becomes
<1> QED
  BY <1>2, <1>4, Zenon

LEMMA SetFailed ==
  ASSUME NEW n \in Nat, NEW c, CallShape(c, n), CallTrue(c)
  PROVE  Becomes(c, [c EXCEPT !.at = "failed"], n)
  BY DEF CallShape, CallTrue, Becomes

LEMMA SetTimer ==
  ASSUME NEW n \in Nat, NEW c, CallShape(c, n), CallTrue(c), c.kind = "upload"
  PROVE  Becomes(c, [c EXCEPT !.at = "timer"], n)
  BY DEF CallShape, CallTrue, Becomes

LEMMA SetStale ==
  ASSUME NEW n \in Nat, NEW c, CallShape(c, n), CallTrue(c), NEW b
  PROVE  Becomes(c, [c EXCEPT !.stale = b], n)
  BY DEF CallShape, CallTrue, Becomes

LEMMA Brings ==
  ASSUME NEW n \in Nat, NEW user, NEW tok \in 0..n
  PROVE  /\ AnswerShape([NoAnswer EXCEPT !.user = user], n)
         /\ [NoAnswer EXCEPT !.user = user].user = user
         /\ AnswerShape([NoAnswer EXCEPT !.user = user, !.tok = tok], n)
         /\ [NoAnswer EXCEPT !.user = user, !.tok = tok].user = user
<1> DEFINE h == [NoAnswer EXCEPT !.user = user]
           d == [h EXCEPT !.tok = tok]
<1>1. h = [user |-> user, items |-> {}, rows |-> NoRows, tok |-> 0]
  BY DEF NoAnswer
<1>2. [NoAnswer EXCEPT !.user = user, !.tok = tok] = d
  OBVIOUS
<1> HIDE DEF h
<1>3. d = [user |-> user, items |-> {}, rows |-> NoRows, tok |-> tok]
  BY <1>1
<1> HIDE DEF d
<1>4. AnswerShape(h, n) /\ h.user = user /\ AnswerShape(d, n) /\ d.user = user
  BY <1>1, <1>3 DEF AnswerShape
<1> QED
  BY <1>2, <1>4, Zenon DEF h

-----------------------------------------------------------------------------
(* A step of the page.                                                     *)

LEMMA EffectsShape ==
  ASSUME NEW n \in Nat, NEW p, AppShape(p, n), NEW b
  PROVE  /\ Calls(LoadEffect(p, b), n) /\ Calls(OrdersEffect(p, b), n) /\ Calls(KeysEffect(p, b), n)
         /\ b /\ p.token # 0 => \E c \in LoadEffect(p, b) : Checking(c, p)
<1>1. p.token \in 0..n
  BY DEF AppShape
<1>2. \A k : CallShape(Ask(k, p.token, Nobody), n)
  BY <1>1 DEF Ask, CallShape, AnswerShape, NoAnswer
<1>3. p.token # 0 => /\ CallTrue(Ask("load", p.token, Nobody))
                     /\ CallTrue(Ask("orders", p.token, Nobody))
                     /\ CallTrue(Ask("keys", p.token, Nobody))
                     /\ Checking(Ask("load", p.token, Nobody), p)
  BY <1>1 DEF Ask, CallTrue, Checking
<1>4. b /\ p.token # 0 => Ask("load", p.token, Nobody) \in LoadEffect(p, b)
  BY DEF LoadEffect
<1> QED
  BY <1>2, <1>3, <1>4 DEF Calls, LoadEffect, OrdersEffect, KeysEffect

LEMMA RenderKeeps ==
  ASSUME NEW n \in Nat, NEW p, NEW g, NEW w, NEW a, NEW again,
         AppShape(p, n), UiShape(g, n), Calls(w, n),
         p.token = app.token => Keeps(p, w),
         Render(p, g, w, a, again)
  PROVE  app' = p /\ UiShape(ui', n) /\ Calls(wire', n) /\ Keeps(p, wire')
<1> DEFINE moved == Screen(p) # Screen(app)
           fresh == p.token # app.token
           reads == Screen(p) = "pricing" /\ (moved \/ fresh \/ again)
           keys == Screen(p) = "api" /\ (moved \/ fresh)
           cleaned == {Cleaned(c, moved, fresh, again) : c \in w}
<1>1. app' = p
  BY DEF Render
<1>2. wire' = cleaned \cup LoadEffect(p, fresh) \cup OrdersEffect(p, reads) \cup KeysEffect(p, keys)
  BY DEF Render
<1>3. UiShape(ui', n)
  <2>1. ui' = IF moved THEN Mounted(p)
              ELSE [g EXCEPT !.loading = IF reads THEN p.token # 0 ELSE g.loading,
                             !.rows = IF reads /\ p.token = 0 THEN NoRows ELSE g.rows,
                             !.alias = IF Screen(p) = "settings" /\ p.user.name # app.user.name
                                       THEN p.user.name ELSE g.alias]
    BY DEF Render
  <2> HIDE DEF moved, reads
  <2> QED
    BY <2>1, MountedShape, SetView
<1> HIDE DEF moved, reads, keys, fresh
<1>4. Calls(cleaned, n)
  BY CleanedShape DEF Calls
<1>5. Calls(wire', n)
  BY <1>2, <1>4, EffectsShape DEF Calls
<1>6. ASSUME p.user = NoUser, p.token # 0
      PROVE  \E c \in wire' : Checking(c, p)
  <2>1. CASE fresh
    BY <1>2, <1>6, <2>1, EffectsShape
  <2>2. CASE ~fresh
    <3>1. PICK c \in w : Checking(c, p)
      BY <1>6, <2>2 DEF Keeps, fresh
    <3>2. Checking(Cleaned(c, moved, fresh, again), p)
      BY <2>2, <3>1, CleanedShape DEF Calls, Checking
    <3> QED
      BY <1>2, <3>2
  <2> QED
    BY <2>1, <2>2
<1> QED
  BY <1>1, <1>3, <1>5, <1>6 DEF Keeps

LEMMA LenNat ==
  ASSUME Shapes
  PROVE  Len(sessions) \in Nat
  BY DEF Shapes

LEMMA PageStep ==
  ASSUME CheckInv, NEW p, NEW g, NEW w, NEW a, NEW again,
         AppShape(p, Len(sessions)), UiShape(g, Len(sessions)), Calls(w, Len(sessions)),
         p.token = app.token => Keeps(p, w),
         Render(p, g, w, a, again), ByClient, kept' \in 0..Len(sessions)
  PROVE  CheckInv'
<1>1. Len(sessions) \in Nat
  BY LenNat DEF CheckInv
<1>2. app' = p /\ UiShape(ui', Len(sessions)) /\ Calls(wire', Len(sessions)) /\ Keeps(p, wire')
  BY <1>1, RenderKeeps
<1>3. sessions' = sessions /\ journey' = journey
  BY DEF ByClient, server, bounds
<1>4. Shapes'
  BY <1>2, <1>3 DEF CheckInv, Shapes
<1>5. TokenIsChecked'
  BY <1>2 DEF TokenIsChecked, Keeps, Checking
<1> QED
  BY <1>4, <1>5 DEF CheckInv

LEMMA Checked0 ==
  ASSUME CheckInv
  PROVE  Keeps(app, wire)
  BY DEF CheckInv, TokenIsChecked, Keeps, Checking

\* The page stays as it is and may send a call.
LEMMA SendStep ==
  ASSUME CheckInv, NEW g, NEW c, UiShape(g, Len(sessions)),
         CallShape(c, Len(sessions)), CallTrue(c), Send(g, c)
  PROVE  CheckInv'
<1>1. Calls(wire \cup {c}, Len(sessions))
  BY DEF CheckInv, Shapes, Calls
<1>2. Keeps(app, wire \cup {c})
  BY Checked0 DEF Keeps
<1>3. AppShape(app, Len(sessions)) /\ kept' \in 0..Len(sessions)
  BY DEF CheckInv, Shapes, Send
<1> QED
  BY <1>1, <1>2, <1>3, PageStep DEF Send

LEMMA SetStep ==
  ASSUME CheckInv, NEW g, UiShape(g, Len(sessions)), Set(g)
  PROVE  CheckInv'
<1>1. AppShape(app, Len(sessions)) /\ kept' \in 0..Len(sessions) /\ Calls(wire, Len(sessions))
  BY DEF CheckInv, Shapes, Set
<1> QED
  BY <1>1, Checked0, PageStep DEF Set

LEMMA ShowStep ==
  ASSUME CheckInv, NEW v, Show(v)
  PROVE  CheckInv'
<1> DEFINE q == [app EXCEPT !.view = v]
<1>1. /\ AppShape(app, Len(sessions)) /\ kept' \in 0..Len(sessions) /\ Calls(wire, Len(sessions))
      /\ UiShape(ui, Len(sessions)) /\ Len(sessions) \in Nat
  BY LenNat DEF CheckInv, Shapes, Show
<1>2. AppShape(q, Len(sessions)) /\ q.user = app.user /\ q.token = app.token
  BY <1>1, AppView
<1>3. Keeps(q, wire)
  <2> HIDE DEF q
  <2> QED
    BY <1>2, Checked0 DEF Keeps, Checking
<1>4. Render(q, ui, wire, astray, FALSE) /\ ByClient
  BY DEF Show
<1> HIDE DEF q
<1> QED
  BY <1>1, <1>2, <1>3, <1>4, PageStep

\* The answer to call c is handled.
LEMMA DoneStep ==
  ASSUME CheckInv, NEW c \in wire, NEW p, NEW g, NEW a,
         AppShape(p, Len(sessions)), UiShape(g, Len(sessions)),
         \/ p.token # app.token \/ p.token = 0 \/ p.user # NoUser
         \/ p.user = app.user /\ ~(c.kind = "load" /\ c.live),
         Done(c, p, g, a), kept' \in 0..Len(sessions)
  PROVE  CheckInv'
<1>1. Calls(wire \ {c}, Len(sessions)) /\ UiShape(ui, Len(sessions))
  BY DEF CheckInv, Shapes, Calls
<1>2. UiShape(Local(c, g), Len(sessions))
  BY <1>1 DEF Local
<1>3. p.token = app.token => Keeps(p, wire \ {c})
  BY Checked0 DEF Keeps, Checking
<1>4. Render(p, Local(c, g), wire \ {c}, a, FALSE) /\ ByClient
  BY DEF Done
<1> QED
  BY <1>1, <1>2, <1>3, <1>4, PageStep

-----------------------------------------------------------------------------
(* A step of the server.                                                   *)

LEMMA OutdatedKeeps ==
  ASSUME NEW n \in Nat, NEW w, Calls(w, n), NEW x, NEW a, NEW arg, NEW p
  PROVE  /\ Calls(Outdated(w, x, a, arg), n)
         /\ \A e \in w : Checking(e, p) => \E f \in Outdated(w, x, a, arg) : Checking(f, p)
<1> DEFINE late(c) == /\ c.at \in {"ok", "timer"} /\ x \in Carries(c.kind) /\ About(c) = a
                      /\ (x = "gallery" /\ c.kind \notin Reads => c.arg = arg)
           new(c) == IF late(c) THEN [c EXCEPT !.stale = TRUE] ELSE c
<1>1. Outdated(w, x, a, arg) = {new(c) : c \in w}
  BY DEF Outdated
<1> HIDE DEF late
<1>2. \A c \in w : /\ CallShape(new(c), n) /\ CallTrue(new(c))
                   /\ Checking(c, p) => Checking(new(c), p)
  BY SetStale DEF Calls, Checking, Becomes
<1> HIDE DEF new
<1> QED
  BY <1>1, <1>2 DEF Calls

LEMMA ServedStep ==
  ASSUME CheckInv, NEW c \in wire, NEW rest, NEW d,
         sessions' \in Seq(Accounts), Len(sessions) <= Len(sessions'), ByServer,
         wire' = rest \cup {d}, Becomes(c, d, Len(sessions')), Calls(rest, Len(sessions)),
         \A e \in wire \ {c} : Checking(e, app) => \E f \in rest : Checking(f, app)
  PROVE  CheckInv'
<1>1. Len(sessions) \in Nat /\ Len(sessions') \in Nat
  BY LenNat DEF CheckInv
<1>2. kept' = kept /\ app' = app /\ ui' = ui /\ journey' = journey
  BY DEF ByServer
<1>3. Shapes'
  <2>1. kept \in 0..Len(sessions')
    BY <1>1 DEF CheckInv, Shapes
  <2>2. AppShape(app, Len(sessions')) /\ UiShape(ui, Len(sessions'))
    BY <1>1, Longer DEF CheckInv, Shapes
  <2>3. Calls(wire', Len(sessions'))
    BY <1>1, Longer DEF Calls, Becomes
  <2> QED
    BY <1>2, <2>1, <2>2, <2>3 DEF CheckInv, Shapes
<1>4. ASSUME NEW e \in wire, Checking(e, app)
      PROVE  \E f \in wire' : Checking(f, app)
  BY <1>4 DEF Checking, Becomes
<1>5. Keeps(app, wire')
  BY <1>4, Checked0 DEF Keeps
<1> QED
  BY <1>2, <1>3, <1>5 DEF CheckInv, TokenIsChecked, Keeps, Checking

LEMMA ReplyStep ==
  ASSUME CheckInv, NEW c \in wire, NEW got, NEW x, NEW a,
         sessions' \in Seq(Accounts), Len(sessions) <= Len(sessions'), ByServer,
         AnswerShape(got, Len(sessions')), c.kind \in Bringing => got.user # NoUser,
         Reply(c, got, x, a)
  PROVE  CheckInv'
<1> DEFINE rest == Outdated(wire \ {c}, x, a, c.arg)
           ok == [c EXCEPT !.at = "ok", !.got = got]
           failed == [c EXCEPT !.at = "failed"]
<1>1. Len(sessions) \in Nat /\ Len(sessions') \in Nat
  BY LenNat DEF CheckInv
<1>2. CallShape(c, Len(sessions')) /\ CallTrue(c)
  BY <1>1, Longer DEF CheckInv, Shapes, Calls
<1>3. Calls(wire \ {c}, Len(sessions))
  BY DEF CheckInv, Shapes, Calls
<1>4. /\ Calls(rest, Len(sessions))
      /\ \A e \in wire \ {c} : Checking(e, app) => \E f \in rest : Checking(f, app)
  BY <1>1, <1>3, OutdatedKeeps
<1>5. Becomes(c, ok, Len(sessions'))
  BY <1>1, <1>2, SetCall
<1>6. Becomes(c, failed, Len(sessions'))
  BY <1>1, <1>2, SetFailed
<1>7. wire' = rest \cup {ok} \/ wire' = rest \cup {failed}
  BY DEF Reply
<1> HIDE DEF rest, ok, failed
<1>8. CASE wire' = rest \cup {ok}
  BY <1>4, <1>5, <1>8, ServedStep
<1>9. CASE wire' = rest \cup {failed}
  BY <1>4, <1>6, <1>9, ServedStep
<1> QED
  BY <1>7, <1>8, <1>9

\* What a step of the server may rely on
LEMMA ServerFacts ==
  ASSUME CheckInv, NEW c \in wire
  PROVE  /\ Len(sessions) \in Nat /\ sessions \in Seq(Accounts)
         /\ CallShape(c, Len(sessions)) /\ CallTrue(c) /\ c.tok \in 0..Len(sessions)
         /\ c.tok # 0 => Acct(c.tok) \in Accounts
         /\ journey.who \subseteq Accounts
         /\ \A a \in Accounts : Me(a) # NoUser
<1>1. Len(sessions) \in Nat /\ sessions \in Seq(Accounts) /\ CallShape(c, Len(sessions)) /\ CallTrue(c)
  BY LenNat DEF CheckInv, Shapes, Calls
<1>2. c.tok \in 0..Len(sessions)
  BY <1>1 DEF CallShape
<1>3. c.tok # 0 => Acct(c.tok) \in Accounts
  BY <1>1, <1>2 DEF Acct
<1>4. journey.who \subseteq Accounts
  BY BoundAssumption DEF CheckInv, Shapes
<1>5. \A a \in Accounts : Me(a) # NoUser
  BY AccountAssumption DEF Me, NoUser
<1> QED
  BY <1>1, <1>2, <1>3, <1>4, <1>5

LEMMA ServeReadStep ==
  ASSUME CheckInv, NEW c \in wire, ServeRead(c)
  PROVE  CheckInv'
<1> DEFINE a == Acct(c.tok)
           full == [user |-> IF c.kind \in {"load", "me"} THEN Me(a) ELSE NoUser,
                    items |-> IF c.kind \in {"load", "images"} THEN List(a) ELSE {},
                    rows |-> CASE c.kind = "keys" -> Rows(a, "keys")
                               [] c.kind \in {"orders", "reorders"} -> Rows(a, "orders")
                               [] OTHER -> NoRows,
                    tok |-> 0]
           ok == [c EXCEPT !.at = "ok", !.got = full]
<1>1. /\ c.kind \in Reads /\ ByServer /\ sessions' = sessions
      /\ wire' = (wire \ {c}) \cup {ok}
  BY DEF ServeRead, Served, server
<1>2. AnswerShape(full, Len(sessions))
  BY ServerFacts DEF AnswerShape
<1>3. c.kind \in Bringing => full.user # NoUser
  <2> SUFFICES ASSUME c.kind \in Bringing
               PROVE  full.user # NoUser
    OBVIOUS
  <2>1. c.kind \in {"load", "me"}
    BY <1>1 DEF Reads, Bringing
  <2>2. a \in Accounts
    BY <2>1, ServerFacts DEF CallTrue, Signing
  <2>3. full.user = Me(a)
    BY <2>1
  <2> QED
    BY <2>2, <2>3, ServerFacts
<1> HIDE DEF full
<1>4. Becomes(c, ok, Len(sessions))
  BY <1>2, <1>3, SetCall, ServerFacts
<1> HIDE DEF ok
<1>5. Calls(wire \ {c}, Len(sessions))
  BY DEF CheckInv, Shapes, Calls
<1> QED
  BY <1>1, <1>4, <1>5, ServedStep, ServerFacts

LEMMA ServeSignInStep ==
  ASSUME CheckInv, NEW c \in wire, NEW a \in journey.who, ServeSignIn(c, a)
  PROVE  CheckInv'
<1> DEFINE got == [NoAnswer EXCEPT !.user = Me(a), !.tok = Len(sessions')]
<1>1. ByServer /\ sessions' = Append(sessions, a) /\ Reply(c, got, "none", a)
  BY DEF ServeSignIn
<1>2. a \in Accounts
  BY ServerFacts
<1>3. sessions' \in Seq(Accounts) /\ Len(sessions') = Len(sessions) + 1
  BY <1>1, <1>2, ServerFacts
<1>4. Len(sessions') \in Nat /\ Len(sessions') \in 0..Len(sessions') /\ Len(sessions) <= Len(sessions')
  BY <1>3, ServerFacts
<1>5. AnswerShape(got, Len(sessions')) /\ got.user = Me(a)
  BY <1>4, Brings
<1> HIDE DEF got
<1> QED
  BY <1>1, <1>2, <1>3, <1>4, <1>5, ReplyStep, ServerFacts

LEMMA ServeVerifyStep ==
  ASSUME CheckInv, NEW c \in wire, ServeVerify(c)
  PROVE  CheckInv'
<1> DEFINE user == [Me(c.arg) EXCEPT !.verified = TRUE]
           got == [NoAnswer EXCEPT !.user = user, !.tok = c.tok]
<1>1. ByServer /\ sessions' = sessions /\ Reply(c, got, "profile", c.arg)
  BY DEF ServeVerify
<1>2. user # NoUser
  BY DEF Me, NoUser
<1> HIDE DEF user
<1>3. AnswerShape(got, Len(sessions')) /\ got.user = user
  BY <1>1, ServerFacts, Brings
<1> HIDE DEF got
<1> QED
  BY <1>1, <1>2, <1>3, ReplyStep, ServerFacts

LEMMA ServeMailStep ==
  ASSUME CheckInv, NEW c \in wire, ServeMail(c)
  PROVE  CheckInv'
<1>1. ByServer /\ sessions' = sessions /\ Reply(c, NoAnswer, "none", Nobody) /\ c.kind \notin Bringing
  BY DEF ServeMail, Served, server, Bringing
<1>2. AnswerShape(NoAnswer, Len(sessions'))
  BY <1>1, ServerFacts DEF AnswerShape, NoAnswer
<1> QED
  BY <1>1, <1>2, ReplyStep, ServerFacts

LEMMA ServeImageStep ==
  ASSUME CheckInv, NEW c \in wire, ServeImage(c)
  PROVE  CheckInv'
<1>1. ByServer /\ sessions' = sessions /\ c.kind \in {"upload", "import", "delete", "toggle"}
  BY DEF ServeImage, Served
<1>2. PICK got : Reply(c, got, "gallery", Acct(c.tok))
                 /\ (got = NoAnswer \/ \E x : got = [NoAnswer EXCEPT !.items = x])
  BY <1>1 DEF ServeImage
<1>3. AnswerShape(got, Len(sessions'))
  BY <1>1, <1>2, ServerFacts DEF AnswerShape, NoAnswer
<1>4. c.kind \notin Bringing
  BY <1>1 DEF Bringing
<1> QED
  BY <1>1, <1>2, <1>3, <1>4, ReplyStep, ServerFacts

LEMMA ServeWriteStep ==
  ASSUME CheckInv, NEW c \in wire, ServeWrite(c)
  PROVE  CheckInv'
<1>1. /\ ByServer /\ sessions' = sessions /\ c.kind \notin Bringing
      /\ Reply(c, NoAnswer, "rows", Acct(c.tok))
  BY DEF ServeWrite, Served, Bringing
<1>2. AnswerShape(NoAnswer, Len(sessions'))
  BY <1>1, ServerFacts DEF AnswerShape, NoAnswer
<1> QED
  BY <1>1, <1>2, ReplyStep, ServerFacts

LEMMA ServeProfileStep ==
  ASSUME CheckInv, NEW c \in wire, ServeProfile(c)
  PROVE  CheckInv'
<1> DEFINE user == [Me(Acct(c.tok)) EXCEPT !.name = c.arg]
           got == [NoAnswer EXCEPT !.user = user]
<1>1. ByServer /\ sessions' = sessions /\ Reply(c, got, "profile", Acct(c.tok)) /\ c.tok # 0
  BY DEF ServeProfile
<1>2. Acct(c.tok) # Nobody
  BY <1>1, ServerFacts, AccountAssumption
<1>3. user # NoUser
  BY <1>2 DEF Me, NoUser
<1> HIDE DEF user
<1>4. got = [user |-> user, items |-> {}, rows |-> NoRows, tok |-> 0]
  BY DEF NoAnswer
<1>5. AnswerShape(got, Len(sessions')) /\ got.user # NoUser
  BY <1>1, <1>3, <1>4, ServerFacts DEF AnswerShape
<1> HIDE DEF got
<1> QED
  BY <1>1, <1>5, ReplyStep, ServerFacts

LEMMA RefuseStep ==
  ASSUME CheckInv, NEW c \in wire, Refuse(c)
  PROVE  CheckInv'
<1> DEFINE failed == [c EXCEPT !.at = "failed"]
<1>1. ByServer /\ sessions' = sessions /\ wire' = (wire \ {c}) \cup {failed}
  BY DEF Refuse, server
<1>2. Becomes(c, failed, Len(sessions))
  BY SetFailed, ServerFacts
<1> HIDE DEF failed
<1>3. Calls(wire \ {c}, Len(sessions))
  BY DEF CheckInv, Shapes, Calls
<1> QED
  BY <1>1, <1>2, <1>3, ServedStep, ServerFacts

LEMMA ServeStep ==
  ASSUME CheckInv, NEW c \in wire, Serve(c)
  PROVE  CheckInv'
  BY ServeReadStep, ServeSignInStep, ServeVerifyStep, ServeMailStep, ServeImageStep,
     ServeWriteStep, ServeProfileStep, RefuseStep DEF Serve

-----------------------------------------------------------------------------
(* What the user does.                                                     *)

LEMMA PageFacts ==
  ASSUME CheckInv
  PROVE  /\ Len(sessions) \in Nat /\ 0 \in 0..Len(sessions)
         /\ AppShape(app, Len(sessions)) /\ app.token \in 0..Len(sessions)
         /\ UiShape(ui, Len(sessions)) /\ ui.mode \in Modes /\ ui.pending.tok \in 0..Len(sessions)
         /\ Calls(wire, Len(sessions)) /\ kept \in 0..Len(sessions)
  BY LenNat DEF CheckInv, Shapes, AppShape, UiShape

\* A call that needs no token is sent with any.
LEMMA AskStep ==
  ASSUME CheckInv, NEW g, UiShape(g, Len(sessions)), NEW kind, NEW tok \in 0..Len(sessions),
         NEW arg, kind \in Signing => tok # 0, Send(g, Ask(kind, tok, arg))
  PROVE  CheckInv'
  BY PageFacts, AskShape, SendStep

LEMMA MenuStep ==
  ASSUME CheckInv,
         \/ OpenAuth \/ LeaveAuth \/ OpenDocs \/ HashDocs \/ CloseDocs \/ DocsLogin
         \/ \E v \in AppViews : Navigate(v)
  PROVE  CheckInv'
  BY ShowStep DEF OpenAuth, LeaveAuth, OpenDocs, HashDocs, CloseDocs, DocsLogin, Navigate

LEMMA LogoutStep ==
  ASSUME CheckInv, Logout
  PROVE  CheckInv'
<1> DEFINE p == [app EXCEPT !.user = NoUser, !.usage = Nobody, !.token = 0, !.ifpay = FALSE,
                            !.view = "landing"]
<1>1. Render(p, ui, wire, astray \ {"session"}, FALSE) /\ ByClient /\ kept' = 0
  BY DEF Logout
<1>2. Turns(p, Len(sessions), NoUser, 0)
  BY PageFacts, AppLeft
<1> HIDE DEF p
<1> QED
  BY <1>1, <1>2, PageFacts, PageStep DEF Keeps, Turns

LEMMA SelectStep ==
  ASSUME CheckInv, NEW item, Select(item)
  PROVE  CheckInv'
<1>1. UiShape([ui EXCEPT !.selected = item], Len(sessions))
  BY PageFacts, SetUi
<1>2. Render(app, [ui EXCEPT !.selected = item], wire, astray \ {"detail"}, FALSE) /\ ByClient /\ kept' = kept
  BY DEF Select
<1> QED
  BY <1>1, <1>2, PageFacts, Checked0, PageStep

LEMMA LocalStep ==
  ASSUME CheckInv, \/ \E m \in Modes : SwitchMode(m)
                   \/ Back
                   \/ \E x \in Names : EditAlias(x)
  PROVE  CheckInv'
<1>1. ASSUME NEW m \in Modes, SwitchMode(m)
      PROVE  CheckInv'
  <2>1. UiShape([ui EXCEPT !.mode = m], Len(sessions))
    BY PageFacts, SetUi
  <2> QED
    BY <1>1, <2>1, SetStep DEF SwitchMode
<1>2. ASSUME Back
      PROVE  CheckInv'
  <2>1. UiShape([ui EXCEPT !.selected = NoItem], Len(sessions))
    BY PageFacts, SetUi
  <2> QED
    BY <1>2, <2>1, SetStep DEF Back
<1>3. ASSUME NEW x \in Names, EditAlias(x)
      PROVE  CheckInv'
  <2>1. UiShape([ui EXCEPT !.alias = x], Len(sessions))
    BY PageFacts, SetUi
  <2> QED
    BY <1>3, <2>1, SetStep DEF EditAlias
<1> QED
  BY <1>1, <1>2, <1>3

LEMMA SubmitStep ==
  ASSUME CheckInv, NEW a, Submit(a)
  PROVE  CheckInv'
<1> DEFINE g == [ui EXCEPT !.busy = "yes"]
<1>1. PICK c \in Submitted(a) : Send(g, c)
  BY DEF Submit
<1>2. UiShape(g, Len(sessions))
  BY PageFacts, SetUi
<1> HIDE DEF g
<1>3. \E kind, arg : \E tok \in 0..Len(sessions) : kind \notin Signing /\ c = Ask(kind, tok, arg)
  <2>1. CASE ui.mode = "login"
    BY <2>1, PageFacts DEF Submitted, Signing
  <2>2. CASE ui.mode = "register"
    BY <2>2, PageFacts DEF Submitted, Signing
  <2>3. CASE ui.mode = "verify"
    BY <2>3, PageFacts DEF Submitted, Signing
  <2>4. CASE ui.mode = "forgot"
    BY <2>4, PageFacts DEF Submitted, Signing
  <2>5. CASE ui.mode = "reset"
    BY <2>5, PageFacts DEF Submitted, Signing
  <2> QED
    BY <2>1, <2>2, <2>3, <2>4, <2>5, PageFacts DEF Modes
<1> QED
  BY <1>1, <1>2, <1>3, AskStep

LEMMA ToggleStep ==
  ASSUME CheckInv, TogglePrivacy
  PROVE  CheckInv'
<1> DEFINE c == Ask("toggle", app.token, ui.selected.img)
           d == [c EXCEPT !.want = ~ui.selected.private]
<1>1. CallShape(c, Len(sessions)) /\ CallTrue(c)
  BY PageFacts, AskShape DEF Signing
<1>2. Send(ui, d)
  BY DEF TogglePrivacy
<1> HIDE DEF c
<1>3. CallShape(d, Len(sessions)) /\ CallTrue(d)
  BY <1>1 DEF CallShape, CallTrue
<1> HIDE DEF d
<1> QED
  BY <1>2, <1>3, PageFacts, SendStep

LEMMA SendingStep ==
  ASSUME CheckInv,
         \/ StartIFPayOAuth \/ ResendVerification \/ DeleteImage
         \/ RefreshOrders \/ CreateKey \/ RevokeKey \/ SaveProfile
         \/ \E i \in journey.images : UploadFile(i) \/ ImportBackup(i)
         \/ \E cycle \in Cycles : Checkout(cycle)
  PROVE  CheckInv'
<1>1. /\ \A x : UiShape([ui EXCEPT !.busy = x], Len(sessions))
      /\ UiShape([ui EXCEPT !.resending = TRUE], Len(sessions))
      /\ UiShape([ui EXCEPT !.loading = TRUE], Len(sessions))
      /\ UiShape([ui EXCEPT !.rows = NoRows], Len(sessions))
  BY PageFacts, SetUi
<1>2. ASSUME StartIFPayOAuth
      PROVE  CheckInv'
  <2> DEFINE k == Ask("oauth", 0, Nobody)
             d == [k EXCEPT !.live = FALSE]
  <2>1. CallShape(k, Len(sessions)) /\ CallTrue(k)
    BY PageFacts, AskShape DEF Signing
  <2>2. Send([ui EXCEPT !.busy = "yes"], k) \/ Send(ui, d)
    BY <1>2 DEF StartIFPayOAuth
  <2> HIDE DEF k
  <2>3. CallShape(d, Len(sessions)) /\ CallTrue(d)
    BY <2>1, PageFacts, SetLive
  <2> HIDE DEF d
  <2> QED
    BY <1>1, <2>1, <2>2, <2>3, PageFacts, SendStep
<1>3. CASE ResendVerification
  BY <1>1, <1>3, PageFacts, AskStep DEF ResendVerification, Signing
<1>4. CASE DeleteImage
  BY <1>4, PageFacts, AskStep DEF DeleteImage, Signing
<1>5. CASE RefreshOrders
  BY <1>1, <1>5, PageFacts, AskStep, SetStep DEF RefreshOrders, Signing
<1>6. CASE CreateKey
  BY <1>6, PageFacts, AskStep DEF CreateKey, Signing
<1>7. CASE RevokeKey
  BY <1>7, PageFacts, AskStep DEF RevokeKey, Signing
<1>8. CASE SaveProfile
  BY <1>8, PageFacts, AskStep DEF SaveProfile, Signing
<1>9. ASSUME NEW i \in journey.images, UploadFile(i) \/ ImportBackup(i)
      PROVE  CheckInv'
  <2>1. CASE UploadFile(i)
    BY <1>1, <2>1, PageFacts, AskStep DEF UploadFile
  <2>2. CASE ImportBackup(i)
    BY <2>2, PageFacts, AskStep DEF ImportBackup, Signing
  <2> QED
    BY <1>9, <2>1, <2>2
<1>10. ASSUME NEW cycle \in Cycles, Checkout(cycle)
       PROVE  CheckInv'
  BY <1>1, <1>10, PageFacts, AskStep, ShowStep DEF Checkout, Signing
<1> QED
  BY <1>2, <1>3, <1>4, <1>5, <1>6, <1>7, <1>8, <1>9, <1>10

LEMMA ReopenStep ==
  ASSUME CheckInv, NEW v, NEW calls, Calls(calls, Len(sessions)), Reopen(v, calls)
  PROVE  CheckInv'
<1> DEFINE p == Opened(v)
<1>1. /\ app' = p /\ ui' = Mounted(p) /\ wire' = LoadEffect(p, TRUE) \cup calls
      /\ sessions' = sessions /\ kept' = kept /\ journey' = journey
  BY DEF Reopen, server
<1>2. AppShape(p, Len(sessions))
  BY PageFacts DEF Opened, AppShape
<1> HIDE DEF p
<1>3. /\ Calls(LoadEffect(p, TRUE), Len(sessions))
      /\ p.token # 0 => \E c \in LoadEffect(p, TRUE) : Checking(c, p)
  BY <1>2, PageFacts, EffectsShape
<1>4. UiShape(Mounted(p), Len(sessions))
  BY PageFacts, MountedShape
<1>5. Shapes'
  BY <1>1, <1>2, <1>3, <1>4 DEF CheckInv, Shapes, Calls
<1>6. TokenIsChecked'
  BY <1>1, <1>3 DEF TokenIsChecked, Checking
<1> QED
  BY <1>5, <1>6 DEF CheckInv

LEMMA ReloadStep ==
  ASSUME CheckInv, NEW v, Reload(v)
  PROVE  CheckInv'
<1>1. Calls({}, Len(sessions))
  BY DEF Calls
<1> QED
  BY <1>1, ReopenStep DEF Reload

-----------------------------------------------------------------------------
(* Answers.                                                                *)

LEMMA AnswerFacts ==
  ASSUME CheckInv, NEW c \in wire
  PROVE  /\ c.got.tok \in 0..Len(sessions)
         /\ c.at = "ok" /\ c.kind \in Bringing => c.got.user # NoUser
         /\ c.at = "timer" => c.kind = "upload" /\ c.tok # 0
         /\ c.tok \in 0..Len(sessions)
         /\ Calls(wire \ {c}, Len(sessions))
<1>1. CallShape(c, Len(sessions)) /\ CallTrue(c) /\ Calls(wire \ {c}, Len(sessions))
  BY DEF CheckInv, Shapes, Calls
<1> QED
  BY <1>1 DEF CallShape, AnswerShape, CallTrue, Signing

\* An answer to a call other than the session check that only the view takes
LEMMA ViewStep ==
  ASSUME CheckInv, NEW c \in wire, NEW g, NEW a, UiShape(g, Len(sessions)),
         ~(c.kind = "load" /\ c.live), Done(c, app, g, a), UNCHANGED kept
  PROVE  CheckInv'
  BY PageFacts, DoneStep

LEMMA SignedInStep ==
  ASSUME CheckInv, NEW c \in wire, SignedIn(c)
  PROVE  CheckInv'
<1> DEFINE p == [app EXCEPT !.token = c.got.tok, !.user = c.got.user, !.usage = Nobody,
                            !.view = "dashboard"]
           g == [ui EXCEPT !.busy = ""]
<1>1. PICK a : Done(c, p, g, a)
  BY DEF SignedIn
<1>2. kept' = c.got.tok /\ c.got.user # NoUser
  BY AnswerFacts DEF SignedIn, Answered, Bringing
<1>3. Turns(p, Len(sessions), c.got.user, c.got.tok)
  BY PageFacts, AnswerFacts, AppSignedIn
<1>4. UiShape(g, Len(sessions))
  BY PageFacts, SetUi
<1> HIDE DEF p, g
<1> QED
  BY <1>1, <1>2, <1>3, <1>4, AnswerFacts, DoneStep DEF Turns

LEMMA IFPayCallbackStep ==
  ASSUME CheckInv, NEW c \in wire, IFPayCallback(c)
  PROVE  CheckInv'
<1> DEFINE p == [app EXCEPT !.token = c.got.tok, !.user = c.got.user, !.ifpay = TRUE,
                            !.view = "pricing"]
<1>1. PICK a : Done(c, p, ui, a)
  BY DEF IFPayCallback
<1>2. kept' = c.got.tok /\ c.got.user # NoUser
  BY AnswerFacts DEF IFPayCallback, Answered, Bringing
<1>3. Turns(p, Len(sessions), c.got.user, c.got.tok)
  BY PageFacts, AnswerFacts, AppReturned
<1> HIDE DEF p
<1> QED
  BY <1>1, <1>2, <1>3, PageFacts, AnswerFacts, DoneStep DEF Turns

LEMMA AuthAnsweredStep ==
  ASSUME CheckInv, NEW c \in wire, AuthAnswered(c)
  PROVE  CheckInv'
<1> DEFINE idle == [ui EXCEPT !.busy = ""]
           known == [of |-> c.arg, tok |-> c.got.tok]
<1>1. UiShape(idle, Len(sessions)) /\ UiShape(Resent, Len(sessions))
  BY PageFacts, SetUi DEF Resent
<1> HIDE DEF idle
<1>2. UiShape([idle EXCEPT !.pending = known, !.mode = "verify"], Len(sessions))
  BY <1>1, PageFacts, AnswerFacts, SetPendingMode DEF Modes
<1>3. UiShape([idle EXCEPT !.reset = c.arg, !.mode = "reset"], Len(sessions))
  BY <1>1, PageFacts, SetResetMode DEF Modes
<1>4. UiShape([idle EXCEPT !.reset = Nobody, !.mode = "login"], Len(sessions))
  BY <1>1, PageFacts, SetResetMode DEF Modes
<1>5. PICK g : /\ Done(c, app, g, astray)
               /\ \/ g = [idle EXCEPT !.pending = known, !.mode = "verify"]
                  \/ g = [idle EXCEPT !.reset = c.arg, !.mode = "reset"]
                  \/ g = [idle EXCEPT !.reset = Nobody, !.mode = "login"]
                  \/ g = Resent
  BY DEF AuthAnswered, Answered, idle
<1>6. UiShape(g, Len(sessions))
  BY <1>1, <1>2, <1>3, <1>4, <1>5
<1>7. c.kind # "load" /\ UNCHANGED kept
  BY DEF AuthAnswered, Answered
<1> QED
  BY <1>5, <1>6, <1>7, ViewStep

LEMMA OAuthStartedStep ==
  ASSUME CheckInv, NEW c \in wire, OAuthStarted(c)
  PROVE  CheckInv'
<1> DEFINE k == Ask("callback", 0, Nobody)
<1>1. CallShape(k, Len(sessions)) /\ CallTrue(k)
  BY PageFacts, AskShape DEF Signing
<1>2. Calls({k}, Len(sessions))
  BY <1>1 DEF Calls
<1> QED
  BY <1>2, ReopenStep DEF OAuthStarted

LEMMA LoadedStep ==
  ASSUME CheckInv, NEW c \in wire, Loaded(c)
  PROVE  CheckInv'
<1> DEFINE view == IF app.view \in {"landing", "auth"} THEN "dashboard" ELSE app.view
           p == [app EXCEPT !.user = c.got.user, !.usage = c.got.user.of, !.gallery = c.got.items,
                            !.view = view]
<1>1. CASE c.live
  <2>1. PICK a : Done(c, p, ui, a)
    BY <1>1 DEF Loaded
  <2>2. UNCHANGED kept /\ c.got.user # NoUser
    BY AnswerFacts DEF Loaded, Answered, Bringing
  <2> HIDE DEF view
  <2>3. Turns(p, Len(sessions), c.got.user, app.token)
    BY PageFacts, AppLoaded
  <2> HIDE DEF p
  <2> QED
    BY <2>1, <2>2, <2>3, PageFacts, DoneStep DEF Turns
<1>2. CASE ~c.live
  BY <1>2, PageFacts, ViewStep DEF Loaded
<1> QED
  BY <1>1, <1>2

LEMMA LoadFailedStep ==
  ASSUME CheckInv, NEW c \in wire, LoadFailed(c)
  PROVE  CheckInv'
<1> DEFINE p == [app EXCEPT !.token = 0]
<1>1. PICK a : Done(c, p, ui, a)
  BY DEF LoadFailed
<1>2. AppShape(p, Len(sessions)) /\ p.token = 0
  BY PageFacts, AppToken
<1>3. kept' = 0
  BY DEF LoadFailed
<1> HIDE DEF p
<1> QED
  BY <1>1, <1>2, <1>3, PageFacts, DoneStep

LEMMA MeAnsweredStep ==
  ASSUME CheckInv, NEW c \in wire, MeAnswered(c)
  PROVE  CheckInv'
<1> DEFINE p == [app EXCEPT !.user = c.got.user, !.usage = c.got.user.of]
<1>1. PICK a : Done(c, p, ui, a)
  BY DEF MeAnswered
<1>2. UNCHANGED kept /\ c.got.user # NoUser
  BY AnswerFacts DEF MeAnswered, Answered, Bringing
<1>3. Turns(p, Len(sessions), c.got.user, app.token)
  BY PageFacts, AppAccount
<1> HIDE DEF p
<1> QED
  BY <1>1, <1>2, <1>3, PageFacts, DoneStep DEF Turns

LEMMA ProfileSavedStep ==
  ASSUME CheckInv, NEW c \in wire, ProfileSaved(c)
  PROVE  CheckInv'
<1> DEFINE p == [app EXCEPT !.user = c.got.user]
<1>1. PICK a : Done(c, p, ui, a)
  BY DEF ProfileSaved
<1>2. UNCHANGED kept /\ c.got.user # NoUser
  BY AnswerFacts DEF ProfileSaved, Answered, Bringing
<1>3. Turns(p, Len(sessions), c.got.user, app.token)
  BY PageFacts DEF AppShape, Turns
<1> HIDE DEF p
<1> QED
  BY <1>1, <1>2, <1>3, PageFacts, DoneStep DEF Turns

\* Answers that change the gallery only
LEMMA GalleryStep ==
  ASSUME CheckInv, NEW c \in wire, ImagesAnswered(c) \/ DeleteAnswered(c) \/ ToggleAnswered(c)
  PROVE  CheckInv'
<1>1. UNCHANGED kept /\ c.kind # "load"
  BY DEF ImagesAnswered, DeleteAnswered, ToggleAnswered, Answered
<1>2. PICK x, y, a : Done(c, [app EXCEPT !.gallery = x], y, a)
                     /\ (y = ui \/ \E z : y = [ui EXCEPT !.selected = z])
  BY DEF ImagesAnswered, DeleteAnswered, ToggleAnswered
<1> DEFINE p == [app EXCEPT !.gallery = x]
<1>3. Turns(p, Len(sessions), app.user, app.token)
  BY PageFacts DEF AppShape, Turns
<1>4. UiShape(y, Len(sessions))
  <2>1. \A z : UiShape([ui EXCEPT !.selected = z], Len(sessions))
    BY PageFacts, SetUi
  <2> QED
    BY <1>2, <2>1, PageFacts
<1>5. Done(c, p, y, a)
  BY <1>2
<1> HIDE DEF p
<1> QED
  BY <1>1, <1>3, <1>4, <1>5, PageFacts, DoneStep DEF Turns

LEMMA UploadAnsweredStep ==
  ASSUME CheckInv, NEW c \in wire, UploadAnswered(c)
  PROVE  CheckInv'
<1> DEFINE d == [c EXCEPT !.at = "timer"]
           w == (wire \ {c}) \cup {d}
<1>1. Render(app, ui, w, astray, FALSE) /\ ByClient /\ UNCHANGED kept /\ c.kind = "upload"
  BY DEF UploadAnswered, Answered
<1>2. Becomes(c, d, Len(sessions))
  BY <1>1, SetTimer, PageFacts DEF Calls
<1> HIDE DEF d
<1>3. Calls(w, Len(sessions)) /\ Keeps(app, w)
  BY <1>1, <1>2, AnswerFacts, Checked0 DEF Calls, Becomes, Keeps, Checking
<1> HIDE DEF w
<1> QED
  BY <1>1, <1>3, PageFacts, PageStep

LEMMA UploadShownStep ==
  ASSUME CheckInv, NEW c \in wire, UploadShown(c)
  PROVE  CheckInv'
<1> DEFINE x == app.gallery \cup c.got.items
           p == [app EXCEPT !.gallery = x, !.view = "gallery"]
           w == (wire \ {c}) \cup {Ask("images", c.tok, Nobody), Ask("me", c.tok, Nobody)}
           g == Local(c, [ui EXCEPT !.busy = ""])
<1>1. PICK a : Render(p, g, w, a, FALSE) /\ ByClient /\ UNCHANGED kept
  BY DEF UploadShown
<1>2. c.kind = "upload" /\ c.tok # 0 /\ c.tok \in 0..Len(sessions)
  BY AnswerFacts DEF UploadShown
<1> HIDE DEF x
<1>3. Turns(p, Len(sessions), app.user, app.token)
  BY PageFacts, AppUploaded
<1>4. UiShape(g, Len(sessions))
  BY PageFacts, SetUi DEF Local
<1>5. Calls(w, Len(sessions))
  <2>1. /\ CallShape(Ask("images", c.tok, Nobody), Len(sessions)) /\ CallTrue(Ask("images", c.tok, Nobody))
        /\ CallShape(Ask("me", c.tok, Nobody), Len(sessions)) /\ CallTrue(Ask("me", c.tok, Nobody))
    BY <1>2, PageFacts, AskShape
  <2> QED
    BY <2>1, AnswerFacts DEF Calls
<1> HIDE DEF p, g
<1>6. Keeps(p, w)
  BY <1>2, <1>3, Checked0 DEF Keeps, Checking, Turns
<1> HIDE DEF w
<1> QED
  BY <1>1, <1>3, <1>4, <1>5, <1>6, PageFacts, PageStep DEF Turns

LEMMA CheckedOutStep ==
  ASSUME CheckInv, NEW c \in wire, CheckedOut(c)
  PROVE  CheckInv'
<1> DEFINE g == Local(c, [ui EXCEPT !.busy = ""])
           w == wire \ {c}
<1>1. Render(app, g, w, astray, TRUE) /\ ByClient /\ UNCHANGED kept /\ c.kind = "checkout"
  BY DEF CheckedOut, Answered
<1>2. UiShape(g, Len(sessions))
  BY PageFacts, SetUi DEF Local
<1>3. Calls(w, Len(sessions)) /\ Keeps(app, w)
  BY <1>1, AnswerFacts, Checked0 DEF Keeps, Checking
<1> HIDE DEF g, w
<1> QED
  BY <1>1, <1>2, <1>3, PageFacts, PageStep

LEMMA KeyWrittenStep ==
  ASSUME CheckInv, NEW c \in wire, KeyWritten(c)
  PROVE  CheckInv'
<1> DEFINE k == Ask("keys", c.tok, Nobody)
           d == [k EXCEPT !.live = c.live]
           w == (wire \ {c}) \cup {d}
<1>1. PICK a : Render(app, ui, w, a, FALSE) /\ ByClient /\ UNCHANGED kept
  BY DEF KeyWritten
<1>2. c.kind # "load"
  BY DEF KeyWritten, Answered
<1>3. CallShape(k, Len(sessions)) /\ CallTrue(k)
  BY PageFacts, AnswerFacts, AskShape DEF Signing
<1> HIDE DEF k
<1>4. CallShape(d, Len(sessions)) /\ CallTrue(d)
  BY <1>3, PageFacts, SetLive
<1> HIDE DEF d
<1>5. Calls(w, Len(sessions)) /\ Keeps(app, w)
  BY <1>2, <1>4, AnswerFacts, Checked0 DEF Calls, Keeps, Checking
<1> HIDE DEF w
<1> QED
  BY <1>1, <1>5, PageFacts, PageStep

LEMMA RowsStep ==
  ASSUME CheckInv, NEW c \in wire, OrdersAnswered(c) \/ KeysAnswered(c) \/ Imported(c)
  PROVE  CheckInv'
<1>1. UNCHANGED kept /\ c.kind # "load"
  BY DEF OrdersAnswered, KeysAnswered, Imported, Answered
<1>2. /\ UiShape([ui EXCEPT !.rows = c.got.rows, !.loading = FALSE], Len(sessions))
      /\ UiShape([ui EXCEPT !.rows = c.got.rows], Len(sessions))
      /\ UiShape(ui, Len(sessions))
  BY PageFacts, SetUi, SetRowsLoading
<1>3. PICK g, a : UiShape(g, Len(sessions)) /\ Done(c, app, g, a)
  BY <1>2 DEF OrdersAnswered, KeysAnswered, Imported
<1> QED
  BY <1>1, <1>3, ViewStep

LEMMA FailedStep ==
  ASSUME CheckInv, NEW c \in wire, Failed(c)
  PROVE  CheckInv'
<1>1. UNCHANGED kept /\ c.kind # "load"
  BY DEF Failed
<1>2. /\ UiShape([ui EXCEPT !.busy = ""], Len(sessions)) /\ UiShape(Resent, Len(sessions))
      /\ UiShape(ui, Len(sessions))
  BY PageFacts, SetUi DEF Resent
<1>3. PICK g : UiShape(g, Len(sessions)) /\ Done(c, app, g, astray)
  BY <1>2 DEF Failed
<1> QED
  BY <1>1, <1>3, ViewStep

LEMMA AnswerStep ==
  ASSUME CheckInv, NEW c \in wire, Answer(c)
  PROVE  CheckInv'
  BY SignedInStep, IFPayCallbackStep, AuthAnsweredStep, OAuthStartedStep, LoadedStep,
     LoadFailedStep, MeAnsweredStep, ProfileSavedStep, GalleryStep, UploadAnsweredStep,
     UploadShownStep, CheckedOutStep, KeyWrittenStep, RowsStep, FailedStep DEF Answer

-----------------------------------------------------------------------------
(* The theorem.                                                            *)

LEMMA ActStep ==
  ASSUME CheckInv, Act
  PROVE  CheckInv'
  BY MenuStep, LogoutStep, SelectStep, LocalStep, SubmitStep, ToggleStep, SendingStep, ReloadStep
     DEF Act

LEMMA InitChecked ==
  ASSUME Init
  PROVE  CheckInv
<1>1. sessions \in Seq(Accounts) /\ Len(sessions) = 0 /\ journey \in Journeys /\ kept = 0
  BY DEF Init
<1>2. AppShape(app, 0) /\ app.token = 0
  BY DEF Init, AppShape
<1>3. UiShape(ui, 0)
  BY MountedShape DEF Init
<1>4. Calls(wire, 0)
  BY DEF Init, Calls
<1> QED
  BY <1>1, <1>2, <1>3, <1>4 DEF CheckInv, Shapes, TokenIsChecked

LEMMA StutterChecked ==
  ASSUME CheckInv, UNCHANGED vars
  PROVE  CheckInv'
<1>1. /\ sessions' = sessions /\ journey' = journey /\ kept' = kept
      /\ app' = app /\ ui' = ui /\ wire' = wire
  BY DEF vars, server, bounds
<1> QED
  BY <1>1 DEF CheckInv, Shapes, TokenIsChecked

\* A page with a token and without a user always has a session check of that
\* token in flight that it still listens to, whoever signs in or out, and
\* whatever is late, lost or refused (the session effect and all that sets
\* its token).
THEOREM AlwaysChecked == Spec => []TokenIsChecked
<1>1. Init => CheckInv
  BY InitChecked
<1>2. CheckInv /\ [Next]_vars => CheckInv'
  BY ActStep, ServeStep, AnswerStep, StutterChecked DEF Next
<1>3. CheckInv => TokenIsChecked
  BY DEF CheckInv
<1> QED
  BY <1>1, <1>2, <1>3, PTL DEF Spec
-----------------------------------------------------------------------------
(* The fields of a state of App, of a view and of a call after a change.   *)

UiRec(mode, pending, reset, busy, resending, selected, rows, loading, alias) ==
  [mode |-> mode, pending |-> pending, reset |-> reset, busy |-> busy, resending |-> resending,
   selected |-> selected, rows |-> rows, loading |-> loading, alias |-> alias]

AppRec(view, user, usage, token, ifpay, gallery) ==
  [view |-> view, user |-> user, usage |-> usage, token |-> token, ifpay |-> ifpay, gallery |-> gallery]

IsUi(g) ==
  g = UiRec(g.mode, g.pending, g.reset, g.busy, g.resending, g.selected, g.rows, g.loading, g.alias)

IsApp(p) == p = AppRec(p.view, p.user, p.usage, p.token, p.ifpay, p.gallery)

LEMMA UiIs ==
  ASSUME NEW n, NEW g, UiShape(g, n)
  PROVE  IsUi(g)
  BY DEF UiShape, UiRec, IsUi

LEMMA AppIs ==
  ASSUME NEW n, NEW p, AppShape(p, n)
  PROVE  IsApp(p)
  BY DEF AppShape, AppRec, IsApp

LEMMA UiMode ==
  ASSUME NEW g, IsUi(g), NEW x
  PROVE  [g EXCEPT !.mode = x]
           = UiRec(x, g.pending, g.reset, g.busy, g.resending, g.selected, g.rows, g.loading, g.alias)
<1> DEFINE h1 == [g EXCEPT !.mode = x]
<1>0. [g EXCEPT !.mode = x] = h1
  OBVIOUS
<1>1. h1 = UiRec(x, g.pending, g.reset, g.busy, g.resending, g.selected, g.rows, g.loading, g.alias)
  BY DEF IsUi, UiRec
<1> HIDE DEF h1
<1>2. /\ h1.mode = x /\ h1.pending = g.pending /\ h1.reset = g.reset /\ h1.busy = g.busy
       /\ h1.resending = g.resending /\ h1.selected = g.selected /\ h1.rows = g.rows
       /\ h1.loading = g.loading /\ h1.alias = g.alias
  BY <1>1 DEF UiRec
<1>3. IsUi(h1)
  BY <1>1 DEF IsUi, UiRec
<1> QED
  BY <1>0, <1>2, <1>3, Zenon DEF IsUi

LEMMA UiBusy ==
  ASSUME NEW g, IsUi(g), NEW x
  PROVE  [g EXCEPT !.busy = x]
           = UiRec(g.mode, g.pending, g.reset, x, g.resending, g.selected, g.rows, g.loading, g.alias)
<1> DEFINE h1 == [g EXCEPT !.busy = x]
<1>0. [g EXCEPT !.busy = x] = h1
  OBVIOUS
<1>1. h1 = UiRec(g.mode, g.pending, g.reset, x, g.resending, g.selected, g.rows, g.loading, g.alias)
  BY DEF IsUi, UiRec
<1> HIDE DEF h1
<1>2. /\ h1.mode = g.mode /\ h1.pending = g.pending /\ h1.reset = g.reset /\ h1.busy = x
       /\ h1.resending = g.resending /\ h1.selected = g.selected /\ h1.rows = g.rows
       /\ h1.loading = g.loading /\ h1.alias = g.alias
  BY <1>1 DEF UiRec
<1>3. IsUi(h1)
  BY <1>1 DEF IsUi, UiRec
<1> QED
  BY <1>0, <1>2, <1>3, Zenon DEF IsUi

LEMMA UiResending ==
  ASSUME NEW g, IsUi(g), NEW x
  PROVE  [g EXCEPT !.resending = x]
           = UiRec(g.mode, g.pending, g.reset, g.busy, x, g.selected, g.rows, g.loading, g.alias)
<1> DEFINE h1 == [g EXCEPT !.resending = x]
<1>0. [g EXCEPT !.resending = x] = h1
  OBVIOUS
<1>1. h1 = UiRec(g.mode, g.pending, g.reset, g.busy, x, g.selected, g.rows, g.loading, g.alias)
  BY DEF IsUi, UiRec
<1> HIDE DEF h1
<1>2. /\ h1.mode = g.mode /\ h1.pending = g.pending /\ h1.reset = g.reset /\ h1.busy = g.busy
       /\ h1.resending = x /\ h1.selected = g.selected /\ h1.rows = g.rows /\ h1.loading = g.loading
       /\ h1.alias = g.alias
  BY <1>1 DEF UiRec
<1>3. IsUi(h1)
  BY <1>1 DEF IsUi, UiRec
<1> QED
  BY <1>0, <1>2, <1>3, Zenon DEF IsUi

LEMMA UiSelected ==
  ASSUME NEW g, IsUi(g), NEW x
  PROVE  [g EXCEPT !.selected = x]
           = UiRec(g.mode, g.pending, g.reset, g.busy, g.resending, x, g.rows, g.loading, g.alias)
<1> DEFINE h1 == [g EXCEPT !.selected = x]
<1>0. [g EXCEPT !.selected = x] = h1
  OBVIOUS
<1>1. h1 = UiRec(g.mode, g.pending, g.reset, g.busy, g.resending, x, g.rows, g.loading, g.alias)
  BY DEF IsUi, UiRec
<1> HIDE DEF h1
<1>2. /\ h1.mode = g.mode /\ h1.pending = g.pending /\ h1.reset = g.reset /\ h1.busy = g.busy
       /\ h1.resending = g.resending /\ h1.selected = x /\ h1.rows = g.rows
       /\ h1.loading = g.loading /\ h1.alias = g.alias
  BY <1>1 DEF UiRec
<1>3. IsUi(h1)
  BY <1>1 DEF IsUi, UiRec
<1> QED
  BY <1>0, <1>2, <1>3, Zenon DEF IsUi

LEMMA UiRows ==
  ASSUME NEW g, IsUi(g), NEW x
  PROVE  [g EXCEPT !.rows = x]
           = UiRec(g.mode, g.pending, g.reset, g.busy, g.resending, g.selected, x, g.loading, g.alias)
<1> DEFINE h1 == [g EXCEPT !.rows = x]
<1>0. [g EXCEPT !.rows = x] = h1
  OBVIOUS
<1>1. h1 = UiRec(g.mode, g.pending, g.reset, g.busy, g.resending, g.selected, x, g.loading, g.alias)
  BY DEF IsUi, UiRec
<1> HIDE DEF h1
<1>2. /\ h1.mode = g.mode /\ h1.pending = g.pending /\ h1.reset = g.reset /\ h1.busy = g.busy
       /\ h1.resending = g.resending /\ h1.selected = g.selected /\ h1.rows = x
       /\ h1.loading = g.loading /\ h1.alias = g.alias
  BY <1>1 DEF UiRec
<1>3. IsUi(h1)
  BY <1>1 DEF IsUi, UiRec
<1> QED
  BY <1>0, <1>2, <1>3, Zenon DEF IsUi

LEMMA UiLoading ==
  ASSUME NEW g, IsUi(g), NEW x
  PROVE  [g EXCEPT !.loading = x]
           = UiRec(g.mode, g.pending, g.reset, g.busy, g.resending, g.selected, g.rows, x, g.alias)
<1> DEFINE h1 == [g EXCEPT !.loading = x]
<1>0. [g EXCEPT !.loading = x] = h1
  OBVIOUS
<1>1. h1 = UiRec(g.mode, g.pending, g.reset, g.busy, g.resending, g.selected, g.rows, x, g.alias)
  BY DEF IsUi, UiRec
<1> HIDE DEF h1
<1>2. /\ h1.mode = g.mode /\ h1.pending = g.pending /\ h1.reset = g.reset /\ h1.busy = g.busy
       /\ h1.resending = g.resending /\ h1.selected = g.selected /\ h1.rows = g.rows
       /\ h1.loading = x /\ h1.alias = g.alias
  BY <1>1 DEF UiRec
<1>3. IsUi(h1)
  BY <1>1 DEF IsUi, UiRec
<1> QED
  BY <1>0, <1>2, <1>3, Zenon DEF IsUi

LEMMA UiAlias ==
  ASSUME NEW g, IsUi(g), NEW x
  PROVE  [g EXCEPT !.alias = x]
           = UiRec(g.mode, g.pending, g.reset, g.busy, g.resending, g.selected, g.rows, g.loading, x)
<1> DEFINE h1 == [g EXCEPT !.alias = x]
<1>0. [g EXCEPT !.alias = x] = h1
  OBVIOUS
<1>1. h1 = UiRec(g.mode, g.pending, g.reset, g.busy, g.resending, g.selected, g.rows, g.loading, x)
  BY DEF IsUi, UiRec
<1> HIDE DEF h1
<1>2. /\ h1.mode = g.mode /\ h1.pending = g.pending /\ h1.reset = g.reset /\ h1.busy = g.busy
       /\ h1.resending = g.resending /\ h1.selected = g.selected /\ h1.rows = g.rows
       /\ h1.loading = g.loading /\ h1.alias = x
  BY <1>1 DEF UiRec
<1>3. IsUi(h1)
  BY <1>1 DEF IsUi, UiRec
<1> QED
  BY <1>0, <1>2, <1>3, Zenon DEF IsUi

LEMMA UiRegistered ==
  ASSUME NEW g, IsUi(g), NEW x, NEW y
  PROVE  [g EXCEPT !.pending = x, !.mode = y]
           = UiRec(y, x, g.reset, g.busy, g.resending, g.selected, g.rows, g.loading, g.alias)
<1> DEFINE h1 == [g EXCEPT !.pending = x]
           h2 == [h1 EXCEPT !.mode = y]
<1>0. [g EXCEPT !.pending = x, !.mode = y] = h2
  OBVIOUS
<1>1. h1 = UiRec(g.mode, x, g.reset, g.busy, g.resending, g.selected, g.rows, g.loading, g.alias)
  BY DEF IsUi, UiRec
<1> HIDE DEF h1
<1>2. /\ h1.mode = g.mode /\ h1.pending = x /\ h1.reset = g.reset /\ h1.busy = g.busy
       /\ h1.resending = g.resending /\ h1.selected = g.selected /\ h1.rows = g.rows
       /\ h1.loading = g.loading /\ h1.alias = g.alias
  BY <1>1 DEF UiRec
<1>3. IsUi(h1)
  BY <1>1 DEF IsUi, UiRec
<1>4. h2 = UiRec(y, h1.pending, h1.reset, h1.busy, h1.resending, h1.selected, h1.rows, h1.loading, h1.alias)
  BY <1>3 DEF IsUi, UiRec
<1> HIDE DEF h2
<1>5. /\ h2.mode = y /\ h2.pending = x /\ h2.reset = g.reset /\ h2.busy = g.busy
       /\ h2.resending = g.resending /\ h2.selected = g.selected /\ h2.rows = g.rows
       /\ h2.loading = g.loading /\ h2.alias = g.alias
  BY <1>4, <1>2 DEF UiRec
<1>6. IsUi(h2)
  BY <1>4 DEF IsUi, UiRec
<1> QED
  BY <1>0, <1>5, <1>6, Zenon DEF IsUi

LEMMA UiReset ==
  ASSUME NEW g, IsUi(g), NEW x, NEW y
  PROVE  [g EXCEPT !.reset = x, !.mode = y]
           = UiRec(y, g.pending, x, g.busy, g.resending, g.selected, g.rows, g.loading, g.alias)
<1> DEFINE h1 == [g EXCEPT !.reset = x]
           h2 == [h1 EXCEPT !.mode = y]
<1>0. [g EXCEPT !.reset = x, !.mode = y] = h2
  OBVIOUS
<1>1. h1 = UiRec(g.mode, g.pending, x, g.busy, g.resending, g.selected, g.rows, g.loading, g.alias)
  BY DEF IsUi, UiRec
<1> HIDE DEF h1
<1>2. /\ h1.mode = g.mode /\ h1.pending = g.pending /\ h1.reset = x /\ h1.busy = g.busy
       /\ h1.resending = g.resending /\ h1.selected = g.selected /\ h1.rows = g.rows
       /\ h1.loading = g.loading /\ h1.alias = g.alias
  BY <1>1 DEF UiRec
<1>3. IsUi(h1)
  BY <1>1 DEF IsUi, UiRec
<1>4. h2 = UiRec(y, h1.pending, h1.reset, h1.busy, h1.resending, h1.selected, h1.rows, h1.loading, h1.alias)
  BY <1>3 DEF IsUi, UiRec
<1> HIDE DEF h2
<1>5. /\ h2.mode = y /\ h2.pending = g.pending /\ h2.reset = x /\ h2.busy = g.busy
       /\ h2.resending = g.resending /\ h2.selected = g.selected /\ h2.rows = g.rows
       /\ h2.loading = g.loading /\ h2.alias = g.alias
  BY <1>4, <1>2 DEF UiRec
<1>6. IsUi(h2)
  BY <1>4 DEF IsUi, UiRec
<1> QED
  BY <1>0, <1>5, <1>6, Zenon DEF IsUi

LEMMA UiListed ==
  ASSUME NEW g, IsUi(g), NEW x, NEW y
  PROVE  [g EXCEPT !.rows = x, !.loading = y]
           = UiRec(g.mode, g.pending, g.reset, g.busy, g.resending, g.selected, x, y, g.alias)
<1> DEFINE h1 == [g EXCEPT !.rows = x]
           h2 == [h1 EXCEPT !.loading = y]
<1>0. [g EXCEPT !.rows = x, !.loading = y] = h2
  OBVIOUS
<1>1. h1 = UiRec(g.mode, g.pending, g.reset, g.busy, g.resending, g.selected, x, g.loading, g.alias)
  BY DEF IsUi, UiRec
<1> HIDE DEF h1
<1>2. /\ h1.mode = g.mode /\ h1.pending = g.pending /\ h1.reset = g.reset /\ h1.busy = g.busy
       /\ h1.resending = g.resending /\ h1.selected = g.selected /\ h1.rows = x
       /\ h1.loading = g.loading /\ h1.alias = g.alias
  BY <1>1 DEF UiRec
<1>3. IsUi(h1)
  BY <1>1 DEF IsUi, UiRec
<1>4. h2 = UiRec(h1.mode, h1.pending, h1.reset, h1.busy, h1.resending, h1.selected, h1.rows, y, h1.alias)
  BY <1>3 DEF IsUi, UiRec
<1> HIDE DEF h2
<1>5. /\ h2.mode = g.mode /\ h2.pending = g.pending /\ h2.reset = g.reset /\ h2.busy = g.busy
       /\ h2.resending = g.resending /\ h2.selected = g.selected /\ h2.rows = x /\ h2.loading = y
       /\ h2.alias = g.alias
  BY <1>4, <1>2 DEF UiRec
<1>6. IsUi(h2)
  BY <1>4 DEF IsUi, UiRec
<1> QED
  BY <1>0, <1>5, <1>6, Zenon DEF IsUi

\* What Render makes of a view that stays
UiView(g, x, y, z) == [g EXCEPT !.loading = x, !.rows = y, !.alias = z]

LEMMA UiRendered ==
  ASSUME NEW g, IsUi(g), NEW x, NEW y, NEW z
  PROVE  UiView(g, x, y, z)
           = UiRec(g.mode, g.pending, g.reset, g.busy, g.resending, g.selected, y, x, z)
<1> DEFINE h1 == [g EXCEPT !.loading = x]
           h2 == [h1 EXCEPT !.rows = y]
           h3 == [h2 EXCEPT !.alias = z]
<1>0. UiView(g, x, y, z) = h3
  BY DEF UiView
<1>1. h1 = UiRec(g.mode, g.pending, g.reset, g.busy, g.resending, g.selected, g.rows, x, g.alias)
  BY DEF IsUi, UiRec
<1> HIDE DEF h1
<1>2. /\ h1.mode = g.mode /\ h1.pending = g.pending /\ h1.reset = g.reset /\ h1.busy = g.busy
       /\ h1.resending = g.resending /\ h1.selected = g.selected /\ h1.rows = g.rows
       /\ h1.loading = x /\ h1.alias = g.alias
  BY <1>1 DEF UiRec
<1>3. IsUi(h1)
  BY <1>1 DEF IsUi, UiRec
<1>4. h2 = UiRec(h1.mode, h1.pending, h1.reset, h1.busy, h1.resending, h1.selected, y, h1.loading, h1.alias)
  BY <1>3 DEF IsUi, UiRec
<1> HIDE DEF h2
<1>5. /\ h2.mode = g.mode /\ h2.pending = g.pending /\ h2.reset = g.reset /\ h2.busy = g.busy
       /\ h2.resending = g.resending /\ h2.selected = g.selected /\ h2.rows = y /\ h2.loading = x
       /\ h2.alias = g.alias
  BY <1>4, <1>2 DEF UiRec
<1>6. IsUi(h2)
  BY <1>4 DEF IsUi, UiRec
<1>7. h3 = UiRec(h2.mode, h2.pending, h2.reset, h2.busy, h2.resending, h2.selected, h2.rows, h2.loading, z)
  BY <1>6 DEF IsUi, UiRec
<1> HIDE DEF h3
<1>8. /\ h3.mode = g.mode /\ h3.pending = g.pending /\ h3.reset = g.reset /\ h3.busy = g.busy
       /\ h3.resending = g.resending /\ h3.selected = g.selected /\ h3.rows = y /\ h3.loading = x
       /\ h3.alias = z
  BY <1>7, <1>5 DEF UiRec
<1>9. IsUi(h3)
  BY <1>7 DEF IsUi, UiRec
<1> QED
  BY <1>0, <1>8, <1>9, Zenon DEF IsUi

LEMMA AppShown ==
  ASSUME NEW p, IsApp(p), NEW v
  PROVE  [p EXCEPT !.view = v]
           = AppRec(v, p.user, p.usage, p.token, p.ifpay, p.gallery)
<1> DEFINE h1 == [p EXCEPT !.view = v]
<1>0. [p EXCEPT !.view = v] = h1
  OBVIOUS
<1>1. h1 = AppRec(v, p.user, p.usage, p.token, p.ifpay, p.gallery)
  BY DEF IsApp, AppRec
<1> HIDE DEF h1
<1>2. /\ h1.view = v /\ h1.user = p.user /\ h1.usage = p.usage /\ h1.token = p.token
       /\ h1.ifpay = p.ifpay /\ h1.gallery = p.gallery
  BY <1>1 DEF AppRec
<1>3. IsApp(h1)
  BY <1>1 DEF IsApp, AppRec
<1> QED
  BY <1>0, <1>2, <1>3, Zenon DEF IsApp

LEMMA AppEnded ==
  ASSUME NEW p, IsApp(p), NEW t
  PROVE  [p EXCEPT !.token = t]
           = AppRec(p.view, p.user, p.usage, t, p.ifpay, p.gallery)
<1> DEFINE h1 == [p EXCEPT !.token = t]
<1>0. [p EXCEPT !.token = t] = h1
  OBVIOUS
<1>1. h1 = AppRec(p.view, p.user, p.usage, t, p.ifpay, p.gallery)
  BY DEF IsApp, AppRec
<1> HIDE DEF h1
<1>2. /\ h1.view = p.view /\ h1.user = p.user /\ h1.usage = p.usage /\ h1.token = t
       /\ h1.ifpay = p.ifpay /\ h1.gallery = p.gallery
  BY <1>1 DEF AppRec
<1>3. IsApp(h1)
  BY <1>1 DEF IsApp, AppRec
<1> QED
  BY <1>0, <1>2, <1>3, Zenon DEF IsApp

LEMMA AppSaved ==
  ASSUME NEW p, IsApp(p), NEW u
  PROVE  [p EXCEPT !.user = u]
           = AppRec(p.view, u, p.usage, p.token, p.ifpay, p.gallery)
<1> DEFINE h1 == [p EXCEPT !.user = u]
<1>0. [p EXCEPT !.user = u] = h1
  OBVIOUS
<1>1. h1 = AppRec(p.view, u, p.usage, p.token, p.ifpay, p.gallery)
  BY DEF IsApp, AppRec
<1> HIDE DEF h1
<1>2. /\ h1.view = p.view /\ h1.user = u /\ h1.usage = p.usage /\ h1.token = p.token
       /\ h1.ifpay = p.ifpay /\ h1.gallery = p.gallery
  BY <1>1 DEF AppRec
<1>3. IsApp(h1)
  BY <1>1 DEF IsApp, AppRec
<1> QED
  BY <1>0, <1>2, <1>3, Zenon DEF IsApp

LEMMA AppListed ==
  ASSUME NEW p, IsApp(p), NEW s
  PROVE  [p EXCEPT !.gallery = s]
           = AppRec(p.view, p.user, p.usage, p.token, p.ifpay, s)
<1> DEFINE h1 == [p EXCEPT !.gallery = s]
<1>0. [p EXCEPT !.gallery = s] = h1
  OBVIOUS
<1>1. h1 = AppRec(p.view, p.user, p.usage, p.token, p.ifpay, s)
  BY DEF IsApp, AppRec
<1> HIDE DEF h1
<1>2. /\ h1.view = p.view /\ h1.user = p.user /\ h1.usage = p.usage /\ h1.token = p.token
       /\ h1.ifpay = p.ifpay /\ h1.gallery = s
  BY <1>1 DEF AppRec
<1>3. IsApp(h1)
  BY <1>1 DEF IsApp, AppRec
<1> QED
  BY <1>0, <1>2, <1>3, Zenon DEF IsApp

LEMMA AppMe ==
  ASSUME NEW p, IsApp(p), NEW u, NEW x
  PROVE  [p EXCEPT !.user = u, !.usage = x]
           = AppRec(p.view, u, x, p.token, p.ifpay, p.gallery)
<1> DEFINE h1 == [p EXCEPT !.user = u]
           h2 == [h1 EXCEPT !.usage = x]
<1>0. [p EXCEPT !.user = u, !.usage = x] = h2
  OBVIOUS
<1>1. h1 = AppRec(p.view, u, p.usage, p.token, p.ifpay, p.gallery)
  BY DEF IsApp, AppRec
<1> HIDE DEF h1
<1>2. /\ h1.view = p.view /\ h1.user = u /\ h1.usage = p.usage /\ h1.token = p.token
       /\ h1.ifpay = p.ifpay /\ h1.gallery = p.gallery
  BY <1>1 DEF AppRec
<1>3. IsApp(h1)
  BY <1>1 DEF IsApp, AppRec
<1>4. h2 = AppRec(h1.view, h1.user, x, h1.token, h1.ifpay, h1.gallery)
  BY <1>3 DEF IsApp, AppRec
<1> HIDE DEF h2
<1>5. /\ h2.view = p.view /\ h2.user = u /\ h2.usage = x /\ h2.token = p.token
       /\ h2.ifpay = p.ifpay /\ h2.gallery = p.gallery
  BY <1>4, <1>2 DEF AppRec
<1>6. IsApp(h2)
  BY <1>4 DEF IsApp, AppRec
<1> QED
  BY <1>0, <1>5, <1>6, Zenon DEF IsApp

LEMMA AppAdded ==
  ASSUME NEW p, IsApp(p), NEW s, NEW v
  PROVE  [p EXCEPT !.gallery = s, !.view = v]
           = AppRec(v, p.user, p.usage, p.token, p.ifpay, s)
<1> DEFINE h1 == [p EXCEPT !.gallery = s]
           h2 == [h1 EXCEPT !.view = v]
<1>0. [p EXCEPT !.gallery = s, !.view = v] = h2
  OBVIOUS
<1>1. h1 = AppRec(p.view, p.user, p.usage, p.token, p.ifpay, s)
  BY DEF IsApp, AppRec
<1> HIDE DEF h1
<1>2. /\ h1.view = p.view /\ h1.user = p.user /\ h1.usage = p.usage /\ h1.token = p.token
       /\ h1.ifpay = p.ifpay /\ h1.gallery = s
  BY <1>1 DEF AppRec
<1>3. IsApp(h1)
  BY <1>1 DEF IsApp, AppRec
<1>4. h2 = AppRec(v, h1.user, h1.usage, h1.token, h1.ifpay, h1.gallery)
  BY <1>3 DEF IsApp, AppRec
<1> HIDE DEF h2
<1>5. /\ h2.view = v /\ h2.user = p.user /\ h2.usage = p.usage /\ h2.token = p.token
       /\ h2.ifpay = p.ifpay /\ h2.gallery = s
  BY <1>4, <1>2 DEF AppRec
<1>6. IsApp(h2)
  BY <1>4 DEF IsApp, AppRec
<1> QED
  BY <1>0, <1>5, <1>6, Zenon DEF IsApp

\* App after a sign-in, a return from IF-Pay, a session check and a sign-out
AtLogin(p, t, u, x, v) == [p EXCEPT !.token = t, !.user = u, !.usage = x, !.view = v]

LEMMA AppLogin ==
  ASSUME NEW p, IsApp(p), NEW t, NEW u, NEW x, NEW v
  PROVE  AtLogin(p, t, u, x, v)
           = AppRec(v, u, x, t, p.ifpay, p.gallery)
<1> DEFINE h1 == [p EXCEPT !.token = t]
           h2 == [h1 EXCEPT !.user = u]
           h3 == [h2 EXCEPT !.usage = x]
           h4 == [h3 EXCEPT !.view = v]
<1>0. AtLogin(p, t, u, x, v) = h4
  BY DEF AtLogin
<1>1. h1 = AppRec(p.view, p.user, p.usage, t, p.ifpay, p.gallery)
  BY DEF IsApp, AppRec
<1> HIDE DEF h1
<1>2. /\ h1.view = p.view /\ h1.user = p.user /\ h1.usage = p.usage /\ h1.token = t
       /\ h1.ifpay = p.ifpay /\ h1.gallery = p.gallery
  BY <1>1 DEF AppRec
<1>3. IsApp(h1)
  BY <1>1 DEF IsApp, AppRec
<1>4. h2 = AppRec(h1.view, u, h1.usage, h1.token, h1.ifpay, h1.gallery)
  BY <1>3 DEF IsApp, AppRec
<1> HIDE DEF h2
<1>5. /\ h2.view = p.view /\ h2.user = u /\ h2.usage = p.usage /\ h2.token = t
       /\ h2.ifpay = p.ifpay /\ h2.gallery = p.gallery
  BY <1>4, <1>2 DEF AppRec
<1>6. IsApp(h2)
  BY <1>4 DEF IsApp, AppRec
<1>7. h3 = AppRec(h2.view, h2.user, x, h2.token, h2.ifpay, h2.gallery)
  BY <1>6 DEF IsApp, AppRec
<1> HIDE DEF h3
<1>8. /\ h3.view = p.view /\ h3.user = u /\ h3.usage = x /\ h3.token = t /\ h3.ifpay = p.ifpay
       /\ h3.gallery = p.gallery
  BY <1>7, <1>5 DEF AppRec
<1>9. IsApp(h3)
  BY <1>7 DEF IsApp, AppRec
<1>10. h4 = AppRec(v, h3.user, h3.usage, h3.token, h3.ifpay, h3.gallery)
  BY <1>9 DEF IsApp, AppRec
<1> HIDE DEF h4
<1>11. /\ h4.view = v /\ h4.user = u /\ h4.usage = x /\ h4.token = t /\ h4.ifpay = p.ifpay
       /\ h4.gallery = p.gallery
  BY <1>10, <1>8 DEF AppRec
<1>12. IsApp(h4)
  BY <1>10 DEF IsApp, AppRec
<1> QED
  BY <1>0, <1>11, <1>12, Zenon DEF IsApp

AtCallback(p, t, u, y, v) == [p EXCEPT !.token = t, !.user = u, !.ifpay = y, !.view = v]

LEMMA AppCallback ==
  ASSUME NEW p, IsApp(p), NEW t, NEW u, NEW y, NEW v
  PROVE  AtCallback(p, t, u, y, v)
           = AppRec(v, u, p.usage, t, y, p.gallery)
<1> DEFINE h1 == [p EXCEPT !.token = t]
           h2 == [h1 EXCEPT !.user = u]
           h3 == [h2 EXCEPT !.ifpay = y]
           h4 == [h3 EXCEPT !.view = v]
<1>0. AtCallback(p, t, u, y, v) = h4
  BY DEF AtCallback
<1>1. h1 = AppRec(p.view, p.user, p.usage, t, p.ifpay, p.gallery)
  BY DEF IsApp, AppRec
<1> HIDE DEF h1
<1>2. /\ h1.view = p.view /\ h1.user = p.user /\ h1.usage = p.usage /\ h1.token = t
       /\ h1.ifpay = p.ifpay /\ h1.gallery = p.gallery
  BY <1>1 DEF AppRec
<1>3. IsApp(h1)
  BY <1>1 DEF IsApp, AppRec
<1>4. h2 = AppRec(h1.view, u, h1.usage, h1.token, h1.ifpay, h1.gallery)
  BY <1>3 DEF IsApp, AppRec
<1> HIDE DEF h2
<1>5. /\ h2.view = p.view /\ h2.user = u /\ h2.usage = p.usage /\ h2.token = t
       /\ h2.ifpay = p.ifpay /\ h2.gallery = p.gallery
  BY <1>4, <1>2 DEF AppRec
<1>6. IsApp(h2)
  BY <1>4 DEF IsApp, AppRec
<1>7. h3 = AppRec(h2.view, h2.user, h2.usage, h2.token, y, h2.gallery)
  BY <1>6 DEF IsApp, AppRec
<1> HIDE DEF h3
<1>8. /\ h3.view = p.view /\ h3.user = u /\ h3.usage = p.usage /\ h3.token = t /\ h3.ifpay = y
       /\ h3.gallery = p.gallery
  BY <1>7, <1>5 DEF AppRec
<1>9. IsApp(h3)
  BY <1>7 DEF IsApp, AppRec
<1>10. h4 = AppRec(v, h3.user, h3.usage, h3.token, h3.ifpay, h3.gallery)
  BY <1>9 DEF IsApp, AppRec
<1> HIDE DEF h4
<1>11. /\ h4.view = v /\ h4.user = u /\ h4.usage = p.usage /\ h4.token = t /\ h4.ifpay = y
       /\ h4.gallery = p.gallery
  BY <1>10, <1>8 DEF AppRec
<1>12. IsApp(h4)
  BY <1>10 DEF IsApp, AppRec
<1> QED
  BY <1>0, <1>11, <1>12, Zenon DEF IsApp

AtLoad(p, u, x, s, v) == [p EXCEPT !.user = u, !.usage = x, !.gallery = s, !.view = v]

LEMMA AppLoad ==
  ASSUME NEW p, IsApp(p), NEW u, NEW x, NEW s, NEW v
  PROVE  AtLoad(p, u, x, s, v)
           = AppRec(v, u, x, p.token, p.ifpay, s)
<1> DEFINE h1 == [p EXCEPT !.user = u]
           h2 == [h1 EXCEPT !.usage = x]
           h3 == [h2 EXCEPT !.gallery = s]
           h4 == [h3 EXCEPT !.view = v]
<1>0. AtLoad(p, u, x, s, v) = h4
  BY DEF AtLoad
<1>1. h1 = AppRec(p.view, u, p.usage, p.token, p.ifpay, p.gallery)
  BY DEF IsApp, AppRec
<1> HIDE DEF h1
<1>2. /\ h1.view = p.view /\ h1.user = u /\ h1.usage = p.usage /\ h1.token = p.token
       /\ h1.ifpay = p.ifpay /\ h1.gallery = p.gallery
  BY <1>1 DEF AppRec
<1>3. IsApp(h1)
  BY <1>1 DEF IsApp, AppRec
<1>4. h2 = AppRec(h1.view, h1.user, x, h1.token, h1.ifpay, h1.gallery)
  BY <1>3 DEF IsApp, AppRec
<1> HIDE DEF h2
<1>5. /\ h2.view = p.view /\ h2.user = u /\ h2.usage = x /\ h2.token = p.token
       /\ h2.ifpay = p.ifpay /\ h2.gallery = p.gallery
  BY <1>4, <1>2 DEF AppRec
<1>6. IsApp(h2)
  BY <1>4 DEF IsApp, AppRec
<1>7. h3 = AppRec(h2.view, h2.user, h2.usage, h2.token, h2.ifpay, s)
  BY <1>6 DEF IsApp, AppRec
<1> HIDE DEF h3
<1>8. /\ h3.view = p.view /\ h3.user = u /\ h3.usage = x /\ h3.token = p.token
       /\ h3.ifpay = p.ifpay /\ h3.gallery = s
  BY <1>7, <1>5 DEF AppRec
<1>9. IsApp(h3)
  BY <1>7 DEF IsApp, AppRec
<1>10. h4 = AppRec(v, h3.user, h3.usage, h3.token, h3.ifpay, h3.gallery)
  BY <1>9 DEF IsApp, AppRec
<1> HIDE DEF h4
<1>11. /\ h4.view = v /\ h4.user = u /\ h4.usage = x /\ h4.token = p.token /\ h4.ifpay = p.ifpay
       /\ h4.gallery = s
  BY <1>10, <1>8 DEF AppRec
<1>12. IsApp(h4)
  BY <1>10 DEF IsApp, AppRec
<1> QED
  BY <1>0, <1>11, <1>12, Zenon DEF IsApp

AtLogout(p, u, x, t, y, v) == [p EXCEPT !.user = u, !.usage = x, !.token = t, !.ifpay = y, !.view = v]

LEMMA AppLogout ==
  ASSUME NEW p, IsApp(p), NEW u, NEW x, NEW t, NEW y, NEW v
  PROVE  AtLogout(p, u, x, t, y, v)
           = AppRec(v, u, x, t, y, p.gallery)
<1> DEFINE h1 == [p EXCEPT !.user = u]
           h2 == [h1 EXCEPT !.usage = x]
           h3 == [h2 EXCEPT !.token = t]
           h4 == [h3 EXCEPT !.ifpay = y]
           h5 == [h4 EXCEPT !.view = v]
<1>0. AtLogout(p, u, x, t, y, v) = h5
  BY DEF AtLogout
<1>1. h1 = AppRec(p.view, u, p.usage, p.token, p.ifpay, p.gallery)
  BY DEF IsApp, AppRec
<1> HIDE DEF h1
<1>2. /\ h1.view = p.view /\ h1.user = u /\ h1.usage = p.usage /\ h1.token = p.token
       /\ h1.ifpay = p.ifpay /\ h1.gallery = p.gallery
  BY <1>1 DEF AppRec
<1>3. IsApp(h1)
  BY <1>1 DEF IsApp, AppRec
<1>4. h2 = AppRec(h1.view, h1.user, x, h1.token, h1.ifpay, h1.gallery)
  BY <1>3 DEF IsApp, AppRec
<1> HIDE DEF h2
<1>5. /\ h2.view = p.view /\ h2.user = u /\ h2.usage = x /\ h2.token = p.token
       /\ h2.ifpay = p.ifpay /\ h2.gallery = p.gallery
  BY <1>4, <1>2 DEF AppRec
<1>6. IsApp(h2)
  BY <1>4 DEF IsApp, AppRec
<1>7. h3 = AppRec(h2.view, h2.user, h2.usage, t, h2.ifpay, h2.gallery)
  BY <1>6 DEF IsApp, AppRec
<1> HIDE DEF h3
<1>8. /\ h3.view = p.view /\ h3.user = u /\ h3.usage = x /\ h3.token = t /\ h3.ifpay = p.ifpay
       /\ h3.gallery = p.gallery
  BY <1>7, <1>5 DEF AppRec
<1>9. IsApp(h3)
  BY <1>7 DEF IsApp, AppRec
<1>10. h4 = AppRec(h3.view, h3.user, h3.usage, h3.token, y, h3.gallery)
  BY <1>9 DEF IsApp, AppRec
<1> HIDE DEF h4
<1>11. /\ h4.view = p.view /\ h4.user = u /\ h4.usage = x /\ h4.token = t /\ h4.ifpay = y
       /\ h4.gallery = p.gallery
  BY <1>10, <1>8 DEF AppRec
<1>12. IsApp(h4)
  BY <1>10 DEF IsApp, AppRec
<1>13. h5 = AppRec(v, h4.user, h4.usage, h4.token, h4.ifpay, h4.gallery)
  BY <1>12 DEF IsApp, AppRec
<1> HIDE DEF h5
<1>14. /\ h5.view = v /\ h5.user = u /\ h5.usage = x /\ h5.token = t /\ h5.ifpay = y
       /\ h5.gallery = p.gallery
  BY <1>13, <1>11 DEF AppRec
<1>15. IsApp(h5)
  BY <1>13 DEF IsApp, AppRec
<1> QED
  BY <1>0, <1>14, <1>15, Zenon DEF IsApp

\* Call d is call c, but for whether it is stale and whether it is listened to.
Kin(c, d) ==
  d.kind = c.kind /\ d.tok = c.tok /\ d.arg = c.arg /\ d.want = c.want /\ d.at = c.at /\ d.got = c.got

LEMMA SetLiveKin ==
  ASSUME NEW n, NEW c, CallShape(c, n), NEW b
  PROVE  Kin(c, [c EXCEPT !.live = b]) /\ [c EXCEPT !.live = b].live = b
         /\ [c EXCEPT !.live = b].stale = c.stale
  BY DEF CallShape, Kin

LEMMA SetStaleKin ==
  ASSUME NEW n, NEW c, CallShape(c, n), NEW b
  PROVE  Kin(c, [c EXCEPT !.stale = b]) /\ [c EXCEPT !.stale = b].live = c.live
         /\ [c EXCEPT !.stale = b].stale = b
  BY DEF CallShape, Kin

LEMMA SetAtKin ==
  ASSUME NEW n, NEW c, CallShape(c, n), NEW b
  PROVE  LET d == [c EXCEPT !.at = b]
         IN /\ d.kind = c.kind /\ d.tok = c.tok /\ d.arg = c.arg /\ d.want = c.want /\ d.live = c.live
            /\ d.stale = c.stale /\ d.at = b /\ d.got = c.got
  BY DEF CallShape

LEMMA SetOkKin ==
  ASSUME NEW n, NEW c, CallShape(c, n), NEW x
  PROVE  LET d == [c EXCEPT !.at = "ok", !.got = x]
         IN /\ d.kind = c.kind /\ d.tok = c.tok /\ d.arg = c.arg /\ d.want = c.want /\ d.live = c.live
            /\ d.stale = c.stale /\ d.at = "ok" /\ d.got = x
  BY DEF CallShape

LEMMA AskFields ==
  ASSUME NEW kind, NEW tok, NEW arg
  PROVE  LET c == Ask(kind, tok, arg)
         IN /\ c.kind = kind /\ c.tok = tok /\ c.arg = arg /\ c.want = FALSE /\ c.live = TRUE
            /\ c.stale = FALSE /\ c.at = "sent" /\ c.got = NoAnswer
  BY DEF Ask

LEMMA CleanedKin ==
  ASSUME NEW n, NEW c, CallShape(c, n), NEW moved, NEW fresh, NEW again
  PROVE  LET d == Cleaned(c, moved, fresh, again)
         IN /\ Kin(c, d) /\ d.stale = c.stale
            /\ d.live <=> /\ c.live /\ ~(moved /\ c.kind \notin AppOnly)
                          /\ ~(fresh /\ c.kind = "load") /\ ~((fresh \/ again) /\ c.kind = "orders")
<1> DEFINE b == /\ c.live /\ ~(moved /\ c.kind \notin AppOnly)
                /\ ~(fresh /\ c.kind = "load") /\ ~((fresh \/ again) /\ c.kind = "orders")
           d == [c EXCEPT !.live = b]
<1>1. Cleaned(c, moved, fresh, again) = d
  BY DEF Cleaned
<1> HIDE DEF b
<1>2. Kin(c, d) /\ d.live = b /\ d.stale = c.stale
  BY SetLiveKin
<1> QED
  BY <1>1, <1>2 DEF b

-----------------------------------------------------------------------------
(* What waits has its call.                                                *)

\* The calls that the buttons of a view wait for
Waited(s) ==
  CASE s = "auth" -> {"login", "register", "verify", "resend", "forgot", "reset", "oauth"}
    [] s = "upload" -> {"upload"}
    [] s = "pricing" -> {"oauth", "checkout"}
    [] OTHER -> {}

\* State g of the view on screen s waits for calls in w only.
Awaits(g, w, s) ==
  /\ g.busy # "" => \E c \in w : c.live /\ c.kind \in Waited(s)
  /\ g.resending => s # "auth" /\ \E c \in w : c.live /\ c.kind = "resend"
  /\ g.loading => s = "pricing" /\ \E c \in w : c.live /\ c.kind \in {"orders", "reorders"}

SpinInv == CheckInv /\ Awaits(ui, wire, Screen(app))

LEMMA WaitedKinds ==
  ASSUME NEW s
  PROVE  "load" \notin Waited(s) /\ "orders" \notin Waited(s)
         /\ Waited(s) \subseteq {"login", "register", "verify", "resend", "forgot", "reset", "oauth",
                                 "upload", "checkout"}
  BY DEF Waited

LEMMA RenderUi ==
  ASSUME NEW n, NEW p, NEW g, NEW w, NEW a, NEW again, UiShape(g, n), Render(p, g, w, a, again)
  PROVE  LET moved == Screen(p) # Screen(app)
             reads == Screen(p) = "pricing" /\ (moved \/ p.token # app.token \/ again)
         IN /\ moved => ui' = Mounted(p)
            /\ ~moved => /\ ui'.busy = g.busy /\ ui'.resending = g.resending
                         /\ ui'.selected = g.selected /\ ui'.pending = g.pending
                         /\ ui'.loading = (IF reads THEN p.token # 0 ELSE g.loading)
                         /\ ui'.rows = (IF reads /\ p.token = 0 THEN NoRows ELSE g.rows)
                         /\ ui'.alias = (IF Screen(p) = "settings" /\ p.user.name # app.user.name
                                         THEN p.user.name ELSE g.alias)
<1> DEFINE moved == Screen(p) # Screen(app)
           reads == Screen(p) = "pricing" /\ (moved \/ p.token # app.token \/ again)
<1>1. PICK x, y, z :
        /\ x = (IF reads THEN p.token # 0 ELSE g.loading)
        /\ y = (IF reads /\ p.token = 0 THEN NoRows ELSE g.rows)
        /\ z = (IF Screen(p) = "settings" /\ p.user.name # app.user.name THEN p.user.name ELSE g.alias)
        /\ ui' = IF moved THEN Mounted(p) ELSE [g EXCEPT !.loading = x, !.rows = y, !.alias = z]
  BY Zenon DEF Render
<1>2. IsUi(g)
  BY UiIs
<1> HIDE DEF moved, reads
<1>3. moved => ui' = Mounted(p)
  BY <1>1
<1>4. ASSUME ~moved
      PROVE  /\ ui'.busy = g.busy /\ ui'.resending = g.resending /\ ui'.selected = g.selected
             /\ ui'.pending = g.pending /\ ui'.loading = x /\ ui'.rows = y /\ ui'.alias = z
  <2>1. ui' = [g EXCEPT !.loading = x, !.rows = y, !.alias = z]
    BY <1>1, <1>4, Zenon
  <2> QED
    <3>0. UiView(g, x, y, z)
            = UiRec(g.mode, g.pending, g.reset, g.busy, g.resending, g.selected, y, x, z)
      BY <1>2, UiRendered
    <3>1. ui' = UiRec(g.mode, g.pending, g.reset, g.busy, g.resending, g.selected, y, x, z)
      BY <2>1, <3>0, Zenon DEF UiView
    <3> QED
      BY <3>1 DEF UiRec
<1> QED
  BY <1>1, <1>3, <1>4 DEF moved, reads

\* The calls that Render leaves in flight, from those it was given
LEMMA RenderWire ==
  ASSUME NEW n, NEW p, NEW g, NEW w, NEW a, NEW again, Calls(w, n), Render(p, g, w, a, again)
  PROVE  LET moved == Screen(p) # Screen(app)
             fresh == p.token # app.token
             reads == Screen(p) = "pricing" /\ (moved \/ fresh \/ again)
             keys == Screen(p) = "api" /\ (moved \/ fresh)
             left(c, d) == /\ Kin(c, d) /\ d.stale = c.stale
                           /\ d.live <=> /\ c.live /\ ~(moved /\ c.kind \notin AppOnly)
                                         /\ ~(fresh /\ c.kind = "load") /\ ~((fresh \/ again) /\ c.kind = "orders")
         IN /\ \A c \in w : \E d \in wire' : left(c, d)
            /\ \A d \in wire' :
                 \/ \E c \in w : left(c, d)
                 \/ fresh /\ p.token # 0 /\ d = Ask("load", p.token, Nobody)
                 \/ reads /\ p.token # 0 /\ d = Ask("orders", p.token, Nobody)
                 \/ keys /\ p.token # 0 /\ d = Ask("keys", p.token, Nobody)
<1> DEFINE moved == Screen(p) # Screen(app)
           fresh == p.token # app.token
           reads == Screen(p) = "pricing" /\ (moved \/ fresh \/ again)
           keys == Screen(p) = "api" /\ (moved \/ fresh)
           cleaned == {Cleaned(c, moved, fresh, again) : c \in w}
           left(c, d) == /\ Kin(c, d) /\ d.stale = c.stale
                         /\ d.live <=> /\ c.live /\ ~(moved /\ c.kind \notin AppOnly)
                                       /\ ~(fresh /\ c.kind = "load") /\ ~((fresh \/ again) /\ c.kind = "orders")
<1>1. wire' = cleaned \cup LoadEffect(p, fresh) \cup OrdersEffect(p, reads) \cup KeysEffect(p, keys)
  BY DEF Render
<1> HIDE DEF moved, fresh, reads, keys
<1>2. \A c \in w : left(c, Cleaned(c, moved, fresh, again))
  BY CleanedKin, Zenon DEF Calls
<1>3. /\ LoadEffect(p, fresh) = IF fresh /\ p.token # 0 THEN {Ask("load", p.token, Nobody)} ELSE {}
      /\ OrdersEffect(p, reads) = IF reads /\ p.token # 0 THEN {Ask("orders", p.token, Nobody)} ELSE {}
      /\ KeysEffect(p, keys) = IF keys /\ p.token # 0 THEN {Ask("keys", p.token, Nobody)} ELSE {}
  BY DEF LoadEffect, OrdersEffect, KeysEffect
<1> HIDE DEF left
<1>4. \A c \in w : \E d \in wire' : left(c, d)
  BY <1>1, <1>2
<1>5. \A d \in wire' :
        \/ \E c \in w : left(c, d)
        \/ fresh /\ p.token # 0 /\ d = Ask("load", p.token, Nobody)
        \/ reads /\ p.token # 0 /\ d = Ask("orders", p.token, Nobody)
        \/ keys /\ p.token # 0 /\ d = Ask("keys", p.token, Nobody)
  BY <1>1, <1>2, <1>3
<1> QED
  BY <1>4, <1>5, Zenon DEF left, moved, fresh, reads, keys

\* The calls that Render makes
LEMMA RenderCalls ==
  ASSUME NEW p, NEW g, NEW w, NEW a, NEW again, Render(p, g, w, a, again), p.token # 0
  PROVE  LET moved == Screen(p) # Screen(app)
             fresh == p.token # app.token
         IN /\ fresh => Ask("load", p.token, Nobody) \in wire'
            /\ Screen(p) = "pricing" /\ (moved \/ fresh \/ again) => Ask("orders", p.token, Nobody) \in wire'
            /\ Screen(p) = "api" /\ (moved \/ fresh) => Ask("keys", p.token, Nobody) \in wire'
  BY DEF Render, LoadEffect, OrdersEffect, KeysEffect

LEMMA SpinRender ==
  ASSUME NEW n, NEW p, NEW g, NEW w, NEW a, NEW again, UiShape(g, n), Calls(w, n),
         Awaits(g, w, Screen(app)), Render(p, g, w, a, again)
  PROVE  Awaits(ui', wire', Screen(p)) /\ app' = p
<1> DEFINE moved == Screen(p) # Screen(app)
           fresh == p.token # app.token
           reads == Screen(p) = "pricing" /\ (moved \/ fresh \/ again)
<1>0. app' = p
  BY DEF Render
<1>1. reads /\ p.token # 0 => Ask("orders", p.token, Nobody) \in wire'
  BY RenderCalls
<1>2. Ask("orders", p.token, Nobody).live /\ Ask("orders", p.token, Nobody).kind = "orders"
  BY DEF Ask
<1>3. CASE moved
  <2>1. ui' = Mounted(p)
    BY <1>3, RenderUi
  <2>2. /\ ui'.busy = "" /\ ui'.resending = FALSE
        /\ ui'.loading => Screen(p) = "pricing" /\ p.token # 0
    BY <2>1 DEF Mounted
  <2> QED
    BY <1>0, <1>1, <1>2, <1>3, <2>2 DEF Awaits
<1>4. CASE ~moved
  <2>1. /\ ui'.busy = g.busy /\ ui'.resending = g.resending
        /\ ui'.loading = (IF reads THEN p.token # 0 ELSE g.loading)
    BY <1>4, RenderUi
  <2>2. \A c \in w : \E d \in wire' :
          d.kind = c.kind
          /\ (c.live /\ c.kind \notin {"load", "orders"} => d.live)
          /\ (c.live /\ c.kind = "orders" /\ ~fresh /\ ~again => d.live)
    BY <1>4, RenderWire DEF Kin
  <2> HIDE DEF moved, fresh
  <2>3. ui'.busy # "" => \E d \in wire' : d.live /\ d.kind \in Waited(Screen(app))
    BY <2>1, <2>2, WaitedKinds DEF Awaits
  <2>4. ui'.resending => Screen(app) # "auth" /\ \E d \in wire' : d.live /\ d.kind = "resend"
    BY <2>1, <2>2 DEF Awaits
  <2>5. ui'.loading => Screen(p) = "pricing" /\ \E d \in wire' : d.live /\ d.kind \in {"orders", "reorders"}
    <3>1. CASE reads
      BY <1>1, <1>2, <2>1, <3>1
    <3>2. CASE ~reads /\ Screen(p) = Screen(app)
      BY <2>1, <2>2, <3>2 DEF Awaits
    <3> QED
      BY <1>4, <3>1, <3>2 DEF moved
  <2> QED
    BY <1>0, <1>4, <2>3, <2>4, <2>5 DEF Awaits, moved
<1> QED
  BY <1>3, <1>4

-----------------------------------------------------------------------------
(* What a step of the server does to the calls in flight.                  *)

Outdates(e, x, a, arg) ==
  /\ e.at \in {"ok", "timer"} /\ x \in Carries(e.kind) /\ About(e) = a
  /\ x = "gallery" /\ e.kind \notin Reads => e.arg = arg

\* Call d is what a write of x for a, on image arg, makes of call e.
Aged(e, d, x, a, arg) ==
  Kin(e, d) /\ d.live = e.live /\ d.stale = IF Outdates(e, x, a, arg) THEN TRUE ELSE e.stale

Ok(c, got) == [c EXCEPT !.at = "ok", !.got = got]
Lost(c) == [c EXCEPT !.at = "failed"]

LEMMA OkFields ==
  ASSUME NEW n, NEW c, CallShape(c, n), NEW got
  PROVE  /\ Ok(c, got).kind = c.kind /\ Ok(c, got).tok = c.tok /\ Ok(c, got).arg = c.arg
         /\ Ok(c, got).want = c.want /\ Ok(c, got).live = c.live /\ Ok(c, got).stale = c.stale
         /\ Ok(c, got).at = "ok" /\ Ok(c, got).got = got
  BY DEF CallShape, Ok

LEMMA LostFields ==
  ASSUME NEW n, NEW c, CallShape(c, n)
  PROVE  /\ Lost(c).kind = c.kind /\ Lost(c).tok = c.tok /\ Lost(c).arg = c.arg
         /\ Lost(c).want = c.want /\ Lost(c).live = c.live /\ Lost(c).stale = c.stale
         /\ Lost(c).at = "failed" /\ Lost(c).got = c.got
  BY DEF CallShape, Lost

LEMMA ReplyWire ==
  ASSUME NEW n, Calls(wire, n), NEW c \in wire, NEW got, NEW x, NEW a, Reply(c, got, x, a)
  PROVE  /\ \A e \in wire \ {c} : \E d \in wire' : Aged(e, d, x, a, c.arg)
         /\ \A d \in wire' : \/ \E e \in wire \ {c} : Aged(e, d, x, a, c.arg)
                             \/ d = Ok(c, got) \/ d = Lost(c)
<1> DEFINE new(e) == IF Outdates(e, x, a, c.arg) THEN [e EXCEPT !.stale = TRUE] ELSE e
           rest == {new(e) : e \in wire \ {c}}
<1>1. Outdated(wire \ {c}, x, a, c.arg) = rest
  BY DEF Outdated, Outdates
<1>2. wire' = rest \cup {Ok(c, got)} \/ wire' = rest \cup {Lost(c)}
  BY <1>1 DEF Reply, Ok, Lost
<1>3. \A e \in wire \ {c} : Aged(e, new(e), x, a, c.arg)
  <2>1. ASSUME NEW e \in wire \ {c}
        PROVE  Aged(e, new(e), x, a, c.arg)
    <3>1. CallShape(e, n)
      BY DEF Calls
    <3>2. CASE Outdates(e, x, a, c.arg)
      <4>1. new(e) = [e EXCEPT !.stale = TRUE]
        BY <3>2
      <4> QED
        BY <3>1, <3>2, <4>1, SetStaleKin DEF Aged
    <3>3. CASE ~Outdates(e, x, a, c.arg)
      BY <3>3 DEF Aged, Kin
    <3> QED
      BY <3>2, <3>3
  <2> QED
    BY <2>1
<1> HIDE DEF new
<1> QED
  BY <1>2, <1>3

\* What happens to the answer
LEMMA ReplyOutcome ==
  ASSUME NEW c, NEW got, NEW x, NEW a, Reply(c, got, x, a)
  PROVE  \/ Ok(c, got) \in wire' /\ astray' = astray /\ faults' = faults
         \/ /\ Lost(c) \in wire' /\ astray' = astray \cup ({x} \cap Topics)
            /\ faults < journey.faults /\ faults' = faults + 1
  BY DEF Reply, Ok, Lost, Fault

-----------------------------------------------------------------------------
(* Who waits, action by action.                                            *)

LEMMA SpinFacts ==
  ASSUME SpinInv
  PROVE  /\ CheckInv /\ Awaits(ui, wire, Screen(app)) /\ Calls(wire, Len(sessions))
         /\ UiShape(ui, Len(sessions)) /\ IsUi(ui) /\ Len(sessions) \in Nat
<1>1. CheckInv /\ Awaits(ui, wire, Screen(app))
  BY DEF SpinInv
<1>2. Calls(wire, Len(sessions)) /\ UiShape(ui, Len(sessions)) /\ Len(sessions) \in Nat
  BY <1>1, PageFacts
<1> QED
  BY <1>1, <1>2, UiIs

LEMMA SpinPage ==
  ASSUME SpinInv, CheckInv', NEW p, NEW g, NEW w, NEW a, NEW again, UiShape(g, Len(sessions)),
         Calls(w, Len(sessions)), Awaits(g, w, Screen(app)), Render(p, g, w, a, again)
  PROVE  SpinInv'
<1>1. Awaits(ui', wire', Screen(p)) /\ app' = p
  BY SpinRender
<1> QED
  BY <1>1 DEF SpinInv, Awaits, Screen

\* The answer to c ends what waits for c in g.
Ends(c, g) ==
  /\ g.busy # "" => ui.busy # "" /\ c.kind \notin Waited(Screen(app))
  /\ g.resending => ui.resending /\ c.kind # "resend"
  /\ g.loading => ui.loading /\ c.kind \notin {"orders", "reorders"}

LEMMA SpinAnswer ==
  ASSUME SpinInv, CheckInv', NEW c \in wire, NEW p, NEW g, NEW w, NEW a, NEW again,
         UiShape(g, Len(sessions)), Calls(w, Len(sessions)), wire \ {c} \subseteq w,
         c.live => Ends(c, g), Render(p, Local(c, g), w, a, again)
  PROVE  SpinInv'
<1>1. UiShape(Local(c, g), Len(sessions))
  BY SpinFacts DEF Local
<1>2. Awaits(Local(c, g), w, Screen(app))
  <2>1. CASE c.live
    BY <2>1, SpinFacts DEF Local, Ends, Awaits
  <2>2. CASE ~c.live
    BY <2>2, SpinFacts DEF Local, Awaits
  <2> QED
    BY <2>1, <2>2
<1> QED
  BY <1>1, <1>2, SpinPage

LEMMA SpinDone ==
  ASSUME SpinInv, CheckInv', NEW c \in wire, NEW p, NEW g, NEW a, UiShape(g, Len(sessions)),
         c.live => Ends(c, g), Done(c, p, g, a)
  PROVE  SpinInv'
<1>1. Calls(wire \ {c}, Len(sessions))
  BY SpinFacts DEF Calls
<1>2. Render(p, Local(c, g), wire \ {c}, a, FALSE)
  BY DEF Done
<1> QED
  BY <1>1, <1>2, SpinAnswer

LEMMA SpinSend ==
  ASSUME SpinInv, CheckInv', NEW g, NEW c, UiShape(g, Len(sessions)), CallShape(c, Len(sessions)),
         CallTrue(c), Awaits(g, wire \cup {c}, Screen(app)), Send(g, c)
  PROVE  SpinInv'
<1>1. Calls(wire \cup {c}, Len(sessions))
  BY SpinFacts DEF Calls
<1> QED
  BY <1>1, SpinPage DEF Send

\* A view that waits for no more than it did, or for the call that is sent
LEMMA SpinSame ==
  ASSUME SpinInv, CheckInv', NEW p, NEW g, NEW a, UiShape(g, Len(sessions)),
         g.busy = ui.busy, g.resending = ui.resending, g.loading = ui.loading,
         Render(p, g, wire, a, FALSE)
  PROVE  SpinInv'
<1>1. Awaits(g, wire, Screen(app))
  BY SpinFacts DEF Awaits
<1> QED
  BY <1>1, SpinFacts, SpinPage

LEMMA SpinAsk ==
  ASSUME SpinInv, CheckInv', NEW g, UiShape(g, Len(sessions)), NEW kind,
         NEW tok \in 0..Len(sessions), NEW arg, kind \in Signing => tok # 0,
         Send(g, Ask(kind, tok, arg)),
         g.busy = ui.busy \/ kind \in Waited(Screen(app)),
         g.resending = ui.resending \/ (kind = "resend" /\ ~On("auth")),
         g.loading = ui.loading \/ (kind = "reorders" /\ On("pricing"))
  PROVE  SpinInv'
<1> DEFINE c == Ask(kind, tok, arg)
<1>1. CallShape(c, Len(sessions)) /\ CallTrue(c)
  BY SpinFacts, AskShape
<1>2. c.live /\ c.kind = kind
  BY DEF Ask
<1>3. Send(g, c)
  OBVIOUS
<1> HIDE DEF c
<1>4. Awaits(g, wire \cup {c}, Screen(app))
  BY <1>2, SpinFacts DEF Awaits, On
<1> QED
  BY <1>1, <1>3, <1>4, SpinSend

LEMMA SpinShow ==
  ASSUME SpinInv, CheckInv',
         \/ \E v : Show(v)
         \/ Logout
         \/ \E item : Select(item)
         \/ Back
         \/ \E m \in Modes : SwitchMode(m)
         \/ \E x \in Names : EditAlias(x)
  PROVE  SpinInv'
<1>0. UiShape(ui, Len(sessions)) /\ IsUi(ui) /\ Len(sessions) \in Nat
  BY SpinFacts
<1>1. ASSUME NEW v, Show(v)
      PROVE  SpinInv'
  BY <1>0, <1>1, SpinSame DEF Show
<1>2. CASE Logout
  BY <1>0, <1>2, SpinSame DEF Logout
<1>3. \A x : /\ UiShape([ui EXCEPT !.selected = x], Len(sessions))
             /\ UiShape([ui EXCEPT !.alias = x], Len(sessions))
             /\ x \in Modes => UiShape([ui EXCEPT !.mode = x], Len(sessions))
  BY <1>0, SetUi
<1>4. \A x : /\ [ui EXCEPT !.selected = x].busy = ui.busy /\ [ui EXCEPT !.selected = x].resending = ui.resending
             /\ [ui EXCEPT !.selected = x].loading = ui.loading
  BY <1>0, UiSelected DEF UiRec
<1>5. \A x : /\ [ui EXCEPT !.alias = x].busy = ui.busy /\ [ui EXCEPT !.alias = x].resending = ui.resending
             /\ [ui EXCEPT !.alias = x].loading = ui.loading
  BY <1>0, UiAlias DEF UiRec
<1>6. \A x : /\ [ui EXCEPT !.mode = x].busy = ui.busy /\ [ui EXCEPT !.mode = x].resending = ui.resending
             /\ [ui EXCEPT !.mode = x].loading = ui.loading
  BY <1>0, UiMode DEF UiRec
<1>7. ASSUME NEW item, Select(item)
      PROVE  SpinInv'
  BY <1>3, <1>4, <1>7, SpinSame DEF Select
<1>8. CASE Back
  BY <1>3, <1>4, <1>8, SpinSame DEF Back, Set
<1>9. ASSUME NEW m \in Modes, SwitchMode(m)
      PROVE  SpinInv'
  BY <1>3, <1>6, <1>9, SpinSame DEF SwitchMode, Set
<1>10. ASSUME NEW x \in Names, EditAlias(x)
       PROVE  SpinInv'
  BY <1>3, <1>5, <1>10, SpinSame DEF EditAlias, Set
<1> QED
  BY <1>1, <1>2, <1>7, <1>8, <1>9, <1>10

LEMMA SpinSubmit ==
  ASSUME SpinInv, CheckInv', NEW a, Submit(a)
  PROVE  SpinInv'
<1> DEFINE g == [ui EXCEPT !.busy = "yes"]
<1>0. UiShape(ui, Len(sessions)) /\ IsUi(ui) /\ Len(sessions) \in Nat /\ CheckInv
  BY SpinFacts
<1>1. PICK c \in Submitted(a) : Send(g, c)
  BY DEF Submit
<1>2. UiShape(g, Len(sessions))
  BY <1>0, SetUi
<1>3. g.resending = ui.resending /\ g.loading = ui.loading
  BY <1>0, UiBusy DEF UiRec
<1> HIDE DEF g
<1>4. Screen(app) = "auth"
  BY DEF Submit, CanSubmit, On
<1>5. \E kind \in {"login", "register", "verify", "resend", "forgot", "reset"} : \E tok \in 0..Len(sessions) :
        \E arg : c = Ask(kind, tok, arg)
  <2>1. CASE ui.mode = "login"
    BY <1>0, <2>1, PageFacts DEF Submitted
  <2>2. CASE ui.mode = "register"
    BY <1>0, <2>2, PageFacts DEF Submitted
  <2>3. CASE ui.mode = "verify"
    BY <1>0, <2>3, PageFacts DEF Submitted
  <2>4. CASE ui.mode = "forgot"
    BY <1>0, <2>4, PageFacts DEF Submitted
  <2>5. CASE ui.mode = "reset"
    BY <1>0, <2>5, PageFacts DEF Submitted
  <2> QED
    BY <1>0, <2>1, <2>2, <2>3, <2>4, <2>5, PageFacts DEF Modes
<1>6. PICK kind \in {"login", "register", "verify", "resend", "forgot", "reset"} :
        \E tok \in 0..Len(sessions) : \E arg : c = Ask(kind, tok, arg)
  BY <1>5
<1>7. PICK tok \in 0..Len(sessions) : \E arg : c = Ask(kind, tok, arg)
  BY <1>6
<1>8. PICK arg : c = Ask(kind, tok, arg)
  BY <1>7
<1>9. kind \in Waited(Screen(app)) /\ kind \notin Signing
  BY <1>4 DEF Waited, Signing
<1> QED
  BY <1>1, <1>2, <1>3, <1>8, <1>9, SpinAsk

LEMMA SpinOAuth ==
  ASSUME SpinInv, CheckInv', StartIFPayOAuth
  PROVE  SpinInv'
<1>0. /\ UiShape(ui, Len(sessions)) /\ IsUi(ui) /\ Len(sessions) \in Nat
      /\ 0 \in 0..Len(sessions)
  BY SpinFacts
<1>1. CASE On("auth") /\ Send([ui EXCEPT !.busy = "yes"], Ask("oauth", 0, Nobody))
  <2> DEFINE g == [ui EXCEPT !.busy = "yes"]
  <2>1. UiShape(g, Len(sessions))
    BY <1>0, SetUi
  <2>2. g.resending = ui.resending /\ g.loading = ui.loading
    BY <1>0, UiBusy DEF UiRec
  <2>3. Send(g, Ask("oauth", 0, Nobody))
    BY <1>1
  <2> HIDE DEF g
  <2>4. "oauth" \in Waited(Screen(app)) /\ "oauth" \notin Signing /\ 0 \in 0..Len(sessions)
    BY <1>0, <1>1 DEF Waited, Signing, On
  <2> QED
    BY <2>1, <2>2, <2>3, <2>4, SpinAsk
<1>2. CASE Send(ui, [Ask("oauth", 0, Nobody) EXCEPT !.live = FALSE])
  <2> DEFINE k == Ask("oauth", 0, Nobody)
             d == [k EXCEPT !.live = FALSE]
  <2>1. CallShape(k, Len(sessions)) /\ CallTrue(k)
    BY <1>0, AskShape DEF Signing
  <2>2. Send(ui, d)
    BY <1>2
  <2> HIDE DEF k
  <2>3. CallShape(d, Len(sessions)) /\ CallTrue(d)
    BY <1>0, <2>1, SetLive
  <2> HIDE DEF d
  <2>4. Awaits(ui, wire \cup {d}, Screen(app))
    BY SpinFacts DEF Awaits
  <2> QED
    BY <1>0, <2>2, <2>3, <2>4, SpinSend
<1> QED
  BY <1>1, <1>2 DEF StartIFPayOAuth, CanSubmit

LEMMA SpinToggle ==
  ASSUME SpinInv, CheckInv', TogglePrivacy
  PROVE  SpinInv'
<1>0. UiShape(ui, Len(sessions)) /\ Len(sessions) \in Nat /\ app.token \in 0..Len(sessions)
  BY SpinFacts, PageFacts
<1> DEFINE c == Ask("toggle", app.token, ui.selected.img)
           d == [c EXCEPT !.want = ~ui.selected.private]
<1>1. CallShape(c, Len(sessions)) /\ CallTrue(c)
  BY <1>0, AskShape DEF Signing
<1>2. Send(ui, d)
  BY DEF TogglePrivacy
<1> HIDE DEF c
<1>3. CallShape(d, Len(sessions)) /\ CallTrue(d)
  BY <1>1 DEF CallShape, CallTrue
<1> HIDE DEF d
<1>4. Awaits(ui, wire \cup {d}, Screen(app))
  BY SpinFacts DEF Awaits
<1> QED
  BY <1>0, <1>2, <1>3, <1>4, SpinSend

LEMMA SpinSending ==
  ASSUME SpinInv, CheckInv',
         \/ ResendVerification \/ DeleteImage
         \/ RefreshOrders \/ CreateKey \/ RevokeKey \/ SaveProfile
         \/ \E i \in journey.images : UploadFile(i) \/ ImportBackup(i)
         \/ \E cycle \in Cycles : Checkout(cycle)
  PROVE  SpinInv'
<1>0. /\ UiShape(ui, Len(sessions)) /\ IsUi(ui) /\ 0 \in 0..Len(sessions)
      /\ app.token \in 0..Len(sessions) /\ Len(sessions) \in Nat
  BY SpinFacts, PageFacts
<1>1. /\ \A x : UiShape([ui EXCEPT !.busy = x], Len(sessions))
      /\ UiShape([ui EXCEPT !.resending = TRUE], Len(sessions))
      /\ UiShape([ui EXCEPT !.loading = TRUE], Len(sessions))
      /\ UiShape([ui EXCEPT !.rows = NoRows], Len(sessions))
  BY <1>0, SetUi
<1>2. \A x : [ui EXCEPT !.busy = x].resending = ui.resending /\ [ui EXCEPT !.busy = x].loading = ui.loading
  BY <1>0, UiBusy DEF UiRec
<1>3. ASSUME ResendVerification
      PROVE  SpinInv'
  <2>1. [ui EXCEPT !.resending = TRUE].busy = ui.busy /\ [ui EXCEPT !.resending = TRUE].loading = ui.loading
    BY <1>0, UiResending DEF UiRec
  <2>2. ~On("auth") /\ "resend" \notin Signing
    BY <1>3 DEF ResendVerification, On, Signing
  <2>3. Send([ui EXCEPT !.resending = TRUE], Ask("resend", 0, app.user.of))
    BY <1>3 DEF ResendVerification
  <2> QED
    BY <1>0, <1>1, <2>1, <2>2, <2>3, SpinAsk
<1>4. ASSUME RefreshOrders
      PROVE  SpinInv'
  <2>1. CASE app.token = 0
    <3>1. /\ [ui EXCEPT !.rows = NoRows].busy = ui.busy /\ [ui EXCEPT !.rows = NoRows].loading = ui.loading
          /\ [ui EXCEPT !.rows = NoRows].resending = ui.resending
      BY <1>0, UiRows DEF UiRec
    <3> QED
      BY <1>1, <1>4, <2>1, <3>1, SpinSame DEF RefreshOrders, Set
  <2>2. CASE app.token # 0
    <3>1. /\ [ui EXCEPT !.loading = TRUE].busy = ui.busy
          /\ [ui EXCEPT !.loading = TRUE].resending = ui.resending
      BY <1>0, UiLoading DEF UiRec
    <3>2. "reorders" \notin Signing
      BY DEF Signing
    <3>3. Send([ui EXCEPT !.loading = TRUE], Ask("reorders", app.token, Nobody)) /\ On("pricing")
      BY <1>4, <2>2 DEF RefreshOrders
    <3> QED
      BY <1>0, <1>1, <3>1, <3>2, <3>3, SpinAsk
  <2> QED
    BY <2>1, <2>2
<1>5. CASE DeleteImage \/ CreateKey \/ RevokeKey \/ SaveProfile
  BY <1>0, <1>5, SpinAsk DEF DeleteImage, CreateKey, RevokeKey, SaveProfile, Signing
<1>6. ASSUME NEW i, UploadFile(i) \/ ImportBackup(i)
      PROVE  SpinInv'
  <2>1. CASE UploadFile(i)
    <3>1. "upload" \in Waited(Screen(app))
      BY <2>1 DEF UploadFile, On, Waited
    <3> QED
      BY <1>0, <1>1, <1>2, <2>1, <3>1, SpinAsk DEF UploadFile
  <2>2. CASE ImportBackup(i)
    BY <1>0, <2>2, SpinAsk DEF ImportBackup, Signing
  <2> QED
    BY <1>6, <2>1, <2>2
<1>7. ASSUME NEW cycle \in Cycles, Checkout(cycle)
      PROVE  SpinInv'
  <2>1. "oauth" \in Waited(Screen(app)) /\ "checkout" \in Waited(Screen(app))
    BY <1>7 DEF Checkout, On, Waited
  <2>2. \/ Show("auth")
        \/ Send([ui EXCEPT !.busy = cycle], Ask("oauth", 0, Nobody))
        \/ Send([ui EXCEPT !.busy = cycle], Ask("checkout", app.token, cycle))
    BY <1>7 DEF Checkout
  <2>3. "oauth" \notin Signing /\ "checkout" \notin Signing
    BY DEF Signing
  <2> QED
    BY <1>0, <1>1, <1>2, <2>1, <2>2, <2>3, SpinAsk, SpinShow
<1> QED
  BY <1>3, <1>4, <1>5, <1>6, <1>7

LEMMA SpinReopen ==
  ASSUME CheckInv', NEW v, NEW calls, Reopen(v, calls)
  PROVE  SpinInv'
<1>1. app' = Opened(v) /\ ui' = Mounted(app')
  BY DEF Reopen
<1>2. app'.user = NoUser
  BY <1>1 DEF Opened
<1>3. Screen(app') # "pricing"
  BY <1>2 DEF Screen
<1>4. ui'.busy = "" /\ ui'.resending = FALSE /\ ui'.loading = FALSE
  BY <1>1, <1>3 DEF Mounted
<1> QED
  BY <1>4 DEF SpinInv, Awaits

LEMMA SpinAct ==
  ASSUME SpinInv, CheckInv', Act
  PROVE  SpinInv'
<1>1. \/ \E v : Show(v)
      \/ Logout
      \/ \E item : Select(item)
      \/ Back
      \/ \E m \in Modes : SwitchMode(m)
      \/ \E x \in Names : EditAlias(x)
      \/ \E a : Submit(a)
      \/ StartIFPayOAuth \/ TogglePrivacy
      \/ ResendVerification \/ DeleteImage
      \/ RefreshOrders \/ CreateKey \/ RevokeKey \/ SaveProfile
      \/ \E i \in journey.images : UploadFile(i) \/ ImportBackup(i)
      \/ \E cycle \in Cycles : Checkout(cycle)
      \/ \E v, calls : Reopen(v, calls)
  BY DEF Act, OpenAuth, LeaveAuth, OpenDocs, HashDocs, CloseDocs, DocsLogin, Navigate, Reload
<1> QED
  BY <1>1, SpinShow, SpinSubmit, SpinOAuth, SpinToggle, SpinSending, SpinReopen

\* Answers to calls that no view waits for, and answers after which nothing
\* waits for a call of that kind
LEMMA SpinUnawaited ==
  ASSUME SpinInv, CheckInv', NEW c \in wire, NEW p, NEW g, NEW a, UiShape(g, Len(sessions)),
         g.busy = "" \/ (g.busy = ui.busy /\ c.kind \notin Waited(Screen(app))),
         ~g.resending \/ (g.resending = ui.resending /\ c.kind # "resend"),
         ~g.loading \/ (g.loading = ui.loading /\ c.kind \notin {"orders", "reorders"}),
         Done(c, p, g, a)
  PROVE  SpinInv'
<1>1. Ends(c, g)
  BY DEF Ends
<1> QED
  BY <1>1, SpinDone

LEMMA SpinResent ==
  ASSUME SpinInv
  PROVE  /\ UiShape(Resent, Len(sessions))
         /\ Resent.busy = "" \/ (Resent.busy = ui.busy /\ "resend" \notin Waited(Screen(app)))
         /\ ~Resent.resending /\ Resent.loading = ui.loading
<1>0. /\ UiShape(ui, Len(sessions)) /\ IsUi(ui) /\ Len(sessions) \in Nat
      /\ Awaits(ui, wire, Screen(app)) /\ CheckInv
  BY SpinFacts
<1>1. UiShape([ui EXCEPT !.busy = ""], Len(sessions)) /\ UiShape([ui EXCEPT !.resending = FALSE], Len(sessions))
  BY <1>0, SetUi
<1>2. CASE On("auth")
  <2>1. Resent = [ui EXCEPT !.busy = ""]
    BY <1>2 DEF Resent
  <2>2. Resent.busy = "" /\ Resent.resending = ui.resending /\ Resent.loading = ui.loading
    BY <1>0, <2>1, UiBusy DEF UiRec
  <2>3. ~ui.resending
    BY <1>0, <1>2 DEF Awaits, On
  <2> QED
    BY <1>1, <2>1, <2>2, <2>3
<1>3. CASE ~On("auth")
  <2>1. Resent = [ui EXCEPT !.resending = FALSE]
    BY <1>3 DEF Resent
  <2>2. Resent.busy = ui.busy /\ ~Resent.resending /\ Resent.loading = ui.loading
    BY <1>0, <2>1, UiResending DEF UiRec
  <2>3. "resend" \notin Waited(Screen(app))
    BY <1>3 DEF Waited, On
  <2> QED
    BY <1>1, <2>1, <2>2, <2>3
<1> QED
  BY <1>2, <1>3

LEMMA SpinAuthAnswered ==
  ASSUME SpinInv, CheckInv', NEW c \in wire, AuthAnswered(c)
  PROVE  SpinInv'
<1> DEFINE idle == [ui EXCEPT !.busy = ""]
           known == [of |-> c.arg, tok |-> c.got.tok]
           g1 == [idle EXCEPT !.pending = known, !.mode = "verify"]
           g2 == [idle EXCEPT !.reset = c.arg, !.mode = "reset"]
           g3 == [idle EXCEPT !.reset = Nobody, !.mode = "login"]
<1>0. UiShape(ui, Len(sessions)) /\ IsUi(ui) /\ Len(sessions) \in Nat /\ CheckInv
  BY SpinFacts
<1>1. UiShape(idle, Len(sessions)) /\ IsUi(idle)
  BY <1>0, SetUi, UiIs
<1>2. idle.busy = "" /\ idle.resending = ui.resending /\ idle.loading = ui.loading
  BY <1>0, UiBusy DEF UiRec
<1>3. CASE c.kind = "resend"
  <2>1. Done(c, app, Resent, astray)
    BY <1>3 DEF AuthAnswered
  <2> QED
    BY <1>3, <2>1, SpinResent, SpinUnawaited
<1>4. CASE c.kind # "resend"
  <2>0. c.kind \in {"register", "forgot", "reset"}
    BY <1>4 DEF AuthAnswered, Answered
  <2>1. PICK g : g \in {g1, g2, g3} /\ Done(c, app, g, astray)
    BY <2>0 DEF AuthAnswered
  <2> HIDE DEF idle
  <2>2. /\ UiShape(g1, Len(sessions)) /\ UiShape(g2, Len(sessions)) /\ UiShape(g3, Len(sessions))
    BY <1>0, <1>1, SetPendingMode, SetResetMode, AnswerFacts DEF Modes
  <2>3. g1.busy = idle.busy /\ g1.resending = idle.resending /\ g1.loading = idle.loading
    BY <1>1, UiRegistered DEF UiRec
  <2>4. g2.busy = idle.busy /\ g2.resending = idle.resending /\ g2.loading = idle.loading
    BY <1>1, UiReset DEF UiRec
  <2>5. g3.busy = idle.busy /\ g3.resending = idle.resending /\ g3.loading = idle.loading
    BY <1>1, UiReset DEF UiRec
  <2> HIDE DEF g1, g2, g3
  <2>6. UiShape(g, Len(sessions)) /\ g.busy = "" /\ g.resending = ui.resending /\ g.loading = ui.loading
    BY <1>2, <2>1, <2>2, <2>3, <2>4, <2>5
  <2> QED
    BY <2>0, <2>1, <2>6, SpinUnawaited
<1> QED
  BY <1>3, <1>4

\* Answers that leave the flags of the view alone
LEMMA SpinUntouched ==
  ASSUME SpinInv, CheckInv', NEW c \in wire,
         \/ IFPayCallback(c) \/ Loaded(c) \/ LoadFailed(c) \/ ImagesAnswered(c) \/ MeAnswered(c)
         \/ DeleteAnswered(c) \/ ToggleAnswered(c) \/ KeysAnswered(c) \/ Imported(c) \/ ProfileSaved(c)
  PROVE  SpinInv'
<1>0. UiShape(ui, Len(sessions)) /\ IsUi(ui) /\ Len(sessions) \in Nat
  BY SpinFacts
<1>1. c.kind \in {"callback", "load", "images", "me", "delete", "toggle", "keys", "import", "profile"}
  BY DEF IFPayCallback, Loaded, LoadFailed, ImagesAnswered, MeAnswered, DeleteAnswered,
         ToggleAnswered, KeysAnswered, Imported, ProfileSaved, Answered
<1>2. c.kind \notin Waited(Screen(app)) /\ c.kind # "resend" /\ c.kind \notin {"orders", "reorders"}
  BY <1>1, WaitedKinds
<1>3. \A x : /\ UiShape([ui EXCEPT !.selected = x], Len(sessions))
             /\ UiShape([ui EXCEPT !.rows = x], Len(sessions))
  BY <1>0, SetUi
<1>4. \A x : /\ [ui EXCEPT !.selected = x].busy = ui.busy /\ [ui EXCEPT !.selected = x].resending = ui.resending
             /\ [ui EXCEPT !.selected = x].loading = ui.loading
  BY <1>0, UiSelected DEF UiRec
<1>5. \A x : /\ [ui EXCEPT !.rows = x].busy = ui.busy /\ [ui EXCEPT !.rows = x].resending = ui.resending
             /\ [ui EXCEPT !.rows = x].loading = ui.loading
  BY <1>0, UiRows DEF UiRec
<1>6. \E p, g, a : /\ Done(c, p, g, a)
                   /\ \/ g = ui
                      \/ \E x : g = [ui EXCEPT !.selected = x]
                      \/ \E x : g = [ui EXCEPT !.rows = x]
  <2>1. CASE IFPayCallback(c)
    BY <2>1 DEF IFPayCallback
  <2>2. CASE Loaded(c)
    BY <2>2 DEF Loaded
  <2>3. CASE LoadFailed(c)
    BY <2>3 DEF LoadFailed
  <2>4. CASE ImagesAnswered(c) \/ MeAnswered(c)
    BY <2>4 DEF ImagesAnswered, MeAnswered
  <2>5. CASE DeleteAnswered(c)
    BY <2>5 DEF DeleteAnswered
  <2>6. CASE ToggleAnswered(c)
    BY <2>6 DEF ToggleAnswered
  <2>7. CASE KeysAnswered(c)
    BY <2>7 DEF KeysAnswered
  <2>8. CASE Imported(c)
    BY <2>8 DEF Imported
  <2>9. CASE ProfileSaved(c)
    BY <2>9 DEF ProfileSaved
  <2> QED
    BY <2>1, <2>2, <2>3, <2>4, <2>5, <2>6, <2>7, <2>8, <2>9
<1>7. PICK p, g, a : /\ Done(c, p, g, a)
                     /\ \/ g = ui
                        \/ \E x : g = [ui EXCEPT !.selected = x]
                        \/ \E x : g = [ui EXCEPT !.rows = x]
  BY <1>6
<1>8. UiShape(g, Len(sessions)) /\ g.busy = ui.busy /\ g.resending = ui.resending /\ g.loading = ui.loading
  BY <1>0, <1>3, <1>4, <1>5, <1>7
<1> QED
  BY <1>2, <1>7, <1>8, SpinUnawaited

LEMMA SpinSignedIn ==
  ASSUME SpinInv, CheckInv', NEW c \in wire, SignedIn(c)
  PROVE  SpinInv'
<1> DEFINE g == [ui EXCEPT !.busy = ""]
<1>0. UiShape(ui, Len(sessions)) /\ IsUi(ui) /\ Len(sessions) \in Nat
  BY SpinFacts
<1>1. PICK p, a : Done(c, p, g, a)
  BY DEF SignedIn
<1>2. UiShape(g, Len(sessions))
  BY <1>0, SetUi
<1>3. g.busy = "" /\ g.resending = ui.resending /\ g.loading = ui.loading
  BY <1>0, UiBusy DEF UiRec
<1> HIDE DEF g
<1>4. c.kind # "resend" /\ c.kind \notin {"orders", "reorders"}
  BY DEF SignedIn, Answered
<1> QED
  BY <1>1, <1>2, <1>3, <1>4, SpinUnawaited

LEMMA SpinOrders ==
  ASSUME SpinInv, CheckInv', NEW c \in wire, OrdersAnswered(c)
  PROVE  SpinInv'
<1> DEFINE g == [ui EXCEPT !.rows = c.got.rows, !.loading = FALSE]
<1>0. UiShape(ui, Len(sessions)) /\ IsUi(ui) /\ Len(sessions) \in Nat
  BY SpinFacts
<1>1. PICK a : Done(c, app, g, a)
  BY DEF OrdersAnswered
<1>2. UiShape(g, Len(sessions))
  BY <1>0, SetRowsLoading
<1>3. g.busy = ui.busy /\ g.resending = ui.resending /\ ~g.loading
  BY <1>0, UiListed DEF UiRec
<1> HIDE DEF g
<1>4. c.kind # "resend" /\ c.kind \notin Waited(Screen(app))
  BY WaitedKinds DEF OrdersAnswered
<1> QED
  BY <1>1, <1>2, <1>3, <1>4, SpinUnawaited

LEMMA SpinUpload ==
  ASSUME SpinInv, CheckInv', NEW c \in wire, UploadAnswered(c)
  PROVE  SpinInv'
<1> DEFINE d == [c EXCEPT !.at = "timer"]
           w == (wire \ {c}) \cup {d}
<1>0. /\ UiShape(ui, Len(sessions)) /\ Len(sessions) \in Nat /\ Calls(wire, Len(sessions))
      /\ Awaits(ui, wire, Screen(app))
  BY SpinFacts
<1>1. Render(app, ui, w, astray, FALSE) /\ c.kind = "upload"
  BY DEF UploadAnswered, Answered
<1>2. Becomes(c, d, Len(sessions))
  BY <1>0, <1>1, SetTimer DEF Calls
<1> HIDE DEF d
<1>3. Calls(w, Len(sessions))
  BY <1>0, <1>2 DEF Calls, Becomes
<1>4. Awaits(ui, w, Screen(app))
  BY <1>0, <1>2 DEF Awaits, Becomes
<1> HIDE DEF w
<1> QED
  BY <1>0, <1>1, <1>3, <1>4, SpinPage

LEMMA SpinShown ==
  ASSUME SpinInv, CheckInv', NEW c \in wire, UploadShown(c)
  PROVE  SpinInv'
<1> DEFINE g == [ui EXCEPT !.busy = ""]
           x == Ask("images", c.tok, Nobody)
           y == Ask("me", c.tok, Nobody)
           w == (wire \ {c}) \cup {x, y}
<1>0. UiShape(ui, Len(sessions)) /\ IsUi(ui) /\ Len(sessions) \in Nat /\ CheckInv
  BY SpinFacts
<1>1. PICK p, a : Render(p, Local(c, g), w, a, FALSE)
  BY DEF UploadShown
<1>2. UiShape(g, Len(sessions))
  BY <1>0, SetUi
<1>3. g.busy = "" /\ g.resending = ui.resending /\ g.loading = ui.loading
  BY <1>0, UiBusy DEF UiRec
<1> HIDE DEF g
<1>4. c.kind = "upload" /\ c.tok # 0 /\ c.tok \in 0..Len(sessions)
  BY <1>0, AnswerFacts DEF UploadShown
<1>5. CallShape(x, Len(sessions)) /\ CallTrue(x) /\ CallShape(y, Len(sessions)) /\ CallTrue(y)
  BY <1>0, <1>4, AskShape
<1> HIDE DEF x, y
<1>6. Calls(w, Len(sessions)) /\ wire \ {c} \subseteq w
  BY <1>0, <1>5, AnswerFacts DEF Calls
<1>7. Ends(c, g)
  BY <1>3, <1>4 DEF Ends
<1> HIDE DEF w
<1> QED
  BY <1>1, <1>2, <1>6, <1>7, SpinAnswer

LEMMA SpinCheckedOut ==
  ASSUME SpinInv, CheckInv', NEW c \in wire, CheckedOut(c)
  PROVE  SpinInv'
<1> DEFINE g == [ui EXCEPT !.busy = ""]
           w == wire \ {c}
<1>0. UiShape(ui, Len(sessions)) /\ IsUi(ui) /\ Len(sessions) \in Nat /\ CheckInv
  BY SpinFacts
<1>1. Render(app, Local(c, g), w, astray, TRUE) /\ c.kind = "checkout"
  BY DEF CheckedOut, Answered
<1>2. UiShape(g, Len(sessions)) /\ Calls(w, Len(sessions))
  BY <1>0, SetUi, AnswerFacts
<1>3. g.busy = "" /\ g.resending = ui.resending /\ g.loading = ui.loading
  BY <1>0, UiBusy DEF UiRec
<1> HIDE DEF g
<1>4. Ends(c, g)
  BY <1>1, <1>3 DEF Ends
<1> QED
  BY <1>1, <1>2, <1>4, SpinAnswer

LEMMA SpinKeyWritten ==
  ASSUME SpinInv, CheckInv', NEW c \in wire, KeyWritten(c)
  PROVE  SpinInv'
<1> DEFINE k == Ask("keys", c.tok, Nobody)
           d == [k EXCEPT !.live = c.live]
           w == (wire \ {c}) \cup {d}
<1>0. UiShape(ui, Len(sessions)) /\ Len(sessions) \in Nat /\ CheckInv
  BY SpinFacts
<1>1. PICK a : Render(app, ui, w, a, FALSE)
  BY DEF KeyWritten
<1>2. c.kind \in {"create", "revoke"}
  BY DEF KeyWritten, Answered
<1>3. CallShape(k, Len(sessions)) /\ CallTrue(k)
  BY <1>0, AnswerFacts, AskShape DEF Signing
<1> HIDE DEF k
<1>4. CallShape(d, Len(sessions)) /\ CallTrue(d)
  BY <1>0, <1>3, SetLive
<1> HIDE DEF d
<1>5. Calls(w, Len(sessions)) /\ wire \ {c} \subseteq w
  BY <1>0, <1>4, AnswerFacts DEF Calls
<1>6. Ends(c, ui)
  BY <1>2, WaitedKinds DEF Ends
<1>7. Render(app, Local(c, ui), w, a, FALSE)
  BY <1>1 DEF Local
<1> HIDE DEF w
<1> QED
  BY <1>0, <1>5, <1>6, <1>7, SpinAnswer

LEMMA SpinFailed ==
  ASSUME SpinInv, CheckInv', NEW c \in wire, Failed(c)
  PROVE  SpinInv'
<1>0. UiShape(ui, Len(sessions)) /\ IsUi(ui) /\ Len(sessions) \in Nat
  BY SpinFacts
<1>1. c.kind \notin {"load", "orders", "reorders", "keys"}
  BY DEF Failed
<1>2. CASE c.kind = "resend"
  <2>1. Done(c, app, Resent, astray)
    BY <1>2 DEF Failed, AppOnly
  <2> QED
    BY <1>2, <2>1, SpinResent, SpinUnawaited
<1>3. CASE c.kind \in AppOnly \cup {"create", "revoke", "delete", "toggle", "import", "profile"}
  <2>1. Done(c, app, ui, astray)
    BY <1>3 DEF Failed, AppOnly
  <2>2. c.kind \notin Waited(Screen(app)) /\ c.kind # "resend"
    BY <1>3, WaitedKinds DEF AppOnly
  <2> QED
    BY <1>0, <1>1, <2>1, <2>2, SpinUnawaited
<1>4. CASE c.kind # "resend" /\ c.kind \notin AppOnly \cup {"create", "revoke", "delete", "toggle", "import", "profile"}
  <2> DEFINE g == [ui EXCEPT !.busy = ""]
  <2>1. Done(c, app, g, astray)
    BY <1>4 DEF Failed
  <2>2. UiShape(g, Len(sessions)) /\ g.busy = "" /\ g.resending = ui.resending /\ g.loading = ui.loading
    BY <1>0, SetUi, UiBusy DEF UiRec
  <2> HIDE DEF g
  <2> QED
    BY <1>1, <1>4, <2>1, <2>2, SpinUnawaited
<1> QED
  BY <1>2, <1>3, <1>4

LEMMA SpinAnswered ==
  ASSUME SpinInv, CheckInv', NEW c \in wire, Answer(c)
  PROVE  SpinInv'
  BY SpinSignedIn, SpinAuthAnswered, SpinUntouched, SpinReopen, SpinUpload, SpinShown,
     SpinCheckedOut, SpinOrders, SpinKeyWritten, SpinFailed DEF Answer, OAuthStarted

\* The server changes nothing that a view waits for.
LEMMA SpinServed ==
  ASSUME SpinInv, CheckInv', ByServer,
         \A e \in wire : \E d \in wire' : d.kind = e.kind /\ d.live = e.live
  PROVE  SpinInv'
<1>1. ui' = ui /\ app' = app /\ Awaits(ui, wire, Screen(app))
  BY SpinFacts DEF ByServer
<1>2. Awaits(ui, wire', Screen(app))
  BY <1>1 DEF Awaits
<1> QED
  BY <1>1, <1>2 DEF SpinInv, Awaits, Screen

LEMMA ReplyLeaves ==
  ASSUME NEW n, Calls(wire, n), NEW c \in wire, NEW got, NEW x, NEW a, Reply(c, got, x, a)
  PROVE  \A e \in wire : \E d \in wire' : d.kind = e.kind /\ d.live = e.live
<1>1. \A e \in wire \ {c} : \E d \in wire' : Aged(e, d, x, a, c.arg)
  BY ReplyWire
<1>2. Ok(c, got) \in wire' \/ Lost(c) \in wire'
  BY ReplyOutcome
<1>3. /\ Ok(c, got).kind = c.kind /\ Ok(c, got).live = c.live
      /\ Lost(c).kind = c.kind /\ Lost(c).live = c.live
  BY OkFields, LostFields DEF Calls
<1> QED
  BY <1>1, <1>2, <1>3 DEF Aged, Kin

LEMMA MountedFlags ==
  ASSUME NEW p
  PROVE  Mounted(p).busy = "" /\ ~Mounted(p).resending /\ (Mounted(p).loading => p.token # 0)
  BY DEF Mounted

LEMMA SpinServe ==
  ASSUME SpinInv, CheckInv', NEW c \in wire, Serve(c)
  PROVE  SpinInv'
<1>0. Calls(wire, Len(sessions))
  BY SpinFacts
<1>1. ByServer
  BY DEF Serve, ServeRead, ServeVerify, ServeMail, ServeImage, ServeWrite, ServeProfile,
         Refuse, ServeSignIn
<1>2. CASE \E got, x, a : Reply(c, got, x, a)
  BY <1>0, <1>1, <1>2, ReplyLeaves, SpinServed
<1>3. CASE \E d : /\ wire' = (wire \ {c}) \cup {d}
                  /\ d = Lost(c) \/ \E got : d = Ok(c, got)
  <2>1. PICK d : wire' = (wire \ {c}) \cup {d} /\ (d = Lost(c) \/ \E got : d = Ok(c, got))
    BY <1>3
  <2>2. d.kind = c.kind /\ d.live = c.live
    BY <1>0, <2>1, OkFields, LostFields DEF Calls
  <2> QED
    BY <1>1, <2>1, <2>2, SpinServed
<1>4. ASSUME ServeVerify(c) \/ ServeMail(c) \/ ServeWrite(c) \/ ServeProfile(c)
             \/ \E a \in journey.who : ServeSignIn(c, a)
      PROVE  \E got, x, a : Reply(c, got, x, a)
  BY <1>4 DEF ServeVerify, ServeMail, ServeWrite, ServeProfile, ServeSignIn
<1>5. ASSUME ServeImage(c)
      PROVE  \E got, x, a : Reply(c, got, x, a)
  BY <1>5 DEF ServeImage, Served
<1>6. ASSUME ServeRead(c) \/ Refuse(c)
      PROVE  \E d : /\ wire' = (wire \ {c}) \cup {d}
                    /\ d = Lost(c) \/ \E got : d = Ok(c, got)
  BY <1>6 DEF ServeRead, Refuse, Ok, Lost
<1> QED
  BY <1>2, <1>3, <1>4, <1>5, <1>6 DEF Serve

\* A button that is off, or a spinner that is on, has a call in flight whose
\* answer or failure ends it, however views are opened and left meanwhile and
\* whichever answers are late, lost or for another session (the busy flags of
\* AuthView, UploadView, PricingView and of the banner that resends).
THEOREM NothingSpins == Spec => []NothingSpinsForever
<1>1. Init => SpinInv
  <2>1. Init => ui = Mounted(app) /\ app.token = 0
    BY DEF Init
  <2>2. Init => ui.busy = "" /\ ~ui.resending /\ ~ui.loading
    BY <2>1, MountedFlags
  <2> QED
    BY <2>1, <2>2, InitChecked DEF SpinInv, Awaits
<1>2. SpinInv /\ [Next]_vars => SpinInv'
  <2> SUFFICES ASSUME SpinInv, [Next]_vars
               PROVE  SpinInv'
    OBVIOUS
  <2>1. CheckInv
    BY SpinFacts
  <2>2. CASE Act
    BY <2>1, <2>2, ActStep, SpinAct
  <2>3. ASSUME NEW c \in wire, Serve(c) \/ Answer(c)
        PROVE  SpinInv'
    BY <2>1, <2>3, ServeStep, AnswerStep, SpinServe, SpinAnswered
  <2>4. CASE UNCHANGED vars
    <3>1. app' = app /\ ui' = ui /\ wire' = wire
      BY <2>4 DEF vars
    <3> QED
      BY <2>1, <2>4, <3>1, StutterChecked DEF SpinInv, Awaits, Screen
  <2> QED
    BY <2>2, <2>3, <2>4 DEF Next
<1>3. SpinInv => NothingSpinsForever
  BY WaitedKinds DEF SpinInv, Awaits, NothingSpinsForever
<1> QED
  BY <1>1, <1>2, <1>3, PTL DEF Spec
-----------------------------------------------------------------------------
(* What each step does, field by field.                                    *)

\* Views in states g and h show and remember the same.
Alike(g, h) == g.pending = h.pending /\ g.selected = h.selected /\ g.rows = h.rows /\ g.alias = h.alias

LEMMA AlikeUi ==
  ASSUME NEW n \in Nat, NEW g, UiShape(g, n), NEW x
  PROVE  /\ UiShape([g EXCEPT !.busy = x], n) /\ Alike([g EXCEPT !.busy = x], g)
         /\ UiShape([g EXCEPT !.resending = x], n) /\ Alike([g EXCEPT !.resending = x], g)
         /\ UiShape([g EXCEPT !.loading = x], n) /\ Alike([g EXCEPT !.loading = x], g)
         /\ x \in Modes => UiShape([g EXCEPT !.mode = x], n) /\ Alike([g EXCEPT !.mode = x], g)
<1>0. IsUi(g)
  BY UiIs
<1>1. Alike([g EXCEPT !.busy = x], g)
  BY <1>0, UiBusy DEF UiRec, Alike
<1>2. Alike([g EXCEPT !.resending = x], g)
  BY <1>0, UiResending DEF UiRec, Alike
<1>3. Alike([g EXCEPT !.loading = x], g)
  BY <1>0, UiLoading DEF UiRec, Alike
<1>4. Alike([g EXCEPT !.mode = x], g)
  BY <1>0, UiMode DEF UiRec, Alike
<1> QED
  BY <1>1, <1>2, <1>3, <1>4, SetUi

LEMMA AlikeSelf ==
  ASSUME NEW g
  PROVE  Alike(g, g)
  BY DEF Alike

\* A call that the user makes now
Asked(c) ==
  /\ c.at = "sent" /\ c.stale = FALSE /\ c.got = NoAnswer /\ c.want \in BOOLEAN /\ c.live \in BOOLEAN
  /\ c.live \/ c.kind = "oauth"
  /\ \/ c.kind \in {"login", "register"} /\ c.arg \in Accounts /\ SignInsLeft
     \/ c.kind \in {"forgot", "reset", "oauth", "resend"}
     \/ c.kind = "verify" /\ ui.pending # NoContext /\ c.tok = ui.pending.tok /\ c.arg = ui.pending.of
     \/ /\ c.kind = "upload" /\ c.tok = app.token /\ app.token # 0
        /\ c.arg \in Images /\ c.arg \notin used /\ Owner[c.arg] = Acct(app.token)
     \/ /\ c.kind = "import" /\ c.tok = app.token /\ c.arg \in Images
        /\ app.token # 0 => Owner[c.arg] = Acct(app.token)
     \/ c.kind \in {"delete", "toggle"} /\ Detail /\ c.tok = app.token /\ c.arg = ui.selected.img
     \/ c.kind \in {"checkout", "reorders"} /\ On("pricing") /\ c.tok = app.token /\ app.token # 0
     \/ c.kind \in {"create", "revoke"} /\ On("api") /\ c.tok = app.token
     \/ c.kind = "profile" /\ On("settings") /\ c.tok = app.token /\ c.arg = ui.alias

\* The user makes call c, and the view waits for it or not.
Sending(g, c) ==
  /\ Send(g, c) /\ UiShape(g, Len(sessions)) /\ Alike(g, ui)
  /\ CallShape(c, Len(sessions)) /\ CallTrue(c) /\ Asked(c)

LEMMA SendingAsk ==
  ASSUME CheckInv, NEW g, NEW kind, NEW tok \in 0..Len(sessions), NEW arg, Send(g, Ask(kind, tok, arg)),
         UiShape(g, Len(sessions)), Alike(g, ui), kind \in Signing => tok # 0,
         \/ kind \in {"login", "register"} /\ arg \in Accounts /\ SignInsLeft
         \/ kind \in {"forgot", "reset", "oauth", "resend"}
         \/ kind = "verify" /\ ui.pending # NoContext /\ tok = ui.pending.tok /\ arg = ui.pending.of
         \/ /\ kind = "upload" /\ tok = app.token /\ app.token # 0
            /\ arg \in Images /\ arg \notin used /\ Owner[arg] = Acct(app.token)
         \/ /\ kind = "import" /\ tok = app.token /\ arg \in Images
            /\ app.token # 0 => Owner[arg] = Acct(app.token)
         \/ kind = "delete" /\ Detail /\ tok = app.token /\ arg = ui.selected.img
         \/ kind \in {"checkout", "reorders"} /\ On("pricing") /\ tok = app.token /\ app.token # 0
         \/ kind \in {"create", "revoke"} /\ On("api") /\ tok = app.token
         \/ kind = "profile" /\ On("settings") /\ tok = app.token /\ arg = ui.alias
  PROVE  \E c : Sending(g, c)
<1> DEFINE c == Ask(kind, tok, arg)
<1>1. CallShape(c, Len(sessions)) /\ CallTrue(c)
  BY PageFacts, AskShape
<1>2. /\ c.kind = kind /\ c.tok = tok /\ c.arg = arg /\ c.at = "sent" /\ c.stale = FALSE
      /\ c.got = NoAnswer /\ c.want = FALSE /\ c.live = TRUE
  BY DEF Ask
<1>3. Send(g, c)
  OBVIOUS
<1> HIDE DEF c
<1>4. Asked(c)
  BY <1>2 DEF Asked
<1> QED
  BY <1>1, <1>3, <1>4 DEF Sending

LEMMA JourneyFacts ==
  ASSUME CheckInv
  PROVE  /\ journey.who \subseteq Accounts /\ journey.images \subseteq Images /\ journey.wire \in Nat
         /\ journey.sessions \in Nat /\ journey.reloads \in Nat /\ journey.faults \in Nat
  BY BoundAssumption DEF CheckInv, Shapes

\* No form is sent but by AuthView, which is idle.
LEMMA SubmitDoes ==
  ASSUME CheckInv, NEW a \in journey.who, Submit(a)
  PROVE  \E g, c : Sending(g, c)
<1> DEFINE g == [ui EXCEPT !.busy = "yes"]
<1>0. /\ UiShape(ui, Len(sessions)) /\ Len(sessions) \in Nat /\ ui.pending.tok \in 0..Len(sessions)
      /\ 0 \in 0..Len(sessions) /\ ui.mode \in Modes /\ a \in Accounts
  BY PageFacts, JourneyFacts
<1>1. PICK c \in Submitted(a) : Send(g, c)
  BY DEF Submit
<1>2. UiShape(g, Len(sessions)) /\ Alike(g, ui)
  BY <1>0, AlikeUi
<1> HIDE DEF g
<1>3. CASE ui.mode = "login"
  <2>1. c = Ask("login", 0, a) /\ SignInsLeft
    BY <1>3 DEF Submitted, Submit
  <2> QED
    BY <1>0, <1>1, <1>2, <2>1, SendingAsk DEF Signing
<1>4. CASE ui.mode = "register"
  <2>1. c = Ask("register", 0, a) /\ SignInsLeft
    BY <1>4 DEF Submitted, Submit
  <2> QED
    BY <1>0, <1>1, <1>2, <2>1, SendingAsk DEF Signing
<1>5. CASE ui.mode = "verify"
  <2>1. PICK k \in {"verify", "resend"} : c = Ask(k, ui.pending.tok, ui.pending.of)
    BY <1>5 DEF Submitted
  <2>2. ui.pending # NoContext
    BY <1>5 DEF Submit
  <2>3. k \notin Signing
    BY DEF Signing
  <2> QED
    BY <1>0, <1>1, <1>2, <2>1, <2>2, <2>3, SendingAsk
<1>6. CASE ui.mode \in {"forgot", "reset"}
  <2>1. PICK k \in {"forgot", "reset"} : \E x : c = Ask(k, 0, x)
    BY <1>6 DEF Submitted
  <2>2. PICK x : c = Ask(k, 0, x)
    BY <2>1
  <2>3. k \notin Signing
    BY DEF Signing
  <2> QED
    BY <1>0, <1>1, <1>2, <2>2, <2>3, SendingAsk
<1> QED
  BY <1>0, <1>3, <1>4, <1>5, <1>6 DEF Modes

LEMMA OAuthDoes ==
  ASSUME CheckInv, StartIFPayOAuth
  PROVE  \E g, c : Sending(g, c)
<1>0. UiShape(ui, Len(sessions)) /\ Len(sessions) \in Nat /\ 0 \in 0..Len(sessions) /\ "oauth" \notin Signing
  BY PageFacts DEF Signing
<1>1. CASE Send([ui EXCEPT !.busy = "yes"], Ask("oauth", 0, Nobody))
  BY <1>0, <1>1, AlikeUi, SendingAsk
<1>2. CASE Send(ui, [Ask("oauth", 0, Nobody) EXCEPT !.live = FALSE])
  <2> DEFINE k == Ask("oauth", 0, Nobody)
             d == [k EXCEPT !.live = FALSE]
  <2>1. CallShape(k, Len(sessions)) /\ CallTrue(k)
    BY <1>0, AskShape
  <2>2. k.kind = "oauth" /\ k.at = "sent" /\ k.stale = FALSE /\ k.got = NoAnswer /\ k.want = FALSE
    BY DEF Ask
  <2>3. Send(ui, d)
    BY <1>2
  <2> HIDE DEF k
  <2>4. Kin(k, d) /\ d.live = FALSE /\ d.stale = k.stale
    BY <2>1, SetLiveKin
  <2>5. CallShape(d, Len(sessions)) /\ CallTrue(d)
    BY <1>0, <2>1, SetLive
  <2> HIDE DEF d
  <2>6. Asked(d)
    BY <2>2, <2>4 DEF Asked, Kin
  <2> QED
    BY <1>0, <2>3, <2>5, <2>6, AlikeSelf DEF Sending
<1> QED
  BY <1>1, <1>2 DEF StartIFPayOAuth

LEMMA ToggleDoes ==
  ASSUME CheckInv, TogglePrivacy
  PROVE  \E c : Sending(ui, c)
<1> DEFINE k == Ask("toggle", app.token, ui.selected.img)
           d == [k EXCEPT !.want = ~ui.selected.private]
<1>0. UiShape(ui, Len(sessions)) /\ Len(sessions) \in Nat /\ app.token \in 0..Len(sessions)
  BY PageFacts
<1>1. CallShape(k, Len(sessions)) /\ CallTrue(k)
  BY <1>0, AskShape DEF Signing
<1>2. /\ k.kind = "toggle" /\ k.at = "sent" /\ k.stale = FALSE /\ k.got = NoAnswer /\ k.live = TRUE
      /\ k.tok = app.token /\ k.arg = ui.selected.img
  BY DEF Ask
<1>3. Send(ui, d) /\ Detail
  BY DEF TogglePrivacy
<1> HIDE DEF k
<1>4. /\ CallShape(d, Len(sessions)) /\ CallTrue(d) /\ d.kind = k.kind /\ d.tok = k.tok
      /\ d.arg = k.arg /\ d.want \in BOOLEAN /\ d.live = k.live /\ d.stale = k.stale /\ d.at = k.at
      /\ d.got = k.got
  BY <1>1 DEF CallShape, CallTrue
<1> HIDE DEF d
<1>5. Asked(d)
  BY <1>2, <1>3, <1>4 DEF Asked
<1> QED
  BY <1>0, <1>3, <1>4, <1>5, AlikeSelf DEF Sending

\* RefreshOrders without a token asks nothing, and neither does Checkout.
LEMMA SendingDoes ==
  ASSUME CheckInv,
         \/ ResendVerification \/ DeleteImage
         \/ RefreshOrders \/ CreateKey \/ RevokeKey \/ SaveProfile
         \/ \E i \in journey.images : UploadFile(i) \/ ImportBackup(i)
         \/ \E cycle \in Cycles : Checkout(cycle)
  PROVE  \/ \E g, c : Sending(g, c)
         \/ On("pricing") /\ app.token = 0 /\ (Set([ui EXCEPT !.rows = NoRows]) \/ Show("auth"))
<1>0. /\ UiShape(ui, Len(sessions)) /\ 0 \in 0..Len(sessions) /\ Alike(ui, ui)
      /\ app.token \in 0..Len(sessions) /\ Len(sessions) \in Nat /\ journey.images \subseteq Images
  BY PageFacts, JourneyFacts, AlikeSelf
<1>1. /\ \A x : UiShape([ui EXCEPT !.busy = x], Len(sessions)) /\ Alike([ui EXCEPT !.busy = x], ui)
      /\ UiShape([ui EXCEPT !.resending = TRUE], Len(sessions)) /\ Alike([ui EXCEPT !.resending = TRUE], ui)
      /\ UiShape([ui EXCEPT !.loading = TRUE], Len(sessions)) /\ Alike([ui EXCEPT !.loading = TRUE], ui)
  BY <1>0, AlikeUi
<1>2. CASE ResendVerification
  BY <1>0, <1>1, <1>2, SendingAsk DEF ResendVerification, Signing
<1>3. CASE DeleteImage
  <2>1. Send(ui, Ask("delete", app.token, ui.selected.img)) /\ Detail
    BY <1>3 DEF DeleteImage
  <2> QED
    BY <1>0, <2>1, SendingAsk DEF Signing
<1>4. CASE RefreshOrders
  <2>1. CASE app.token = 0
    BY <1>4, <2>1 DEF RefreshOrders
  <2>2. CASE app.token # 0
    BY <1>0, <1>1, <1>4, <2>2, SendingAsk DEF RefreshOrders, Signing
  <2> QED
    BY <2>1, <2>2
<1>5. CASE CreateKey
  BY <1>0, <1>5, SendingAsk DEF CreateKey, Signing
<1>6. CASE RevokeKey
  BY <1>0, <1>6, SendingAsk DEF RevokeKey, Signing
<1>7. CASE SaveProfile
  BY <1>0, <1>7, SendingAsk DEF SaveProfile, Signing
<1>8. ASSUME NEW i \in journey.images, UploadFile(i)
      PROVE  \E g, c : Sending(g, c)
  BY <1>0, <1>1, <1>8, SendingAsk DEF UploadFile
<1>9. ASSUME NEW i \in journey.images, ImportBackup(i)
      PROVE  \E g, c : Sending(g, c)
  <2>1. Send(ui, Ask("import", app.token, i)) /\ (app.token # 0 => Owner[i] = Acct(app.token))
    BY <1>9 DEF ImportBackup
  <2> QED
    BY <1>0, <2>1, SendingAsk DEF Signing
<1>10. ASSUME NEW cycle \in Cycles, Checkout(cycle)
       PROVE  \/ \E g, c : Sending(g, c)
              \/ On("pricing") /\ app.token = 0 /\ Show("auth")
  <2>1. CASE app.token = 0
    BY <1>10, <2>1 DEF Checkout
  <2>2. CASE app.token # 0
    <3>1. \/ Send([ui EXCEPT !.busy = cycle], Ask("oauth", 0, Nobody))
          \/ Send([ui EXCEPT !.busy = cycle], Ask("checkout", app.token, cycle))
      BY <1>10, <2>2 DEF Checkout
    <3>2. On("pricing") /\ "oauth" \notin Signing /\ "checkout" \notin Signing
      BY <1>10 DEF Checkout, Signing
    <3>3. CASE Send([ui EXCEPT !.busy = cycle], Ask("oauth", 0, Nobody))
      BY <1>0, <1>1, <3>2, <3>3, SendingAsk
    <3>4. CASE Send([ui EXCEPT !.busy = cycle], Ask("checkout", app.token, cycle))
      BY <1>0, <1>1, <2>2, <3>2, <3>4, SendingAsk
    <3> QED
      BY <3>1, <3>3, <3>4
  <2> QED
    BY <2>1, <2>2
<1> QED
  BY <1>2, <1>3, <1>4, <1>5, <1>6, <1>7, <1>8, <1>9, <1>10

LEMMA ActDoes ==
  ASSUME CheckInv, Act
  PROVE  \/ \E v \in Views : Show(v)
         \/ Logout
         \/ \E item \in app.gallery : Select(item)
         \/ Back
         \/ \E m \in Modes : SwitchMode(m)
         \/ \E x \in Names : EditAlias(x)
         \/ \E g, c : Sending(g, c)
         \/ On("pricing") /\ app.token = 0 /\ Set([ui EXCEPT !.rows = NoRows])
         \/ \E v \in {"landing", "docs"} : Reload(v)
<1>1. CASE \/ OpenAuth \/ LeaveAuth \/ OpenDocs \/ HashDocs \/ CloseDocs \/ DocsLogin
           \/ \E v \in AppViews : Navigate(v)
  BY <1>1 DEF OpenAuth, LeaveAuth, OpenDocs, HashDocs, CloseDocs, DocsLogin, Navigate, Views, AppViews
<1>2. CASE \/ ResendVerification \/ DeleteImage
           \/ RefreshOrders \/ CreateKey \/ RevokeKey \/ SaveProfile
           \/ \E i \in journey.images : UploadFile(i) \/ ImportBackup(i)
           \/ \E cycle \in Cycles : Checkout(cycle)
  BY <1>2, SendingDoes DEF Views
<1>3. CASE (\E a \in journey.who : Submit(a)) \/ StartIFPayOAuth \/ TogglePrivacy
  BY <1>3, SubmitDoes, OAuthDoes, ToggleDoes
<1> QED
  BY <1>1, <1>2, <1>3 DEF Act

LEMMA AppFacts ==
  ASSUME CheckInv
  PROVE  IsApp(app) /\ IsUi(ui) /\ UiShape(ui, Len(sessions)) /\ Len(sessions) \in Nat /\ Alike(ui, ui)
         /\ app.token \in 0..Len(sessions) /\ kept \in 0..Len(sessions)
  BY PageFacts, UiIs, AppIs, AlikeSelf

LEMMA LogoutDoes ==
  ASSUME CheckInv, Logout
  PROVE  Render(AppRec("landing", NoUser, Nobody, 0, FALSE, app.gallery), ui, wire, astray \ {"session"}, FALSE)
<1>1. AtLogout(app, NoUser, Nobody, 0, FALSE, "landing")
        = AppRec("landing", NoUser, Nobody, 0, FALSE, app.gallery)
  BY AppFacts, AppLogout
<1>2. Render(AtLogout(app, NoUser, Nobody, 0, FALSE, "landing"), ui, wire, astray \ {"session"}, FALSE)
  BY DEF Logout, AtLogout
<1> QED
  BY <1>1, <1>2

LEMMA ShowDoes ==
  ASSUME CheckInv, NEW v, Show(v)
  PROVE  Render(AppRec(v, app.user, app.usage, app.token, app.ifpay, app.gallery), ui, wire, astray, FALSE)
  BY AppFacts, AppShown DEF Show

LEMMA SelectDoes ==
  ASSUME CheckInv, NEW g, NEW x, g = [ui EXCEPT !.selected = x]
  PROVE  /\ UiShape(g, Len(sessions)) /\ g.selected = x
         /\ g.pending = ui.pending /\ g.rows = ui.rows /\ g.alias = ui.alias
<1>1. g = UiRec(ui.mode, ui.pending, ui.reset, ui.busy, ui.resending, x, ui.rows, ui.loading, ui.alias)
  BY AppFacts, UiSelected
<1>2. UiShape(g, Len(sessions))
  BY AppFacts, SetUi
<1> QED
  BY <1>1, <1>2 DEF UiRec

LEMMA RowsDoes ==
  ASSUME CheckInv, NEW g, NEW x, g = [ui EXCEPT !.rows = x]
  PROVE  /\ UiShape(g, Len(sessions)) /\ g.rows = x
         /\ g.pending = ui.pending /\ g.selected = ui.selected /\ g.alias = ui.alias
<1>1. g = UiRec(ui.mode, ui.pending, ui.reset, ui.busy, ui.resending, ui.selected, x, ui.loading, ui.alias)
  BY AppFacts, UiRows
<1>2. UiShape(g, Len(sessions))
  BY AppFacts, SetUi
<1> QED
  BY <1>1, <1>2 DEF UiRec

LEMMA AliasDoes ==
  ASSUME CheckInv, NEW g, NEW x, g = [ui EXCEPT !.alias = x]
  PROVE  /\ UiShape(g, Len(sessions)) /\ g.alias = x
         /\ g.pending = ui.pending /\ g.selected = ui.selected /\ g.rows = ui.rows
<1>1. g = UiRec(ui.mode, ui.pending, ui.reset, ui.busy, ui.resending, ui.selected, ui.rows, ui.loading, x)
  BY AppFacts, UiAlias
<1>2. UiShape(g, Len(sessions))
  BY AppFacts, SetUi
<1> QED
  BY <1>1, <1>2 DEF UiRec

LEMMA ListDoes ==
  ASSUME CheckInv, NEW g, NEW x, g = [ui EXCEPT !.rows = x, !.loading = FALSE]
  PROVE  /\ UiShape(g, Len(sessions)) /\ g.rows = x
         /\ g.pending = ui.pending /\ g.selected = ui.selected /\ g.alias = ui.alias
<1>1. g = UiRec(ui.mode, ui.pending, ui.reset, ui.busy, ui.resending, ui.selected, x, FALSE, ui.alias)
  BY AppFacts, UiListed
<1>2. UiShape(g, Len(sessions))
  BY AppFacts, SetRowsLoading
<1> QED
  BY <1>1, <1>2 DEF UiRec

LEMMA SignedInDoes ==
  ASSUME CheckInv, NEW c \in wire, SignedIn(c)
  PROVE  \E g : /\ UiShape(g, Len(sessions)) /\ Alike(g, ui)
                /\ Done(c, AppRec("dashboard", c.got.user, Nobody, c.got.tok, app.ifpay, app.gallery), g,
                        Checked(astray, c, {"session", "profile"}))
<1> DEFINE g == [ui EXCEPT !.busy = ""]
           p == AtLogin(app, c.got.tok, c.got.user, Nobody, "dashboard")
<1>1. Done(c, p, g, Checked(astray, c, {"session", "profile"}))
  BY DEF SignedIn, AtLogin
<1>2. UiShape(g, Len(sessions)) /\ Alike(g, ui)
  BY AppFacts, AlikeUi
<1>3. p = AppRec("dashboard", c.got.user, Nobody, c.got.tok, app.ifpay, app.gallery)
  BY AppFacts, AppLogin
<1> HIDE DEF p, g
<1> QED
  BY <1>1, <1>2, <1>3

LEMMA CallbackDoes ==
  ASSUME CheckInv, NEW c \in wire, IFPayCallback(c)
  PROVE  Done(c, AppRec("pricing", c.got.user, app.usage, c.got.tok, TRUE, app.gallery), ui,
              Checked(IF app.usage \in {Nobody, c.got.user.of} THEN astray ELSE astray \cup {"usage"},
                      c, {"session", "profile"}))
<1> DEFINE p == AtCallback(app, c.got.tok, c.got.user, TRUE, "pricing")
<1>1. Done(c, p, ui, Checked(IF app.usage \in {Nobody, c.got.user.of} THEN astray ELSE astray \cup {"usage"},
                             c, {"session", "profile"}))
  BY DEF IFPayCallback, AtCallback
<1>2. p = AppRec("pricing", c.got.user, app.usage, c.got.tok, TRUE, app.gallery)
  BY AppFacts, AppCallback
<1> HIDE DEF p
<1> QED
  BY <1>1, <1>2

\* AuthView and the banner that resends
LEMMA AuthDoes ==
  ASSUME CheckInv, NEW c \in wire, AuthAnswered(c)
  PROVE  \E g : /\ UiShape(g, Len(sessions)) /\ Done(c, app, g, astray)
                /\ g.selected = ui.selected /\ g.rows = ui.rows /\ g.alias = ui.alias
                /\ \/ g.pending = ui.pending
                   \/ c.kind = "register" /\ g.pending = [of |-> c.arg, tok |-> c.got.tok]
<1> DEFINE idle == [ui EXCEPT !.busy = ""]
           known == [of |-> c.arg, tok |-> c.got.tok]
           g1 == [idle EXCEPT !.pending = known, !.mode = "verify"]
           g2 == [idle EXCEPT !.reset = c.arg, !.mode = "reset"]
           g3 == [idle EXCEPT !.reset = Nobody, !.mode = "login"]
<1>1. UiShape(idle, Len(sessions)) /\ Alike(idle, ui) /\ IsUi(idle)
  BY AppFacts, AlikeUi, UiIs
<1>2. UiShape(Resent, Len(sessions)) /\ Alike(Resent, ui)
  BY AppFacts, AlikeUi DEF Resent
<1>3. CASE c.kind = "resend"
  <2>1. Done(c, app, Resent, astray)
    BY <1>3 DEF AuthAnswered
  <2> QED
    BY <1>2, <2>1 DEF Alike
<1>4. CASE c.kind = "register"
  <2>1. Done(c, app, g1, astray)
    BY <1>4 DEF AuthAnswered
  <2> HIDE DEF idle
  <2>2. UiShape(g1, Len(sessions))
    BY <1>1, AppFacts, SetPendingMode, AnswerFacts DEF Modes
  <2>3. /\ g1.pending = known /\ g1.selected = idle.selected /\ g1.rows = idle.rows
        /\ g1.alias = idle.alias
    BY <1>1, UiRegistered DEF UiRec
  <2> HIDE DEF g1
  <2> QED
    BY <1>1, <1>4, <2>1, <2>2, <2>3 DEF Alike
<1>5. ASSUME c.kind \in {"forgot", "reset"}
      PROVE  \E x : \E m \in Modes : Done(c, app, [idle EXCEPT !.reset = x, !.mode = m], astray)
  BY <1>5 DEF AuthAnswered, Modes
<1>6. CASE c.kind \in {"forgot", "reset"}
  <2>1. PICK x : \E m \in Modes : Done(c, app, [idle EXCEPT !.reset = x, !.mode = m], astray)
    BY <1>5, <1>6
  <2>2. PICK m \in Modes : Done(c, app, [idle EXCEPT !.reset = x, !.mode = m], astray)
    BY <2>1
  <2> DEFINE g == [idle EXCEPT !.reset = x, !.mode = m]
  <2> HIDE DEF idle
  <2>3. UiShape(g, Len(sessions))
    BY <1>1, AppFacts, SetResetMode
  <2>4. /\ g.pending = idle.pending /\ g.selected = idle.selected /\ g.rows = idle.rows
        /\ g.alias = idle.alias
    BY <1>1, UiReset DEF UiRec
  <2>5. Done(c, app, g, astray)
    BY <2>2
  <2> HIDE DEF g
  <2> QED
    BY <1>1, <2>3, <2>4, <2>5 DEF Alike
<1> QED
  BY <1>3, <1>4, <1>6 DEF AuthAnswered, Answered

LEMMA LoadedDoes ==
  ASSUME CheckInv, NEW c \in wire, Loaded(c), c.live
  PROVE  Done(c, AppRec(IF app.view \in {"landing", "auth"} THEN "dashboard" ELSE app.view, c.got.user,
                        c.got.user.of, app.token, app.ifpay, c.got.items), ui,
              Detached(Checked(astray, c, {"session", "usage", "gallery", "profile"}), c.got.items))
<1> DEFINE v == IF app.view \in {"landing", "auth"} THEN "dashboard" ELSE app.view
           p == AtLoad(app, c.got.user, c.got.user.of, c.got.items, v)
<1>1. Done(c, p, ui, Detached(Checked(astray, c, {"session", "usage", "gallery", "profile"}), c.got.items))
  BY DEF Loaded, AtLoad
<1> HIDE DEF v
<1>2. p = AppRec(v, c.got.user, c.got.user.of, app.token, app.ifpay, c.got.items)
  BY AppFacts, AppLoad
<1> HIDE DEF p
<1> QED
  BY <1>1, <1>2 DEF v

LEMMA LoadFailedDoes ==
  ASSUME CheckInv, NEW c \in wire, LoadFailed(c)
  PROVE  Done(c, AppRec(app.view, app.user, app.usage, 0, app.ifpay, app.gallery), ui,
              IF app.user = NoUser THEN astray ELSE astray \cup {"session"})
<1>1. [app EXCEPT !.token = 0] = AppRec(app.view, app.user, app.usage, 0, app.ifpay, app.gallery)
  BY AppFacts, AppEnded
<1> QED
  BY <1>1 DEF LoadFailed

LEMMA MeDoes ==
  ASSUME CheckInv, NEW c \in wire, MeAnswered(c)
  PROVE  Done(c, AppRec(app.view, c.got.user, c.got.user.of, app.token, app.ifpay, app.gallery), ui,
              Full(astray, c, {"session", "usage", "profile"}))
<1> DEFINE p == [app EXCEPT !.user = c.got.user, !.usage = c.got.user.of]
<1>1. Done(c, p, ui, Full(astray, c, {"session", "usage", "profile"}))
  BY DEF MeAnswered
<1>2. p = AppRec(app.view, c.got.user, c.got.user.of, app.token, app.ifpay, app.gallery)
  BY AppFacts, AppMe
<1> HIDE DEF p
<1> QED
  BY <1>1, <1>2

LEMMA ProfileDoes ==
  ASSUME CheckInv, NEW c \in wire, ProfileSaved(c)
  PROVE  Done(c, AppRec(app.view, c.got.user, app.usage, app.token, app.ifpay, app.gallery), ui,
              Partial(astray \ {"profile"}, c, {"session", "profile"}))
<1>1. [app EXCEPT !.user = c.got.user]
        = AppRec(app.view, c.got.user, app.usage, app.token, app.ifpay, app.gallery)
  BY AppFacts, AppSaved
<1> QED
  BY <1>1 DEF ProfileSaved

\* App with another gallery
LEMMA Listed ==
  ASSUME CheckInv, NEW p, NEW s, p = [app EXCEPT !.gallery = s]
  PROVE  p = AppRec(app.view, app.user, app.usage, app.token, app.ifpay, s)
  BY AppFacts, AppListed

LEMMA ImagesDoes ==
  ASSUME CheckInv, NEW c \in wire, ImagesAnswered(c)
  PROVE  Done(c, AppRec(app.view, app.user, app.usage, app.token, app.ifpay, c.got.items), ui,
              Detached(Full(astray, c, {"gallery"}), c.got.items))
<1>1. [app EXCEPT !.gallery = c.got.items]
        = AppRec(app.view, app.user, app.usage, app.token, app.ifpay, c.got.items)
  BY AppFacts, AppListed
<1> QED
  BY <1>1 DEF ImagesAnswered

LEMMA UploadDoes ==
  ASSUME CheckInv, NEW c \in wire, UploadAnswered(c)
  PROVE  \E d : /\ Render(app, ui, (wire \ {c}) \cup {d}, astray, FALSE)
                /\ CallShape(d, Len(sessions)) /\ CallTrue(d)
                /\ d.kind = c.kind /\ d.tok = c.tok /\ d.arg = c.arg /\ d.want = c.want
                /\ d.live = c.live /\ d.stale = c.stale /\ d.at = "timer" /\ d.got = c.got
<1> DEFINE d == [c EXCEPT !.at = "timer"]
<1>1. Render(app, ui, (wire \ {c}) \cup {d}, astray, FALSE) /\ c.kind = "upload"
  BY DEF UploadAnswered, Answered
<1>2. CallShape(c, Len(sessions)) /\ CallTrue(c)
  BY PageFacts DEF Calls
<1>3. /\ d.kind = c.kind /\ d.tok = c.tok /\ d.arg = c.arg /\ d.want = c.want
      /\ d.live = c.live /\ d.stale = c.stale /\ d.at = "timer" /\ d.got = c.got
  BY <1>2, SetAtKin
<1>4. CallShape(d, Len(sessions)) /\ CallTrue(d)
  BY <1>1, <1>2, AppFacts, SetTimer DEF Becomes
<1> HIDE DEF d
<1> QED
  BY <1>1, <1>3, <1>4

LEMMA ShownDoes ==
  ASSUME CheckInv, NEW c \in wire, UploadShown(c)
  PROVE  \E g : /\ UiShape(g, Len(sessions)) /\ Alike(g, ui)
                /\ Render(AppRec("gallery", app.user, app.usage, app.token, app.ifpay, app.gallery \cup c.got.items),
                          Local(c, g), (wire \ {c}) \cup {Ask("images", c.tok, Nobody), Ask("me", c.tok, Nobody)},
                          Partial(astray, c, {"gallery"}), FALSE)
<1> DEFINE x == app.gallery \cup c.got.items
           p == [app EXCEPT !.gallery = x, !.view = "gallery"]
           g == [ui EXCEPT !.busy = ""]
<1>1. Render(p, Local(c, g), (wire \ {c}) \cup {Ask("images", c.tok, Nobody), Ask("me", c.tok, Nobody)},
             Partial(astray, c, {"gallery"}), FALSE)
  BY DEF UploadShown
<1>2. UiShape(g, Len(sessions)) /\ Alike(g, ui)
  BY AppFacts, AlikeUi
<1> HIDE DEF x
<1>3. p = AppRec("gallery", app.user, app.usage, app.token, app.ifpay, x)
  BY AppFacts, AppAdded
<1> HIDE DEF p, g
<1> QED
  BY <1>1, <1>2, <1>3 DEF x

LEMMA DeleteDoes ==
  ASSUME CheckInv, NEW c \in wire, DeleteAnswered(c)
  PROVE  \E g : /\ UiShape(g, Len(sessions)) /\ g.selected = NoItem
                /\ g.pending = ui.pending /\ g.rows = ui.rows /\ g.alias = ui.alias
                /\ Done(c, AppRec(app.view, app.user, app.usage, app.token, app.ifpay,
                                  {item \in app.gallery : item.img # c.arg}), g,
                        Partial(Orphaned(astray, c), c, {"gallery"}))
<1> DEFINE x == {item \in app.gallery : item.img # c.arg}
           p == [app EXCEPT !.gallery = x]
           g == [ui EXCEPT !.selected = NoItem]
<1>1. Done(c, p, g, Partial(Orphaned(astray, c), c, {"gallery"}))
  BY DEF DeleteAnswered
<1> HIDE DEF x
<1>2. p = AppRec(app.view, app.user, app.usage, app.token, app.ifpay, x)
  BY Listed
<1>3. /\ UiShape(g, Len(sessions)) /\ g.selected = NoItem
      /\ g.pending = ui.pending /\ g.rows = ui.rows /\ g.alias = ui.alias
  BY SelectDoes
<1> HIDE DEF p, g
<1> QED
  BY <1>1, <1>2, <1>3 DEF x

LEMMA ToggledDoes ==
  ASSUME CheckInv, NEW c \in wire, ToggleAnswered(c)
  PROVE  \E g, new, x :
           /\ UiShape(g, Len(sessions)) /\ g.selected = new
           /\ g.pending = ui.pending /\ g.rows = ui.rows /\ g.alias = ui.alias
           /\ new = CHOOSE item \in c.got.items : TRUE
           /\ x = {IF item.img = c.arg THEN new ELSE item : item \in app.gallery}
           /\ Done(c, AppRec(app.view, app.user, app.usage, app.token, app.ifpay, x), g,
                   Partial(Orphaned(astray, c), c, {"gallery", "detail"}))
<1> DEFINE new == CHOOSE item \in c.got.items : TRUE
           x == {IF item.img = c.arg THEN new ELSE item : item \in app.gallery}
           p == [app EXCEPT !.gallery = x]
           g == [ui EXCEPT !.selected = new]
<1>1. Done(c, p, g, Partial(Orphaned(astray, c), c, {"gallery", "detail"}))
  BY DEF ToggleAnswered
<1>0. new = CHOOSE item \in c.got.items : TRUE
  OBVIOUS
<1> HIDE DEF new
<1>x. x = {IF item.img = c.arg THEN new ELSE item : item \in app.gallery}
  OBVIOUS
<1> HIDE DEF x
<1>2. p = AppRec(app.view, app.user, app.usage, app.token, app.ifpay, x)
  BY Listed
<1>3. /\ UiShape(g, Len(sessions)) /\ g.selected = new
      /\ g.pending = ui.pending /\ g.rows = ui.rows /\ g.alias = ui.alias
  BY SelectDoes
<1> HIDE DEF p, g
<1> QED
  BY <1>0, <1>x, <1>1, <1>2, <1>3

LEMMA CheckedOutDoes ==
  ASSUME CheckInv, NEW c \in wire, CheckedOut(c)
  PROVE  \E g : /\ UiShape(g, Len(sessions)) /\ Alike(g, ui)
                /\ Render(app, Local(c, g), wire \ {c}, astray, TRUE)
  BY AppFacts, AlikeUi DEF CheckedOut

LEMMA FailedDoes ==
  ASSUME CheckInv, NEW c \in wire, Failed(c)
  PROVE  \E g : UiShape(g, Len(sessions)) /\ Alike(g, ui) /\ Done(c, app, g, astray)
<1>1. UiShape([ui EXCEPT !.busy = ""], Len(sessions)) /\ Alike([ui EXCEPT !.busy = ""], ui)
  BY AppFacts, AlikeUi
<1>2. UiShape([ui EXCEPT !.resending = FALSE], Len(sessions)) /\ Alike([ui EXCEPT !.resending = FALSE], ui)
  BY AppFacts, AlikeUi
<1>3. \/ Done(c, app, ui, astray)
      \/ Done(c, app, [ui EXCEPT !.busy = ""], astray)
      \/ Done(c, app, [ui EXCEPT !.resending = FALSE], astray)
  BY DEF Failed, Resent
<1> QED
  BY <1>1, <1>2, <1>3, AppFacts

LEMMA KeyDoes ==
  ASSUME CheckInv, NEW c \in wire, KeyWritten(c)
  PROVE  \E d : /\ Render(app, ui, (wire \ {c}) \cup {d},
                          IF c.live THEN astray ELSE astray \cup {"rows"}, FALSE)
                /\ CallShape(d, Len(sessions)) /\ CallTrue(d)
                /\ d.kind = "keys" /\ d.tok = c.tok /\ d.arg = Nobody /\ d.want = FALSE
                /\ d.live = c.live /\ d.stale = FALSE /\ d.at = "sent" /\ d.got = NoAnswer
<1> DEFINE k == Ask("keys", c.tok, Nobody)
           d == [k EXCEPT !.live = c.live]
<1>1. Render(app, ui, (wire \ {c}) \cup {d}, IF c.live THEN astray ELSE astray \cup {"rows"}, FALSE)
  BY DEF KeyWritten
<1>2. CallShape(k, Len(sessions)) /\ CallTrue(k)
  BY PageFacts, AnswerFacts, AskShape DEF Signing
<1>3. /\ k.kind = "keys" /\ k.tok = c.tok /\ k.arg = Nobody /\ k.want = FALSE /\ k.stale = FALSE
      /\ k.at = "sent" /\ k.got = NoAnswer
  BY DEF Ask
<1> HIDE DEF k
<1>4. CallShape(d, Len(sessions)) /\ CallTrue(d)
  BY <1>2, AppFacts, SetLive
<1>5. Kin(k, d) /\ d.live = c.live /\ d.stale = k.stale
  BY <1>2, SetLiveKin
<1> HIDE DEF d
<1> QED
  BY <1>1, <1>3, <1>4, <1>5 DEF Kin

\* The calls that follow an upload
LEMMA RefreshCalls ==
  ASSUME CheckInv, NEW c \in wire, UploadShown(c)
  PROVE  /\ c.kind = "upload" /\ c.tok # 0 /\ c.tok \in 0..Len(sessions)
         /\ Calls((wire \ {c}) \cup {Ask("images", c.tok, Nobody), Ask("me", c.tok, Nobody)}, Len(sessions))
<1>1. c.kind = "upload" /\ c.tok # 0 /\ c.tok \in 0..Len(sessions)
  BY AnswerFacts DEF UploadShown
<1>2. /\ CallShape(Ask("images", c.tok, Nobody), Len(sessions)) /\ CallTrue(Ask("images", c.tok, Nobody))
      /\ CallShape(Ask("me", c.tok, Nobody), Len(sessions)) /\ CallTrue(Ask("me", c.tok, Nobody))
  BY <1>1, AppFacts, AskShape
<1> QED
  BY <1>1, <1>2, AnswerFacts DEF Calls
=============================================================================
