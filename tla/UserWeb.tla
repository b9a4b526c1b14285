------------------------------ MODULE UserWeb ------------------------------
(***************************************************************************)
(* The user web application: one browser page (a React tree) against the   *)
(* API.  The page learns what the server has only from the answers to its  *)
(* calls; calls in flight are served and answered in any order, and the    *)
(* handler of an answer works with the token, the user and the view of the *)
(* moment the call was made, or with those of the moment it arrives,       *)
(* whichever the code captured.                                            *)
(*                                                                         *)
(* React is modelled by Render: it commits the new state of App, mounts    *)
(* and unmounts views, runs the effects whose dependencies changed and     *)
(* their clean-up.  The server is external: it holds sessions, accounts    *)
(* and, per account, images, orders, keys and a nickname.                  *)
(***************************************************************************)
EXTENDS Naturals, FiniteSets, Sequences

CONSTANTS
  Accounts,
  Members,      \* accounts registered and verified before the page opens
  Nobody,       \* no account
  Images,
  Owner,        \* Owner[i]: the account that may upload image i
  MaxWrites,    \* bound: orders, and key changes, of one account
  Journeys      \* bound: what one behaviour does.  A journey has the views and
                \* forms it visits, the accounts that sign in, the images
                \* they add, and how many sessions, reloads, calls in flight
                \* and faults it may have; a fault is a call that fails
                \* though it could be served.

ASSUME AccountAssumption == Members \subseteq Accounts /\ Nobody \notin Accounts
ASSUME OwnerAssumption == Owner \in [Images -> Accounts]

VARIABLES
  sessions,  \* sessions[t]: the account of token t
  members,   \* registered accounts
  verified,  \* accounts whose mail address is verified
  names,     \* nicknames
  stored,    \* images the server lists
  hidden,    \* those of them that are public no longer
  used,      \* images ever uploaded or imported
  written,   \* orders, and changes of keys, so far
  kept,      \* TOKEN_KEY in localStorage, 0 for none
  app,       \* the state of App
  ui,        \* the local state of the mounted view
  wire,      \* calls in flight, and uploads in their last 250 ms
  reloads,   \* times the page was left
  faults,    \* faults so far
  journey,   \* the journey that bounds this behaviour
  astray     \* history: what an answer, late or lost, has put out of step

server == <<sessions, members, verified, names, stored, hidden, used, written>>
bounds == <<reloads, faults, journey>>
vars == <<server, kept, app, ui, wire, bounds, astray>>

AppViews == {"dashboard", "upload", "gallery", "pricing", "api", "security", "backup", "settings"}
Views == AppViews \cup {"landing", "docs", "auth"}
Modes == {"login", "register", "verify", "forgot", "reset"}
\* What a journey may visit: views, forms of AuthView and IF-Pay
Visits == AppViews \cup {"docs", "register", "forgot", "oauth"}
Topics == {"session", "usage", "gallery", "detail", "profile", "rows"}
Names == {"first", "second"}
Cycles == {"monthly", "yearly"}
Lists == {"orders", "keys"}

ASSUME BoundAssumption ==
  /\ MaxWrites \in Nat
  /\ Journeys \subseteq [visits : SUBSET Visits, who : SUBSET Accounts, images : SUBSET Images, sessions : Nat,
                         reloads : Nat, wire : Nat, faults : Nat]

\* What the page shows of an account: mapUser, of an image: mapImage
NoUser == [of |-> Nobody, name |-> "", verified |-> FALSE]
Users == {NoUser} \cup [of : Accounts, name : Names, verified : BOOLEAN]
NoItem == [img |-> Nobody, private |-> FALSE]
Items == [img : Images, private : BOOLEAN]
NoRows == [of |-> Nobody, n |-> 0]
NoContext == [of |-> Nobody, tok |-> 0]
NoAnswer == [user |-> NoUser, items |-> {}, rows |-> NoRows, tok |-> 0]

SignIns == {"login", "register", "verify", "callback"}
Reads == {"load", "images", "me", "orders", "reorders", "keys"}
Unauthorized == {"login", "register", "verify", "callback", "resend", "forgot", "reset", "oauth"}
Kinds == Reads \cup Unauthorized \cup
         {"upload", "delete", "toggle", "import", "checkout", "create", "revoke", "profile"}

\* Calls whose answer App alone handles: no view is waiting for it
AppOnly == {"load", "images", "me", "callback"}

Carries(kind) == CASE kind = "load" -> {"gallery", "profile"}
                   [] kind \in {"images", "upload", "delete", "toggle"} -> {"gallery"}
                   [] kind \in {"me", "login", "verify", "callback", "profile"} -> {"profile"}
                   [] kind \in {"orders", "reorders", "keys"} -> {"rows"}
                   [] OTHER -> {}

Acct(t) == IF t = 0 THEN Nobody ELSE sessions[t]
Me(a) == [of |-> a, name |-> names[a], verified |-> a \in verified]
List(a) == {[img |-> i, private |-> i \in hidden] : i \in {j \in stored : Owner[j] = a}}
Rows(a, l) == [of |-> a, n |-> written[a][l]]
About(c) == Acct(IF c.got.tok # 0 THEN c.got.tok ELSE c.tok)

Ask(kind, tok, arg) ==
  [kind |-> kind, tok |-> tok, arg |-> arg, want |-> FALSE, live |-> TRUE,
   stale |-> FALSE, at |-> "sent", got |-> NoAnswer]

Call(c) ==
  /\ c.kind \in Kinds /\ c.tok \in 0..Len(sessions)
  /\ c.want \in BOOLEAN /\ c.live \in BOOLEAN /\ c.stale \in BOOLEAN
  /\ c.at \in {"sent", "ok", "failed", "timer"}
  /\ c.got.user \in Users /\ c.got.items \subseteq Items /\ c.got.tok \in 0..Len(sessions)

TypeOK ==
  /\ Len(sessions) <= journey.sessions /\ \A t \in DOMAIN sessions : sessions[t] \in members
  /\ members \subseteq Accounts /\ verified \subseteq members
  /\ names \in [Accounts -> Names]
  /\ stored \subseteq used /\ hidden \subseteq stored /\ used \subseteq Images
  /\ written \in [Accounts -> [Lists -> 0..MaxWrites]]
  /\ kept \in 0..Len(sessions)
  /\ app.view \in Views /\ app.user \in Users /\ app.usage \in Accounts \cup {Nobody}
  /\ app.token \in 0..Len(sessions) /\ app.ifpay \in BOOLEAN /\ app.gallery \subseteq Items
  /\ ui.mode \in Modes /\ ui.pending.tok \in 0..Len(sessions)
  /\ ui.busy \in Cycles \cup {"", "yes"} /\ ui.resending \in BOOLEAN /\ ui.loading \in BOOLEAN
  /\ ui.selected \in Items \cup {NoItem} /\ ui.alias \in Names \cup {""}
  /\ Cardinality(wire) <= journey.wire /\ \A c \in wire : Call(c)
  /\ reloads \in 0..journey.reloads /\ faults \in 0..journey.faults
  /\ journey \in Journeys /\ astray \subseteq Topics

-----------------------------------------------------------------------------
(* React.                                                                  *)

\* What App returns: the view that is on the screen
Screen(p) ==
  IF p.view = "docs" THEN "docs"
  ELSE IF p.user = NoUser THEN IF p.view = "auth" THEN "auth" ELSE "landing"
  ELSE IF p.view \in {"landing", "auth"} THEN "dashboard" ELSE p.view

\* The local state of a view as it is mounted.  One record serves them all.
Mounted(p) ==
  [mode |-> "login", pending |-> NoContext, reset |-> Nobody, busy |-> "", resending |-> FALSE,
   selected |-> NoItem, rows |-> NoRows,
   loading |-> Screen(p) = "pricing" /\ p.token # 0,
   alias |-> IF Screen(p) = "settings" THEN p.user.name ELSE ""]

\* The effects that a commit runs: the session check of App on a new token,
\* the orders and the keys of the views that show them.
LoadEffect(p, fresh) == {c \in {Ask("load", p.token, Nobody)} : fresh /\ p.token # 0}
OrdersEffect(p, runs) == {c \in {Ask("orders", p.token, Nobody)} : runs /\ p.token # 0}
KeysEffect(p, runs) == {c \in {Ask("keys", p.token, Nobody)} : runs /\ p.token # 0}

\* Mutant: the effect that checks the session has no clean-up
CleanedButLoads(c, moved, fresh, again) ==
  [c EXCEPT !.live = /\ @
                     /\ ~(moved /\ c.kind \notin AppOnly)
                     /\ ~((fresh \/ again) /\ c.kind = "orders")]

\* A call stops mattering to the view that made it when that is unmounted,
\* and to an effect when its clean-up runs.
Cleaned(c, moved, fresh, again) ==
  [c EXCEPT !.live = /\ @
                     /\ ~(moved /\ c.kind \notin AppOnly)
                     /\ ~(fresh /\ c.kind = "load")
                     /\ ~((fresh \/ again) /\ c.kind = "orders")]

\* App goes to state p, the mounted view to g if it stays, the calls in flight
\* to w.  "again" says that ordersRefreshKey changed.
Render(p, g, w, a, again) ==
  LET moved == Screen(p) # Screen(app)
      fresh == p.token # app.token
      reads == Screen(p) = "pricing" /\ (moved \/ fresh \/ again)
  IN /\ app' = p
     /\ ui' = IF moved THEN Mounted(p)
              ELSE [g EXCEPT !.loading = IF reads THEN p.token # 0 ELSE @,
                             !.rows = IF reads /\ p.token = 0 THEN NoRows ELSE @,
                             !.alias = IF Screen(p) = "settings" /\ p.user.name # app.user.name
                                       THEN p.user.name ELSE @]
     /\ wire' = {Cleaned(c, moved, fresh, again) : c \in w}
                  \cup LoadEffect(p, fresh) \cup OrdersEffect(p, reads)
                  \cup KeysEffect(p, Screen(p) = "api" /\ (moved \/ fresh))
     /\ Cardinality(wire') <= journey.wire
     /\ astray' = IF moved THEN a \ {"rows", "detail"} ELSE a

Opened(v) == [view |-> v, user |-> NoUser, usage |-> Nobody, token |-> kept,
              ifpay |-> app.ifpay, gallery |-> {}]

Init ==
  /\ sessions = <<>> /\ members = Members /\ verified = Members
  /\ names = [a \in Accounts |-> "first"]
  /\ stored = {} /\ hidden = {} /\ used = {}
  /\ written = [a \in Accounts |-> [l \in Lists |-> 0]]
  /\ kept = 0
  /\ app = [view |-> "landing", user |-> NoUser, usage |-> Nobody, token |-> 0,
            ifpay |-> FALSE, gallery |-> {}]
  /\ ui = Mounted(app)
  /\ wire = {}
  /\ reloads = 0 /\ faults = 0 /\ astray = {}
  /\ journey \in Journeys

\* The page is left, by the user or for IF-Pay, and opened again.
Reopen(v, calls) ==
  /\ reloads < journey.reloads /\ reloads' = reloads + 1
  /\ app' = Opened(v)
  /\ ui' = Mounted(app')
  /\ wire' = LoadEffect(app', TRUE) \cup calls
  /\ Cardinality(wire') <= journey.wire
  /\ astray' = {}
  /\ UNCHANGED <<server, kept, faults, journey>>

Reload(v) == v \in {"landing", "docs"} \cap (journey.visits \cup {"landing"}) /\ Reopen(v, {})

-----------------------------------------------------------------------------
(* The server (external).                                                  *)

Fault == faults < journey.faults /\ faults' = faults + 1

\* A write of topic x for account a makes answers that were read before it
\* stale; on images, answers about one image only if it is that image.
Outdated(w, x, a, arg) ==
  {IF c.at \in {"ok", "timer"} /\ x \in Carries(c.kind) /\ About(c) = a
      /\ (x = "gallery" /\ c.kind \notin Reads => c.arg = arg)
   THEN [c EXCEPT !.stale = TRUE] ELSE c : c \in w}

\* The answer is on its way, or it is lost after the work was done.
Reply(c, got, x, a) ==
  LET rest == Outdated(wire \ {c}, x, a, c.arg)
  IN \/ /\ wire' = rest \cup {[c EXCEPT !.at = "ok", !.got = got]}
        /\ UNCHANGED <<faults, astray>>
     \/ /\ Fault
        /\ wire' = rest \cup {[c EXCEPT !.at = "failed"]}
        /\ astray' = astray \cup ({x} \cap Topics)

Served(c, kinds) == c.at = "sent" /\ c.kind \in kinds
ByServer == UNCHANGED <<kept, app, ui, reloads, journey>>

ServeRead(c) ==
  /\ Served(c, Reads)
  /\ LET a == Acct(c.tok)
         full == [user |-> IF c.kind \in {"load", "me"} THEN Me(a) ELSE NoUser,
                  items |-> IF c.kind \in {"load", "images"} THEN List(a) ELSE {},
                  rows |-> CASE c.kind = "keys" -> Rows(a, "keys")
                             [] c.kind \in {"orders", "reorders"} -> Rows(a, "orders")
                             [] OTHER -> NoRows,
                  tok |-> 0]
     IN wire' = (wire \ {c}) \cup {[c EXCEPT !.at = "ok", !.got = full]}
  /\ ByServer /\ UNCHANGED <<server, faults, astray>>

\* A sign-in makes a session; IF-Pay may name any account.
ServeSignIn(c, a) ==
  /\ Served(c, {"login", "register", "callback"})
  /\ CASE c.kind = "login" -> a = c.arg /\ a \in members
       [] c.kind = "register" -> a = c.arg /\ a \notin members
       [] c.kind = "callback" -> a \in members
  /\ sessions' = Append(sessions, a)
  /\ members' = members \cup {a}
  /\ Reply(c, [NoAnswer EXCEPT !.user = Me(a), !.tok = Len(sessions')], "none", a)
  /\ ByServer /\ UNCHANGED <<verified, names, stored, hidden, used, written>>

ServeVerify(c) ==
  /\ Served(c, {"verify"})
  /\ verified' = verified \cup {c.arg}
  /\ Reply(c, [NoAnswer EXCEPT !.user = [Me(c.arg) EXCEPT !.verified = TRUE], !.tok = c.tok],
           "profile", c.arg)
  /\ ByServer /\ UNCHANGED <<sessions, members, names, stored, hidden, used, written>>

ServeMail(c) ==
  /\ Served(c, {"resend", "forgot", "reset", "oauth"})
  /\ Reply(c, NoAnswer, "none", Nobody)
  /\ ByServer /\ UNCHANGED server

Shown(i, p) == {[img |-> i, private |-> p]}

ServeImage(c) ==
  /\ Served(c, {"upload", "import", "delete", "toggle"})
  /\ LET a == Acct(c.tok)
     IN CASE c.kind \in {"upload", "import"} ->
               /\ c.tok # 0 /\ (c.kind = "upload" => a \in verified) /\ c.arg \notin used
               /\ stored' = stored \cup {c.arg} /\ used' = used \cup {c.arg}
               /\ UNCHANGED hidden
               /\ Reply(c, [NoAnswer EXCEPT !.items = Shown(c.arg, FALSE)], "gallery", a)
          [] c.kind = "delete" ->
               /\ a = Owner[c.arg] /\ c.arg \in stored
               /\ stored' = stored \ {c.arg} /\ hidden' = hidden \ {c.arg}
               /\ UNCHANGED used
               /\ Reply(c, NoAnswer, "gallery", a)
          [] c.kind = "toggle" ->
               /\ a = Owner[c.arg] /\ c.arg \in stored
               /\ hidden' = IF c.want THEN hidden \cup {c.arg} ELSE hidden \ {c.arg}
               /\ UNCHANGED <<stored, used>>
               /\ Reply(c, [NoAnswer EXCEPT !.items = Shown(c.arg, c.want)], "gallery", a)
  /\ ByServer /\ UNCHANGED <<sessions, members, verified, names, written>>

ServeWrite(c) ==
  /\ Served(c, {"checkout", "create", "revoke"})
  /\ c.tok # 0 /\ (c.kind = "revoke" \/ Acct(c.tok) \in verified)
  /\ LET a == Acct(c.tok)
         l == IF c.kind = "checkout" THEN "orders" ELSE "keys"
     IN /\ written[a][l] < MaxWrites
        /\ written' = [written EXCEPT ![a][l] = @ + 1]
        /\ Reply(c, NoAnswer, "rows", a)
  /\ ByServer /\ UNCHANGED <<sessions, members, verified, names, stored, hidden, used>>

ServeProfile(c) ==
  /\ Served(c, {"profile"})
  /\ c.tok # 0
  /\ names' = [names EXCEPT ![Acct(c.tok)] = c.arg]
  /\ Reply(c, [NoAnswer EXCEPT !.user = [Me(Acct(c.tok)) EXCEPT !.name = c.arg]],
           "profile", Acct(c.tok))
  /\ ByServer /\ UNCHANGED <<sessions, members, verified, stored, hidden, used, written>>

\* What the server turns down, whoever sends it
Unservable(c) ==
  \/ c.kind \notin Unauthorized /\ c.tok = 0
  \/ c.kind = "login" /\ c.arg \notin members
  \/ c.kind = "register" /\ c.arg \in members
  \/ c.kind \in {"upload", "checkout", "create"} /\ Acct(c.tok) \notin verified
  \/ c.kind \in {"upload", "import"} /\ c.arg \in used
  \/ c.kind \in {"delete", "toggle"} /\ (c.arg \notin stored \/ Acct(c.tok) # Owner[c.arg])
  \/ c.kind \in {"checkout", "create", "revoke"} /\ c.tok # 0
       /\ written[Acct(c.tok)][IF c.kind = "checkout" THEN "orders" ELSE "keys"] = MaxWrites

Refuse(c) ==
  /\ c.at = "sent"
  /\ IF Unservable(c) THEN UNCHANGED faults ELSE Fault
  /\ wire' = (wire \ {c}) \cup {[c EXCEPT !.at = "failed"]}
  /\ ByServer /\ UNCHANGED <<server, astray>>

-----------------------------------------------------------------------------
(* What the user does.  The calls that leave the page take the token that  *)
(* the handler closed over.                                                *)

ByClient == UNCHANGED <<server, bounds>>
Show(v) == Render([app EXCEPT !.view = v], ui, wire, astray, FALSE) /\ ByClient /\ UNCHANGED kept
Send(g, c) == Render(app, g, wire \cup {c}, astray, FALSE) /\ ByClient /\ UNCHANGED kept
Set(g) == Render(app, g, wire, astray, FALSE) /\ ByClient /\ UNCHANGED kept

On(s) == Screen(app) = s

\* Mutant: a view that does not exist
OpenLogin == On("landing") /\ Show("login")

OpenAuth == On("landing") /\ Show("auth")
LeaveAuth == On("auth") /\ Show("landing")
OpenDocs == On("landing") /\ "docs" \in journey.visits /\ Show("docs")
HashDocs == "docs" \in journey.visits /\ app.view # "docs" /\ Show("docs")
CloseDocs == On("docs") /\ Show("landing")
DocsLogin == On("docs") /\ Show(IF app.user # NoUser THEN "dashboard" ELSE "auth")

\* The menu of AppLayout; navigate has a user whenever the menu is there.
Navigate(v) ==
  /\ app.user # NoUser /\ ~On("docs")
  /\ v \in {"dashboard"} \cup (journey.visits \cap AppViews) /\ Screen(app) # v
  /\ Show(v)

Logout ==
  /\ app.user # NoUser /\ ~On("docs")
  /\ kept' = 0
  /\ Render([app EXCEPT !.user = NoUser, !.usage = Nobody, !.token = 0, !.ifpay = FALSE,
                        !.view = "landing"], ui, wire, astray \ {"session"}, FALSE)
  /\ ByClient

\* The tabs and links of AuthView work while a form is being submitted.
SwitchMode(m) ==
  /\ On("auth")
  /\ \/ ui.mode \in {"login", "register"} /\ m \in {"login", "register"} \ {ui.mode}
     \/ ui.mode = "login" /\ m = "forgot"
     \/ ui.mode \in {"verify", "forgot", "reset"} /\ m = "login"
  /\ m \in {"login"} \cup journey.visits
  /\ Set([ui EXCEPT !.mode = m])

\* Every submit button is disabled while one form is being submitted.
CanSubmit == On("auth") /\ ui.busy = ""

SignInsLeft == Len(sessions) + Cardinality({c \in wire : c.at = "sent" /\ c.kind \in SignIns}) < journey.sessions

\* What the button of the current form sends
Submitted(a) ==
  CASE ui.mode = "login" -> {Ask("login", 0, a)}
    [] ui.mode = "register" -> {Ask("register", 0, a)}
    [] ui.mode = "verify" -> {Ask(k, ui.pending.tok, ui.pending.of) : k \in {"verify", "resend"}}
    [] ui.mode = "forgot" -> {Ask("forgot", 0, a)}
    [] ui.mode = "reset" -> {Ask("reset", 0, IF ui.reset # Nobody THEN ui.reset ELSE a)}

Submit(a) ==
  /\ CanSubmit
  /\ ui.mode \in {"login", "register"} => SignInsLeft
  /\ ui.mode = "verify" => ui.pending # NoContext
  /\ \E c \in Submitted(a) : Send([ui EXCEPT !.busy = "yes"], c)

\* PricingView has no flag for its own button: no view waits for that call.
StartIFPayOAuth ==
  /\ "oauth" \in journey.visits
  /\ \/ CanSubmit /\ Send([ui EXCEPT !.busy = "yes"], Ask("oauth", 0, Nobody))
     \/ On("pricing") /\ ~app.ifpay /\ Send(ui, [Ask("oauth", 0, Nobody) EXCEPT !.live = FALSE])

\* A file may be dropped on UploadView while another one is on its way.
UploadFile(i) ==
  /\ On("upload") /\ app.token # 0 /\ i \notin used /\ Owner[i] = Acct(app.token)
  /\ Send([ui EXCEPT !.busy = "yes"], Ask("upload", app.token, i))

ResendVerification ==
  /\ Screen(app) \in {"upload", "api", "settings"}
  /\ ~app.user.verified /\ ~ui.resending
  /\ Send([ui EXCEPT !.resending = TRUE], Ask("resend", 0, app.user.of))

Select(item) ==
  /\ On("gallery") /\ ui.selected = NoItem /\ item \in app.gallery
  /\ Render(app, [ui EXCEPT !.selected = item], wire, astray \ {"detail"}, FALSE)
  /\ ByClient /\ UNCHANGED kept
Back == On("gallery") /\ ui.selected # NoItem /\ Set([ui EXCEPT !.selected = NoItem])

Detail == On("gallery") /\ ui.selected # NoItem /\ app.token # 0
DeleteImage == Detail /\ Send(ui, Ask("delete", app.token, ui.selected.img))
TogglePrivacy ==
  Detail /\ Send(ui, [Ask("toggle", app.token, ui.selected.img) EXCEPT !.want = ~ui.selected.private])

\* handleCheckout: without a token it sends a user who is shown to the
\* sign-in form, which is not shown while there is a user.
Checkout(cycle) ==
  /\ On("pricing") /\ ui.busy # cycle
  /\ \/ app.token = 0 /\ Show("auth")
     \/ /\ app.token # 0 /\ ~app.ifpay /\ "oauth" \in journey.visits
        /\ Send([ui EXCEPT !.busy = cycle], Ask("oauth", 0, Nobody))
     \/ /\ app.token # 0 /\ app.ifpay
        /\ Send([ui EXCEPT !.busy = cycle], Ask("checkout", app.token, cycle))

RefreshOrders ==
  /\ On("pricing") /\ ~ui.loading
  /\ IF app.token = 0 THEN Set([ui EXCEPT !.rows = NoRows])
     ELSE Send([ui EXCEPT !.loading = TRUE], Ask("reorders", app.token, Nobody))

CreateKey == On("api") /\ app.user.verified /\ Send(ui, Ask("create", app.token, Nobody))
RevokeKey == On("api") /\ ui.rows.n > 0 /\ Send(ui, Ask("revoke", app.token, Nobody))

ImportBackup(i) ==
  /\ On("backup") /\ i \notin used /\ (app.token = 0 \/ Owner[i] = Acct(app.token))
  /\ Send(ui, Ask("import", app.token, i))

EditAlias(n) == On("settings") /\ n # ui.alias /\ Set([ui EXCEPT !.alias = n])
SaveProfile == On("settings") /\ Send(ui, Ask("profile", app.token, ui.alias))

-----------------------------------------------------------------------------
(* Answers.                                                                *)

\* A full answer settles its topics unless a write overtook it.  Of answers
\* that the code takes whoever they are for, also those for an account that
\* is no longer the page's put their topics out of step.
Late(c, x) == c.stale /\ x \notin {"session", "usage"}
Foreign(c) == About(c) # Acct(app.token)
Checked(a, c, topics) == (a \ topics) \cup {x \in topics : Late(c, x)}
Partial(a, c, topics) == a \cup {x \in topics : Late(c, x) \/ Foreign(c)}
Full(a, c, topics) == Partial(a \ topics, c, topics)

Local(c, g) == IF c.live THEN g ELSE ui
Done(c, p, g, a) == Render(p, Local(c, g), wire \ {c}, a, FALSE) /\ ByClient
Answered(c, kinds) == c.at = "ok" /\ c.kind \in kinds

\* A list answer does not touch the detail view, which has its own copy.
Detached(a, items) ==
  IF ui.selected \in items \cup {NoItem} THEN a ELSE a \cup {"detail"}

\* Nor does an answer that an unmounted GalleryView asked for.
Orphaned(a, c) ==
  IF ~c.live /\ ui.selected.img = c.arg THEN a \cup {"detail"} ELSE a

\* handleLogin, handleVerifyEmail
SignedIn(c) ==
  /\ Answered(c, {"login", "verify"})
  /\ kept' = c.got.tok
  /\ Done(c, [app EXCEPT !.token = c.got.tok, !.user = c.got.user, !.usage = Nobody,
                         !.view = "dashboard"],
          [ui EXCEPT !.busy = ""], Checked(astray, c, {"session", "profile"}))

IFPayCallback(c) ==
  /\ Answered(c, {"callback"})
  /\ kept' = c.got.tok
  /\ Done(c, [app EXCEPT !.token = c.got.tok, !.user = c.got.user, !.ifpay = TRUE,
                         !.view = "pricing"],
          ui, Checked(IF app.usage \in {Nobody, c.got.user.of} THEN astray ELSE astray \cup {"usage"},
                      c, {"session", "profile"}))

\* In AuthView all buttons wait, in the other views the one that resends.
Resent == IF On("auth") THEN [ui EXCEPT !.busy = ""] ELSE [ui EXCEPT !.resending = FALSE]

\* The answers that only AuthView waits for, and that to a resend
AuthAnswered(c) ==
  /\ Answered(c, {"register", "forgot", "reset", "resend"})
  /\ LET idle == [ui EXCEPT !.busy = ""]
     IN Done(c, app,
             CASE c.kind = "register" -> [idle EXCEPT !.pending = [of |-> c.arg, tok |-> c.got.tok],
                                                      !.mode = "verify"]
               [] c.kind = "forgot" -> [idle EXCEPT !.reset = c.arg, !.mode = "reset"]
               [] c.kind = "reset" -> [idle EXCEPT !.reset = Nobody, !.mode = "login"]
               [] c.kind = "resend" -> Resent, astray)
  /\ UNCHANGED kept

\* window.location.assign: the page is left for IF-Pay and comes back with a
\* code, or the user comes back without one.
OAuthStarted(c) ==
  /\ Answered(c, {"oauth"}) /\ SignInsLeft
  /\ Reopen("landing", {Ask("callback", 0, Nobody)})

Loaded(c) ==
  /\ Answered(c, {"load"})
  /\ IF c.live
     THEN Done(c, [app EXCEPT !.user = c.got.user, !.usage = c.got.user.of, !.gallery = c.got.items,
                              !.view = IF @ \in {"landing", "auth"} THEN "dashboard" ELSE @],
               ui, Detached(Checked(astray, c, {"session", "usage", "gallery", "profile"}), c.got.items))
     ELSE Done(c, app, ui, astray)
  /\ UNCHANGED kept

\* Mutant: the error of the session check is swallowed
LoadFailedQuietly(c) ==
  /\ c.kind = "load" /\ c.at = "failed"
  /\ Done(c, app, ui, astray)
  /\ UNCHANGED kept

\* The clean-up does not keep a failure away: it ends whatever session the
\* page has by then, and leaves the user on the screen.
LoadFailed(c) ==
  /\ c.kind = "load" /\ c.at = "failed"
  /\ kept' = 0
  /\ Done(c, [app EXCEPT !.token = 0], ui,
          IF app.user = NoUser THEN astray ELSE astray \cup {"session"})

ImagesAnswered(c) ==
  /\ Answered(c, {"images"})
  /\ Done(c, [app EXCEPT !.gallery = c.got.items], ui,
          Detached(Full(astray, c, {"gallery"}), c.got.items))
  /\ UNCHANGED kept

MeAnswered(c) ==
  /\ Answered(c, {"me"})
  /\ Done(c, [app EXCEPT !.user = c.got.user, !.usage = c.got.user.of], ui,
          Full(astray, c, {"session", "usage", "profile"}))
  /\ UNCHANGED kept

UploadAnswered(c) ==
  /\ Answered(c, {"upload"})
  /\ Render(app, ui, (wire \ {c}) \cup {[c EXCEPT !.at = "timer"]}, astray, FALSE)
  /\ ByClient /\ UNCHANGED kept

\* After 250 ms, on whatever page there is by then
UploadShown(c) ==
  /\ c.at = "timer"
  /\ Render([app EXCEPT !.gallery = @ \cup c.got.items, !.view = "gallery"],
            Local(c, [ui EXCEPT !.busy = ""]),
            (wire \ {c}) \cup {Ask("images", c.tok, Nobody), Ask("me", c.tok, Nobody)},
            Partial(astray, c, {"gallery"}), FALSE)
  /\ ByClient /\ UNCHANGED kept

DeleteAnswered(c) ==
  /\ Answered(c, {"delete"})
  /\ Done(c, [app EXCEPT !.gallery = {item \in @ : item.img # c.arg}],
          [ui EXCEPT !.selected = NoItem],
          Partial(Orphaned(astray, c), c, {"gallery"}))
  /\ UNCHANGED kept

\* Mutant: the detail view shows the new privacy and the list keeps the old one
ToggleShownOnly(c) ==
  /\ Answered(c, {"toggle"})
  /\ Done(c, app, [ui EXCEPT !.selected = CHOOSE item \in c.got.items : TRUE],
          Partial(Orphaned(astray, c), c, {"gallery", "detail"}))
  /\ UNCHANGED kept

ToggleAnswered(c) ==
  /\ Answered(c, {"toggle"})
  /\ LET new == CHOOSE item \in c.got.items : TRUE
     IN Done(c, [app EXCEPT !.gallery = {IF item.img = c.arg THEN new ELSE item : item \in @}],
             [ui EXCEPT !.selected = new],
             Partial(Orphaned(astray, c), c, {"gallery", "detail"}))
  /\ UNCHANGED kept

\* Mutant: the orders are not read again after a checkout
CheckedOutQuietly(c) ==
  /\ Answered(c, {"checkout"})
  /\ Render(app, Local(c, [ui EXCEPT !.busy = ""]), wire \ {c}, astray, FALSE)
  /\ ByClient /\ UNCHANGED kept

\* setOrdersRefreshKey reaches the mounted PricingView, whichever asked.
CheckedOut(c) ==
  /\ Answered(c, {"checkout"})
  /\ Render(app, Local(c, [ui EXCEPT !.busy = ""]), wire \ {c}, astray, TRUE)
  /\ ByClient /\ UNCHANGED kept

OrdersAnswered(c) ==
  /\ c.at \in {"ok", "failed"} /\ c.kind \in {"orders", "reorders"}
  /\ Done(c, app, [ui EXCEPT !.rows = c.got.rows, !.loading = FALSE],
          IF ~c.live THEN astray
          ELSE IF c.at = "failed" THEN astray \cup {"rows"}
          ELSE IF c.kind = "orders" THEN Checked(astray, c, {"rows"}) ELSE Full(astray, c, {"rows"}))
  /\ UNCHANGED kept

KeysAnswered(c) ==
  /\ c.at \in {"ok", "failed"} /\ c.kind = "keys"
  /\ Done(c, app, IF c.at = "ok" THEN [ui EXCEPT !.rows = c.got.rows] ELSE ui,
          IF ~c.live THEN astray
          ELSE IF c.at = "ok" THEN Full(astray, c, {"rows"})
          ELSE astray \cup {"rows"})
  /\ UNCHANGED kept

\* createKey, revokeKey: the view that asked reads its list again.
KeyWritten(c) ==
  /\ Answered(c, {"create", "revoke"})
  /\ Render(app, ui, (wire \ {c}) \cup {[Ask("keys", c.tok, Nobody) EXCEPT !.live = c.live]},
            IF c.live THEN astray ELSE astray \cup {"rows"}, FALSE)
  /\ ByClient /\ UNCHANGED kept

\* importBackup shows a toast; the gallery is not read again.
Imported(c) ==
  /\ Answered(c, {"import"})
  /\ Done(c, app, ui, astray \cup {"gallery"})
  /\ UNCHANGED kept

\* Mutant: the saved user is not handed to App
ProfileSavedUnshown(c) ==
  /\ Answered(c, {"profile"})
  /\ Done(c, app, ui, Partial(astray \ {"profile"}, c, {"session", "profile"}))
  /\ UNCHANGED kept

ProfileSaved(c) ==
  /\ Answered(c, {"profile"})
  /\ Done(c, [app EXCEPT !.user = c.got.user], ui,
          Partial(astray \ {"profile"}, c, {"session", "profile"}))
  /\ UNCHANGED kept

\* Mutant: no finally, the button stays off
FailedSpinning(c) ==
  /\ c.at = "failed" /\ c.kind \notin {"load", "orders", "reorders", "keys"}
  /\ Done(c, app, ui, astray)
  /\ UNCHANGED kept

\* Errors become a notice or a toast; the flag of the button goes off.
Failed(c) ==
  /\ c.at = "failed" /\ c.kind \notin {"load", "orders", "reorders", "keys"}
  /\ Done(c, app, CASE c.kind = "resend" -> Resent
                    [] c.kind \in AppOnly \cup {"create", "revoke", "delete", "toggle", "import", "profile"} -> ui
                    [] OTHER -> [ui EXCEPT !.busy = ""], astray)
  /\ UNCHANGED kept

-----------------------------------------------------------------------------
Serve(c) ==
  \/ ServeRead(c) \/ ServeVerify(c) \/ ServeMail(c) \/ ServeImage(c) \/ ServeWrite(c)
  \/ ServeProfile(c) \/ Refuse(c)
  \/ \E a \in journey.who : ServeSignIn(c, a)

Answer(c) ==
  \/ SignedIn(c) \/ IFPayCallback(c) \/ AuthAnswered(c) \/ OAuthStarted(c)
  \/ Loaded(c) \/ LoadFailed(c) \/ ImagesAnswered(c) \/ MeAnswered(c)
  \/ UploadAnswered(c) \/ UploadShown(c) \/ DeleteAnswered(c) \/ ToggleAnswered(c)
  \/ CheckedOut(c) \/ OrdersAnswered(c) \/ KeysAnswered(c) \/ KeyWritten(c)
  \/ Imported(c) \/ ProfileSaved(c) \/ Failed(c)

Act ==
  \/ OpenAuth \/ LeaveAuth \/ OpenDocs \/ HashDocs \/ CloseDocs \/ DocsLogin \/ Logout
  \/ \E v \in AppViews : Navigate(v)
  \/ \E m \in Modes : SwitchMode(m)
  \/ \E a \in journey.who : Submit(a)
  \/ StartIFPayOAuth \/ ResendVerification
  \/ \E i \in journey.images : UploadFile(i) \/ ImportBackup(i)
  \/ \E item \in app.gallery : Select(item)
  \/ Back \/ DeleteImage \/ TogglePrivacy
  \/ \E cycle \in Cycles : Checkout(cycle)
  \/ RefreshOrders \/ CreateKey \/ RevokeKey
  \/ \E n \in Names : EditAlias(n)
  \/ SaveProfile
  \/ \E v \in {"landing", "docs"} : Reload(v)

Next == Act \/ \E c \in wire : Serve(c) \/ Answer(c)

Spec == Init /\ [][Next]_vars

-----------------------------------------------------------------------------
(* Properties.                                                             *)

Signed == app.user # NoUser /\ app.token # 0
AtRest == wire = {}

\* The user on the screen is the account of the token that calls will carry,
\* which is the token a reload would find, and so is the usage beside it: but
\* for a late answer of an earlier session, a session check that fails, and
\* an authorization by IF-Pay while another account's usage is shown.
ShownUserOwnsToken ==
  /\ kept = app.token
  /\ app.user # NoUser /\ "session" \notin astray =>
       /\ app.token # 0 /\ Acct(app.token) = app.user.of
       /\ "usage" \notin astray => app.usage \in {Nobody, app.user.of}

\* A token without a user is being checked: the page that found one in
\* localStorage becomes the console or signs out, and is never left between.
TokenIsChecked ==
  app.token # 0 /\ app.user = NoUser =>
    \E c \in wire : c.kind = "load" /\ c.live /\ c.tok = app.token

\* Once all calls are answered the gallery is the server's list of the user's
\* images, if no answer came in since that was overtaken or belonged to an
\* earlier account, and no import; an image whose detail is open is in it, with
\* the same privacy; and the profile shown is the server's.
PageIsServers ==
  AtRest /\ Signed /\ "session" \notin astray =>
    /\ "gallery" \notin astray => app.gallery = List(app.user.of)
    /\ astray \cap {"gallery", "detail"} = {} => ui.selected \in app.gallery \cup {NoItem}
    /\ "profile" \notin astray => app.user = Me(app.user.of)

\* So are the orders, or the keys, on the screen.
RowsAreServers ==
  AtRest /\ Signed /\ astray \cap {"session", "rows"} = {} =>
    /\ On("pricing") => ui.rows = Rows(app.user.of, "orders")
    /\ On("api") => ui.rows = Rows(app.user.of, "keys")

\* A button that is off, or a spinner that is on, has a call in flight that
\* will end it.
NothingSpinsForever ==
  LET awaited(kinds) == \E c \in wire : c.live /\ c.kind \in kinds
  IN /\ ui.busy # "" => awaited({"login", "register", "verify", "resend", "forgot", "reset", "oauth",
                                 "upload", "checkout"})
     /\ ui.resending => awaited({"resend"})
     /\ ui.loading => awaited({"orders", "reorders"})
=============================================================================
