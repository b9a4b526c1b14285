--------------------------- MODULE AdminWebProofs ---------------------------
(* Theorems about AdminWeb, for any tabs, rows, quotas and bounds.         *)
EXTENDS AdminWeb, FiniteSetTheorems, TLAPS

Cells == Rows \cup {Config}

Marks == {"", "active", "banned", "frozen", "deleted", "pending", "paid", "cancelled", "refunded",
          "visible", "hidden", "dead", "set"}
RowShapes == [is : Marks, has : Nat]
RowsShapes == [Cells -> RowShapes]

\* n is the number of sessions made, T the tabs that are open.
AnswerShapes(n) == [setup : BOOLEAN, admin : BOOLEAN, tok : 0..n, rows : RowsShapes]

CallShapes(n, T) ==
  [tab : T, kind : Kinds, tok : 0..n, view : Views, arg : Cells, row : RowShapes, meant : Nat,
   hasty : BOOLEAN, live : BOOLEAN, stale : BOOLEAN, at : {"sent", "ok", "failed", "denied"},
   got : AnswerShapes(n)]

BusyShapes == [op : Ops, arg : Cells]

DialogShapes == [op : Confirmed \cup {""}, arg : Cells, form : RowShapes, meant : Nat]

TabShapes ==
  [admin : BOOLEAN, told : BOOLEAN, loading : BOOLEAN, needs : BOOLEAN, begun : BOOLEAN,
   submitting : BOOLEAN, view : Views, rows : RowsShapes, busy : SUBSET BusyShapes,
   dialog : DialogShapes, form : Nat, edited : BOOLEAN]

Shapes ==
  /\ journey \in Journeys
  /\ boot \in BOOLEAN /\ issued \in 0..journey.sessions /\ open \subseteq 1..issued
  /\ key \in 0..issued
  /\ data \in [Views -> RowsShapes]
  /\ tabs \in [Tabs -> TabShapes]
  /\ wire \subseteq CallShapes(issued, journey.tabs) /\ IsFiniteSet(wire)
  /\ Cardinality(wire) <= journey.wire
  /\ reloads \in 0..journey.reloads /\ faults \in 0..journey.faults
  /\ behind \subseteq Tabs /\ lapsed \subseteq Tabs
  /\ wanted \in [Rows -> Nat] /\ undone \subseteq Rows

-----------------------------------------------------------------------------
(* Calls and tabs.                                                         *)

\* The operations of a view
OpsOf(v) ==
  CASE v = "users" -> {"ban", "unban", "expire"}
    [] v = "plans" -> {"save", "publish", "unpublish"}
    [] v = "images" -> {"freeze", "delete"}
    [] v = "orders" -> {"mark-paid", "cancel", "refund"}
    [] v = "queue" -> {"requeue"}
    [] v = "hotlink" -> {"hotlink"}
    [] v = "platform" -> {"ifpay"}
    [] v = "hidden" -> {"grant"}
    [] v = "invites" -> {"invite"}
    [] v = "backup" -> {"export", "validate"}
    [] v = "settings" -> {"purge"}
    [] OTHER -> {}

\* A whole number of GBs that was meant is what the form says.
Whole(meant, row) == meant % 4 = 0 => row.has = meant

\* What is known of a call whatever became of its tab
CallTrue(c) ==
  /\ c.kind \in {"status"} \cup AuthCalls => c.live
  /\ c.got.admin => c.kind = "status" /\ c.at = "ok"
  /\ c.kind \in {"complete", "login"} /\ c.at = "ok" => c.got.tok # 0
  /\ c.at = "denied" => c.kind \in Reads \cup Ops
  /\ c.kind \in Ops => c.kind \in OpsOf(c.view)
  /\ c.view = "plans" /\ c.kind \in Ops => c.arg \in Rows
  /\ c.kind = "save" => Whole(c.meant, c.row)
  /\ c.kind = "letters" => c.view = "queue"

\* What tab s knows of a call of its own that matters to it
CallFits(c, s) ==
  /\ c.kind = "status" => ~s.admin /\ s.loading
  /\ c.kind \in AuthCalls => ~s.admin /\ s.submitting
  /\ c.kind \in {"start", "complete"} => s.needs
  /\ c.kind \in Reads \cup Ops => s.admin /\ s.view = c.view
  /\ c.kind \in Ops => [op |-> c.kind, arg |-> c.arg] \in s.busy
  /\ c.kind \in Confirmed => s.dialog.op = c.kind /\ s.dialog.arg = c.arg

\* Calls that never are in flight together
Clash(k, l) ==
  \/ k = "status" /\ l = "status"
  \/ k \in AuthCalls /\ l \in AuthCalls
  \/ k \in Ops /\ l \in Ops /\ FlagOf(k) = FlagOf(l)

DialogTrue(s) ==
  /\ s.dialog.op # "" => s.admin /\ s.dialog.op \in OpsOf(s.view)
  /\ s.dialog.op = "save" => s.dialog.arg \in Rows /\ Whole(s.dialog.meant, s.dialog.form)

\* Tab s and the calls M that matter to it
TabTrue(s, M) ==
  /\ \A c \in M : CallFits(c, s)
  /\ \A c, d \in M : Clash(c.kind, d.kind) => c = d
  /\ s.loading => (\E c \in M : c.kind = "status") /\ ~s.submitting /\ ~s.begun
  /\ s.submitting => \E c \in M : c.kind \in AuthCalls
  /\ s.begun => s.needs
  /\ \A b \in s.busy : \E c \in M : c.kind \in Ops /\ b = [op |-> c.kind, arg |-> c.arg]
  /\ DialogTrue(s)

\* The calls of tab t that matter to it
Mine(w, t) == {c \in w : c.tab = t /\ c.live /\ c.kind # "logout"}

CallsInv == \A c \in wire : CallTrue(c)
TabsInv == \A t \in journey.tabs : TabTrue(tabs[t], Mine(wire, t))

\* An answer on its way that shows the server's rows or says that it is behind
Coming(M) == \E c \in M : c.kind \in Reads \/ (c.kind \in Ops /\ c.at = "ok")

ShowsTrue(s, M, d) ==
  /\ s.view \in Lists => s.rows = d[s.view] \/ Coming(M)
  /\ s.view \in Forms /\ ~s.edited => s.form = d[s.view][Config].has \/ Coming(M)

\* An answer that is not stale, a publication that is not
Fresh(c, d) ==
  /\ c.kind \in Reads \cup Filling /\ c.at = "ok" /\ ~c.stale => c.got.rows = d[c.view]
  /\ c.kind \in {"publish", "unpublish"} /\ c.at = "sent" /\ ~c.hasty /\ ~c.stale =>
       c.row.has = d["plans"][c.arg].has

RowsInv ==
  /\ \A t \in journey.tabs \ behind : tabs[t].admin => ShowsTrue(tabs[t], Mine(wire, t), data)
  /\ \A c \in wire : Fresh(c, data)

AInv ==
  /\ Shapes
  /\ CallsInv
  /\ TabsInv
  /\ RowsInv
  /\ ConsoleHasSession
  /\ QuotaIsWanted

-----------------------------------------------------------------------------
(* Shapes and changes of a field.                                          *)

LEMMA AskFields ==
  ASSUME NEW t, NEW kind, NEW v, NEW arg, NEW row
  PROVE  LET c == Ask(t, kind, v, arg, row)
         IN /\ c.tab = t /\ c.kind = kind /\ c.tok = key /\ c.view = v /\ c.arg = arg /\ c.row = row
            /\ c.meant = 0 /\ ~c.hasty /\ c.live /\ ~c.stale /\ c.at = "sent"
            /\ c.got = NoAnswer /\ ~c.got.admin
  BY DEF Ask, NoAnswer

LEMMA AskShape ==
  ASSUME NEW n \in Nat, NEW T, key \in 0..n, NEW t \in T, NEW kind \in Kinds, NEW v \in Views,
         NEW arg \in Cells, NEW row \in RowShapes
  PROVE  Ask(t, kind, v, arg, row) \in CallShapes(n, T)
<1>1. NoRows \in RowsShapes
  BY DEF NoRows, RowsShapes, RowShapes, Nothing, Cells, Marks
<1>2. NoAnswer \in AnswerShapes(n)
  BY <1>1 DEF NoAnswer, AnswerShapes
<1> QED
  BY <1>2 DEF Ask, CallShapes

LEMMA CallLive ==
  ASSUME NEW n, NEW T, NEW c \in CallShapes(n, T), NEW b \in BOOLEAN
  PROVE  LET d == [c EXCEPT !.live = b]
         IN /\ d \in CallShapes(n, T)
            /\ d.tab = c.tab /\ d.kind = c.kind /\ d.view = c.view /\ d.arg = c.arg /\ d.row = c.row
            /\ d.meant = c.meant /\ d.hasty = c.hasty /\ d.live = b /\ d.stale = c.stale
            /\ d.at = c.at /\ d.got = c.got /\ d.tok = c.tok
  BY DEF CallShapes

LEMMA CallStale ==
  ASSUME NEW n, NEW T, NEW c \in CallShapes(n, T), NEW b \in BOOLEAN
  PROVE  LET d == [c EXCEPT !.stale = b]
         IN /\ d \in CallShapes(n, T)
            /\ d.tab = c.tab /\ d.kind = c.kind /\ d.view = c.view /\ d.arg = c.arg /\ d.row = c.row
            /\ d.meant = c.meant /\ d.hasty = c.hasty /\ d.live = c.live /\ d.stale = b
            /\ d.at = c.at /\ d.got = c.got /\ d.tok = c.tok
  BY DEF CallShapes

LEMMA CallTok ==
  ASSUME NEW n, NEW T, NEW c \in CallShapes(n, T), NEW k \in 0..n
  PROVE  LET d == [c EXCEPT !.tok = k]
         IN /\ d \in CallShapes(n, T)
            /\ d.tab = c.tab /\ d.kind = c.kind /\ d.view = c.view /\ d.arg = c.arg /\ d.row = c.row
            /\ d.meant = c.meant /\ d.hasty = c.hasty /\ d.live = c.live /\ d.stale = c.stale
            /\ d.at = c.at /\ d.got = c.got /\ d.tok = k
  BY DEF CallShapes

LEMMA CallAt ==
  ASSUME NEW n, NEW T, NEW c \in CallShapes(n, T), NEW a \in {"sent", "ok", "failed", "denied"}
  PROVE  LET d == [c EXCEPT !.at = a]
         IN /\ d \in CallShapes(n, T)
            /\ d.tab = c.tab /\ d.kind = c.kind /\ d.view = c.view /\ d.arg = c.arg /\ d.row = c.row
            /\ d.meant = c.meant /\ d.hasty = c.hasty /\ d.live = c.live /\ d.stale = c.stale
            /\ d.at = a /\ d.got = c.got /\ d.tok = c.tok
  BY DEF CallShapes

LEMMA CallAtStale ==
  ASSUME NEW n, NEW T, NEW c \in CallShapes(n, T), NEW a \in {"sent", "ok", "failed", "denied"}
  PROVE  LET d == [c EXCEPT !.at = a, !.stale = FALSE]
         IN /\ d \in CallShapes(n, T)
            /\ d.tab = c.tab /\ d.kind = c.kind /\ d.view = c.view /\ d.arg = c.arg /\ d.row = c.row
            /\ d.meant = c.meant /\ d.hasty = c.hasty /\ d.live = c.live /\ d.stale = FALSE
            /\ d.at = a /\ d.got = c.got /\ d.tok = c.tok
  BY DEF CallShapes

LEMMA CallGot ==
  ASSUME NEW n, NEW m, NEW T, NEW c \in CallShapes(n, T), NEW g \in AnswerShapes(m), 0..n \subseteq 0..m
  PROVE  LET d == [c EXCEPT !.at = "ok", !.got = g]
         IN /\ d \in CallShapes(m, T)
            /\ d.tab = c.tab /\ d.kind = c.kind /\ d.view = c.view /\ d.arg = c.arg /\ d.row = c.row
            /\ d.meant = c.meant /\ d.hasty = c.hasty /\ d.live = c.live /\ d.stale = c.stale
            /\ d.at = "ok" /\ d.got = g /\ d.tok = c.tok
  BY DEF CallShapes

LEMMA CallRows ==
  ASSUME NEW n, NEW T, NEW c \in CallShapes(n, T), NEW r \in RowsShapes
  PROVE  LET d == [c EXCEPT !.at = "ok", !.got.rows = r]
         IN /\ d \in CallShapes(n, T)
            /\ d.tab = c.tab /\ d.kind = c.kind /\ d.view = c.view /\ d.arg = c.arg /\ d.row = c.row
            /\ d.meant = c.meant /\ d.hasty = c.hasty /\ d.live = c.live /\ d.stale = c.stale
            /\ d.at = "ok" /\ d.tok = c.tok
            /\ d.got.rows = r /\ d.got.admin = c.got.admin /\ d.got.tok = c.got.tok
  BY DEF CallShapes, AnswerShapes

LEMMA CallStaleRows ==
  ASSUME NEW n, NEW T, NEW c \in CallShapes(n, T), NEW r \in RowsShapes
  PROVE  LET d == [c EXCEPT !.at = "ok", !.stale = FALSE, !.got.rows = r]
         IN /\ d \in CallShapes(n, T)
            /\ d.tab = c.tab /\ d.kind = c.kind /\ d.view = c.view /\ d.arg = c.arg /\ d.row = c.row
            /\ d.meant = c.meant /\ d.hasty = c.hasty /\ d.live = c.live /\ d.stale = FALSE
            /\ d.at = "ok" /\ d.tok = c.tok
            /\ d.got.rows = r /\ d.got.admin = c.got.admin /\ d.got.tok = c.got.tok
  BY DEF CallShapes, AnswerShapes

LEMMA CallRow ==
  ASSUME NEW n, NEW T, NEW c \in CallShapes(n, T), NEW r \in RowShapes, NEW m \in Nat, NEW b \in BOOLEAN
  PROVE  LET d == [c EXCEPT !.row = r]
             e == [c EXCEPT !.row = r, !.meant = m]
             h == [c EXCEPT !.row = r, !.hasty = b]
         IN /\ d \in CallShapes(n, T) /\ e \in CallShapes(n, T) /\ h \in CallShapes(n, T)
            /\ d.tab = c.tab /\ d.kind = c.kind /\ d.view = c.view /\ d.arg = c.arg /\ d.row = r
            /\ d.hasty = c.hasty /\ d.live = c.live /\ d.stale = c.stale /\ d.at = c.at /\ d.got = c.got
            /\ e.tab = c.tab /\ e.kind = c.kind /\ e.view = c.view /\ e.arg = c.arg /\ e.row = r /\ e.meant = m
            /\ e.hasty = c.hasty /\ e.live = c.live /\ e.stale = c.stale /\ e.at = c.at /\ e.got = c.got
            /\ h.tab = c.tab /\ h.kind = c.kind /\ h.view = c.view /\ h.arg = c.arg /\ h.row = r
            /\ h.hasty = b /\ h.live = c.live /\ h.stale = c.stale /\ h.at = c.at /\ h.got = c.got
  BY DEF CallShapes

\* Nothing of a tab but what its gate and its view remember of their calls
SameGate(r, s) ==
  /\ r.admin = s.admin /\ r.loading = s.loading /\ r.needs = s.needs
  /\ r.begun = s.begun /\ r.submitting = s.submitting
SameView(r, s) == r.view = s.view /\ r.rows = s.rows /\ r.form = s.form /\ r.edited = s.edited
SameWork(r, s) == r.busy = s.busy /\ r.dialog = s.dialog
Alike(r, s) == SameGate(r, s) /\ SameView(r, s) /\ SameWork(r, s)

LEMMA TabTold ==
  ASSUME NEW s \in TabShapes, NEW b \in BOOLEAN
  PROVE  LET r == [s EXCEPT !.told = b]
         IN r \in TabShapes /\ Alike(r, s) /\ r.told = b
  BY DEF TabShapes, Alike, SameGate, SameView, SameWork

LEMMA GateShape ==
  ASSUME NEW b \in BOOLEAN
  PROVE  LET r == [Gate EXCEPT !.told = b]
         IN /\ Gate \in TabShapes /\ r \in TabShapes /\ Alike(r, Gate) /\ r.told = b
            /\ ~Gate.admin /\ ~Gate.told /\ Gate.loading /\ ~Gate.begun /\ ~Gate.submitting
            /\ Gate.busy = {} /\ Gate.dialog.op = ""
<1>1. NoRows \in RowsShapes /\ NoDialog \in DialogShapes /\ NoDialog.op = ""
  BY DEF NoRows, NoDialog, RowsShapes, RowShapes, DialogShapes, Nothing, Cells, Marks
<1>2. /\ Gate \in TabShapes
      /\ ~Gate.admin /\ ~Gate.told /\ Gate.loading /\ ~Gate.begun /\ ~Gate.submitting
      /\ Gate.busy = {} /\ Gate.dialog.op = ""
  BY <1>1 DEF Gate, TabShapes, Views, Reports
<1> QED
  BY <1>2, TabTold

LEMMA ConsoleShape ==
  ASSUME NEW v \in Views, NEW b \in BOOLEAN
  PROVE  LET s == Console(v)
             r == [Console(v) EXCEPT !.told = b]
         IN /\ r \in TabShapes /\ r.told = b
            /\ r.admin /\ ~r.loading /\ ~r.begun /\ ~r.submitting
            /\ r.busy = {} /\ r.dialog.op = "" /\ r.view = v
<1> DEFINE s == Console(v)
<1>1. s = [Gate EXCEPT !.admin = TRUE, !.loading = FALSE, !.view = v]
  BY DEF Console
<1>2. /\ Gate \in TabShapes /\ ~Gate.begun /\ ~Gate.submitting /\ Gate.busy = {} /\ Gate.dialog.op = ""
  BY GateShape
<1>3. /\ s \in TabShapes /\ s.admin /\ ~s.loading /\ s.view = v
      /\ s.begun = Gate.begun /\ s.submitting = Gate.submitting
      /\ s.busy = Gate.busy /\ s.dialog = Gate.dialog
  BY <1>1, <1>2 DEF TabShapes
<1> HIDE DEF s
<1>4. LET r == [s EXCEPT !.told = b]
      IN r \in TabShapes /\ Alike(r, s) /\ r.told = b
  BY <1>3, TabTold
<1> QED
  BY <1>2, <1>3, <1>4 DEF Alike, SameGate, SameView, SameWork, s

LEMMA TabGate ==
  ASSUME NEW s \in TabShapes, NEW a \in BOOLEAN
  PROVE  LET p == [s EXCEPT !.loading = FALSE, !.needs = a]
             q == [s EXCEPT !.submitting = a]
             r == [s EXCEPT !.begun = TRUE, !.submitting = FALSE]
         IN /\ p \in TabShapes /\ SameView(p, s) /\ SameWork(p, s) /\ p.told = s.told
            /\ p.admin = s.admin /\ p.loading = FALSE /\ p.needs = a
            /\ p.begun = s.begun /\ p.submitting = s.submitting
            /\ q \in TabShapes /\ SameView(q, s) /\ SameWork(q, s) /\ q.told = s.told
            /\ q.admin = s.admin /\ q.loading = s.loading /\ q.needs = s.needs
            /\ q.begun = s.begun /\ q.submitting = a
            /\ r \in TabShapes /\ SameView(r, s) /\ SameWork(r, s) /\ r.told = s.told
            /\ r.admin = s.admin /\ r.loading = s.loading /\ r.needs = s.needs
            /\ r.begun = TRUE /\ r.submitting = FALSE
  BY DEF TabShapes, SameView, SameWork

LEMMA TabBusy ==
  ASSUME NEW s \in TabShapes, NEW b \in SUBSET BusyShapes
  PROVE  LET r == [s EXCEPT !.busy = b]
         IN /\ r \in TabShapes /\ SameGate(r, s) /\ SameView(r, s) /\ r.told = s.told
            /\ r.busy = b /\ r.dialog = s.dialog
  BY DEF TabShapes, SameGate, SameView

LEMMA TabDialog ==
  ASSUME NEW s \in TabShapes, NEW d \in DialogShapes
  PROVE  LET r == [s EXCEPT !.dialog = d]
         IN /\ r \in TabShapes /\ SameGate(r, s) /\ SameView(r, s) /\ r.told = s.told
            /\ r.busy = s.busy /\ r.dialog = d
  BY DEF TabShapes, SameGate, SameView

LEMMA TabEdit ==
  ASSUME NEW s \in TabShapes, NEW i \in Marks, NEW q \in Nat
  PROVE  LET a == [s EXCEPT !.dialog.form.is = i]
             b == [s EXCEPT !.dialog.form.has = q, !.dialog.meant = q]
         IN /\ a \in TabShapes /\ SameGate(a, s) /\ SameView(a, s) /\ a.told = s.told
            /\ a.busy = s.busy /\ a.dialog.op = s.dialog.op /\ a.dialog.arg = s.dialog.arg
            /\ a.dialog.meant = s.dialog.meant /\ a.dialog.form.has = s.dialog.form.has
            /\ b \in TabShapes /\ SameGate(b, s) /\ SameView(b, s) /\ b.told = s.told
            /\ b.busy = s.busy /\ b.dialog.op = s.dialog.op /\ b.dialog.arg = s.dialog.arg
            /\ b.dialog.meant = q /\ b.dialog.form.has = q
<1> DEFINE d == s.dialog
           di == [d EXCEPT !.form = [d.form EXCEPT !.is = i]]
           dq == [d EXCEPT !.form = [d.form EXCEPT !.has = q]]
           dm == [dq EXCEPT !.meant = q]
           a == [s EXCEPT !.dialog = di]
           p == [s EXCEPT !.dialog = dq]
           b == [p EXCEPT !.dialog = dm]
<1>1. d \in DialogShapes /\ d.form \in RowShapes
  BY DEF TabShapes, DialogShapes
<1>2. /\ [d.form EXCEPT !.is = i] \in RowShapes /\ [d.form EXCEPT !.is = i].has = d.form.has
      /\ [d.form EXCEPT !.has = q] \in RowShapes /\ [d.form EXCEPT !.has = q].has = q
  BY <1>1 DEF RowShapes
<1>3. /\ di \in DialogShapes /\ di.op = d.op /\ di.arg = d.arg /\ di.meant = d.meant
      /\ di.form = [d.form EXCEPT !.is = i]
  BY <1>1, <1>2 DEF DialogShapes
<1>4. /\ dq \in DialogShapes /\ dq.op = d.op /\ dq.arg = d.arg
      /\ dq.form = [d.form EXCEPT !.has = q]
  BY <1>1, <1>2 DEF DialogShapes
<1>5. /\ dm \in DialogShapes /\ dm.op = dq.op /\ dm.arg = dq.arg /\ dm.meant = q /\ dm.form = dq.form
  <2> HIDE DEF dq
  <2> QED
    BY <1>4 DEF DialogShapes
<1>6. [s EXCEPT !.dialog.form.is = i] = a
  OBVIOUS
<1> HIDE DEF di, dm
<1>7. p.dialog = dq /\ p \in TabShapes /\ SameGate(p, s) /\ SameView(p, s) /\ p.told = s.told /\ p.busy = s.busy
  <2> HIDE DEF dq
  <2> QED
    BY <1>4, TabDialog
<1>8. [s EXCEPT !.dialog.form.has = q, !.dialog.meant = q] = [p EXCEPT !.dialog = [p.dialog EXCEPT !.meant = q]]
  OBVIOUS
<1>9. [s EXCEPT !.dialog.form.has = q, !.dialog.meant = q] = b
  <2> HIDE DEF p
  <2> QED
    BY <1>7, <1>8 DEF dm
<1> HIDE DEF p
<1>10. /\ a \in TabShapes /\ SameGate(a, s) /\ SameView(a, s) /\ a.told = s.told /\ a.busy = s.busy /\ a.dialog = di
  BY <1>3, TabDialog
<1>11. /\ b \in TabShapes /\ SameGate(b, p) /\ SameView(b, p) /\ b.told = p.told /\ b.busy = p.busy /\ b.dialog = dm
  BY <1>5, <1>7, TabDialog
<1> HIDE DEF a, b
<1> QED
  BY <1>2, <1>3, <1>4, <1>5, <1>6, <1>7, <1>9, <1>10, <1>11 DEF SameGate, SameView

LEMMA TabForm ==
  ASSUME NEW s \in TabShapes, NEW n \in Nat, NEW b \in BOOLEAN
  PROVE  LET r == [s EXCEPT !.form = n, !.edited = b]
         IN /\ r \in TabShapes /\ SameGate(r, s) /\ SameWork(r, s) /\ r.told = s.told
            /\ r.view = s.view /\ r.rows = s.rows /\ r.form = n /\ r.edited = b
  BY DEF TabShapes, SameGate, SameWork

LEMMA TabRows ==
  ASSUME NEW s \in TabShapes, NEW x \in RowsShapes
  PROVE  LET r == [s EXCEPT !.rows = x]
         IN /\ r \in TabShapes /\ SameGate(r, s) /\ SameWork(r, s) /\ r.told = s.told
            /\ r.view = s.view /\ r.rows = x /\ r.form = s.form /\ r.edited = s.edited
  BY DEF TabShapes, SameGate, SameWork

-----------------------------------------------------------------------------
(* Tabs and calls.                                                         *)

LEMMA TabsOpen == journey \in Journeys => journey.tabs \subseteq Tabs
  BY BoundAssumption

LEMMA AlikeTrue ==
  ASSUME NEW r, NEW s, NEW M, NEW d, Alike(r, s)
  PROVE  /\ TabTrue(s, M) => TabTrue(r, M)
         /\ ShowsTrue(s, M, d) => ShowsTrue(r, M, d)
<1>1. \A c : CallFits(c, s) => CallFits(c, r)
  BY DEF CallFits, Alike, SameGate, SameView, SameWork
<1>2. DialogTrue(s) => DialogTrue(r)
  BY DEF DialogTrue, Alike, SameGate, SameView, SameWork
<1>3. TabTrue(s, M) => TabTrue(r, M)
  BY <1>1, <1>2 DEF TabTrue, Alike, SameGate, SameWork
<1>4. ShowsTrue(s, M, d) => ShowsTrue(r, M, d)
  BY DEF ShowsTrue, Alike, SameView
<1> QED
  BY <1>3, <1>4

\* What a finite set of calls is replaced by
LEMMA ReplacedFinite ==
  ASSUME NEW w, IsFiniteSet(w), NEW F
  PROVE  LET r == {F[c] : c \in w}
         IN IsFiniteSet(r) /\ Cardinality(r) <= Cardinality(w)
<1> DEFINE r == {F[c] : c \in w}
           G == [c \in w |-> F[c]]
<1>1. G \in Surjection(w, r)
  BY DEF Surjection
<1> HIDE DEF r
<1>2. IsFiniteSet(r) /\ Cardinality(r) <= Cardinality(w)
  BY <1>1, FS_Surjection
<1> QED
  BY <1>2 DEF r

LEMMA LeftFacts ==
  ASSUME NEW n, NEW T, NEW w, w \subseteq CallShapes(n, T), IsFiniteSet(w), NEW t
  PROVE  /\ IsFiniteSet(Left(t, w)) /\ Cardinality(Left(t, w)) <= Cardinality(w)
         /\ Left(t, w) \subseteq CallShapes(n, T)
         /\ Mine(Left(t, w), t) = {}
         /\ \A u : u # t => Mine(Left(t, w), u) = Mine(w, u)
<1> DEFINE F == [c \in w |-> IF c.tab = t /\ c.kind # "logout" THEN [c EXCEPT !.live = FALSE] ELSE c]
<1>1. ASSUME NEW c \in w
      PROVE  /\ F[c] \in CallShapes(n, T)
             /\ F[c].tab = c.tab /\ F[c].kind = c.kind
             /\ c.tab = t /\ c.kind # "logout" => ~F[c].live
             /\ c.tab # t => F[c] = c
  <2>1. CASE c.tab = t /\ c.kind # "logout"
    <3> DEFINE e == [c EXCEPT !.live = FALSE]
    <3>1. F[c] = e
      BY <2>1
    <3>2. c \in CallShapes(n, T)
      OBVIOUS
    <3> HIDE DEF F
    <3>3. e \in CallShapes(n, T) /\ e.tab = c.tab /\ e.kind = c.kind /\ ~e.live
      BY <3>2 DEF CallShapes
    <3> HIDE DEF e
    <3> QED
      BY <2>1, <3>1, <3>3
  <2>2. CASE ~(c.tab = t /\ c.kind # "logout")
    <3>1. F[c] = c
      BY <2>2
    <3> QED
      BY <2>2, <3>1
  <2> QED
    BY <2>1, <2>2
<1>2. Left(t, w) = {F[c] : c \in w}
  BY DEF Left
<1> HIDE DEF F
<1>3. IsFiniteSet(Left(t, w)) /\ Cardinality(Left(t, w)) <= Cardinality(w)
  BY <1>2, ReplacedFinite
<1>4. Left(t, w) \subseteq CallShapes(n, T)
  BY <1>1, <1>2
<1>5. Mine(Left(t, w), t) = {}
  <2> SUFFICES ASSUME NEW c \in w, F[c].tab = t, F[c].live, F[c].kind # "logout" PROVE FALSE
    BY <1>2 DEF Mine
  <2> QED
    BY <1>1
<1>6. ASSUME NEW u, u # t
      PROVE  Mine(Left(t, w), u) = Mine(w, u)
  <2>1. \A c \in w : F[c].tab = u => F[c] = c
    BY <1>1, <1>6
  <2>2. \A c \in w : c.tab = u => F[c] = c
    BY <1>1, <1>6
  <2> QED
    BY <1>2, <2>1, <2>2 DEF Mine
<1> QED
  BY <1>3, <1>4, <1>5, <1>6

\* Calls that are left stay what they are, but for the gate's.
LEMMA LeftTrue ==
  ASSUME NEW n, NEW T, NEW w, w \subseteq CallShapes(n, T), NEW t, NEW d,
         \A c \in w : CallTrue(c) /\ Fresh(c, d),
         \A c \in w : c.tab = t => c.kind \notin {"status"} \cup AuthCalls
  PROVE  \A c \in Left(t, w) : CallTrue(c) /\ Fresh(c, d)
<1> SUFFICES ASSUME NEW c \in w
             PROVE  LET e == [c EXCEPT !.live = FALSE]
                    IN c.tab = t => CallTrue(e) /\ Fresh(e, d)
  BY DEF Left
<1> DEFINE e == [c EXCEPT !.live = FALSE]
<1>1. /\ e.kind = c.kind /\ e.view = c.view /\ e.arg = c.arg /\ e.row = c.row /\ e.meant = c.meant
      /\ e.hasty = c.hasty /\ e.stale = c.stale /\ e.at = c.at /\ e.got = c.got
  BY CallLive
<1> HIDE DEF e
<1>2. c.tab = t => CallTrue(e)
  BY <1>1 DEF CallTrue
<1>3. Fresh(e, d)
  BY <1>1 DEF Fresh
<1> QED
  BY <1>2, <1>3 DEF e

\* A step of tab t, which turns to w the calls in flight.
LEMMA PageStep ==
  ASSUME AInv, NEW t \in journey.tabs,
         NEW w \in SUBSET CallShapes(issued, journey.tabs), IsFiniteSet(w), Cardinality(w) <= journey.wire,
         \A c \in w : CallTrue(c) /\ Fresh(c, data),
         tabs' \in [Tabs -> TabShapes], wire' = w,
         behind' \subseteq Tabs, lapsed' \subseteq Tabs,
         \A u \in journey.tabs \ {t} :
           /\ Alike(tabs'[u], tabs[u])
           /\ Mine(w, u) = Mine(wire, u)
           /\ u \in behind => u \in behind',
         TabTrue(tabs'[t], Mine(w, t)),
         tabs'[t].admin /\ t \notin behind' => ShowsTrue(tabs'[t], Mine(w, t), data),
         key' \in 0..issued, ConsoleHasSession', reloads' \in 0..journey.reloads,
         UNCHANGED <<boot, issued, open, data, faults, journey, wanted, undone>>
  PROVE  AInv'
<1>1. Shapes'
  BY DEF AInv, Shapes
<1>2. CallsInv'
  BY DEF CallsInv
<1>3. TabsInv'
  <2> SUFFICES ASSUME NEW u \in journey.tabs PROVE TabTrue(tabs'[u], Mine(w, u))
    BY DEF TabsInv
  <2>1. CASE u = t
    BY <2>1
  <2>2. CASE u # t
    <3>1. TabTrue(tabs[u], Mine(w, u))
      BY <2>2 DEF AInv, TabsInv
    <3> QED
      BY <2>2, <3>1, AlikeTrue
  <2> QED
    BY <2>1, <2>2
<1>4. RowsInv'
  <2>1. ASSUME NEW u \in journey.tabs, u \notin behind', tabs'[u].admin
        PROVE  ShowsTrue(tabs'[u], Mine(w, u), data)
    <3>1. CASE u = t
      BY <2>1, <3>1
    <3>2. CASE u # t
      <4>1. Alike(tabs'[u], tabs[u]) /\ Mine(w, u) = Mine(wire, u) /\ u \notin behind
        BY <2>1, <3>2
      <4>2. tabs[u].admin
        BY <2>1, <4>1 DEF Alike, SameGate
      <4>3. ShowsTrue(tabs[u], Mine(w, u), data)
        BY <2>1, <4>1, <4>2 DEF AInv, RowsInv
      <4> QED
        BY <4>1, <4>3, AlikeTrue
    <3> QED
      BY <3>1, <3>2
  <2> QED
    BY <2>1 DEF RowsInv
<1>5. QuotaIsWanted'
  BY DEF AInv, QuotaIsWanted
<1> QED
  BY <1>1, <1>2, <1>3, <1>4, <1>5 DEF AInv

\* The same where the session that is stored stays and the tab stays in or out
LEMMA StayStep ==
  ASSUME AInv, NEW t \in journey.tabs, NEW s \in TabShapes,
         NEW w \in SUBSET CallShapes(issued, journey.tabs), IsFiniteSet(w),
         \A c \in w : CallTrue(c) /\ Fresh(c, data),
         Stay(t, s, w), s.admin = tabs[t].admin, s.told = tabs[t].told,
         behind' \subseteq Tabs, \A u \in journey.tabs \ {t} : u \in behind => u \in behind',
         \A u \in journey.tabs \ {t} : Mine(w, u) = Mine(wire, u),
         TabTrue(s, Mine(w, t)),
         s.admin /\ t \notin behind' => ShowsTrue(s, Mine(w, t), data),
         UNCHANGED <<server, key, bounds, lapsed, wanted, undone>>
  PROVE  AInv'
<1>1. /\ tabs' = [tabs EXCEPT ![t] = s] /\ wire' = w /\ Cardinality(w) <= journey.wire
      /\ UNCHANGED <<boot, issued, open, data, key, reloads, faults, journey, lapsed, wanted, undone>>
  BY DEF Stay, server, bounds
<1>2. t \in Tabs /\ tabs \in [Tabs -> TabShapes] /\ key \in 0..issued /\ lapsed \subseteq Tabs
      /\ reloads \in 0..journey.reloads
  BY TabsOpen DEF AInv, Shapes
<1>3. tabs' \in [Tabs -> TabShapes] /\ tabs'[t] = s /\ \A u \in Tabs : u # t => tabs'[u] = tabs[u]
  BY <1>1, <1>2
<1>4. \A u \in journey.tabs : u \in Tabs
  BY TabsOpen DEF AInv, Shapes
<1>5. ConsoleHasSession'
  BY <1>1, <1>3, <1>4 DEF AInv, ConsoleHasSession
<1>6. \A s1 : Alike(s1, s1)
  BY DEF Alike, SameGate, SameView, SameWork
<1> HIDE DEF AInv
<1>7. \A u \in journey.tabs \ {t} :
           /\ Alike(tabs'[u], tabs[u])
           /\ Mine(w, u) = Mine(wire, u)
           /\ u \in behind => u \in behind'
  BY <1>3, <1>4, <1>6
<1> QED
  BY <1>1, <1>2, <1>3, <1>5, <1>7, PageStep

LEMMA MineAdd ==
  ASSUME NEW w, NEW c
  PROVE  /\ c.live /\ c.kind # "logout" => Mine(w \cup {c}, c.tab) = Mine(w, c.tab) \cup {c}
         /\ c.kind = "logout" => Mine(w \cup {c}, c.tab) = Mine(w, c.tab)
         /\ ~c.live => Mine(w \cup {c}, c.tab) = Mine(w, c.tab)
         /\ \A u : u # c.tab => Mine(w \cup {c}, u) = Mine(w, u)
  BY DEF Mine

LEMMA MineDrop ==
  ASSUME NEW w, NEW c
  PROVE  /\ Mine(w \ {c}, c.tab) = Mine(w, c.tab) \ {c}
         /\ \A u : u # c.tab => Mine(w \ {c}, u) = Mine(w, u)
  BY DEF Mine

LEMMA TabKept ==
  ASSUME NEW r, NEW s, NEW M, TabTrue(r, M), SameGate(s, r), s.view = r.view, s.busy = r.busy,
         \A c \in M : c.kind \in Confirmed => s.dialog.op = c.kind /\ s.dialog.arg = c.arg,
         DialogTrue(s)
  PROVE  TabTrue(s, M)
<1>1. \A c \in M : CallFits(c, s)
  BY DEF TabTrue, CallFits, SameGate
<1> QED
  BY <1>1 DEF TabTrue, SameGate

LEMMA ShowsKept ==
  ASSUME NEW r, NEW s, NEW M, NEW N, NEW d, ShowsTrue(r, M, d), SameView(s, r), M \subseteq N
  PROVE  ShowsTrue(s, N, d)
<1>1. Coming(M) => Coming(N)
  BY DEF Coming
<1> QED
  BY <1>1 DEF ShowsTrue, SameView

\* The wire holds calls as they should be, and finitely many of them.
LEMMA WireFacts ==
  ASSUME AInv
  PROVE  /\ IsFiniteSet(wire) /\ wire \in SUBSET CallShapes(issued, journey.tabs)
         /\ \A c \in wire : CallTrue(c) /\ Fresh(c, data) /\ c.tab \in journey.tabs
         /\ \A t \in journey.tabs : TabTrue(tabs[t], Mine(wire, t)) /\ tabs[t] \in TabShapes /\ t \in Tabs
         /\ \A t \in journey.tabs \ behind : tabs[t].admin => ShowsTrue(tabs[t], Mine(wire, t), data)
         /\ behind \subseteq Tabs /\ lapsed \subseteq Tabs /\ key \in 0..issued /\ issued \in Nat
         /\ data \in [Views -> RowsShapes] /\ tabs \in [Tabs -> TabShapes] /\ journey \in Journeys
         /\ journey.rows \subseteq Rows /\ journey.views \subseteq Views /\ journey.quotas \subseteq Quotas
         /\ journey.sessions \in Nat /\ journey.reloads \in Nat /\ journey.wire \in Nat /\ journey.faults \in Nat
<1>1. Shapes /\ CallsInv /\ TabsInv /\ RowsInv
  BY DEF AInv
<1>2. journey \in Journeys /\ journey.tabs \subseteq Tabs
  BY <1>1, TabsOpen DEF Shapes
<1>3. /\ journey.rows \subseteq Rows /\ journey.views \subseteq Views /\ journey.quotas \subseteq Quotas
      /\ journey.sessions \in Nat /\ journey.reloads \in Nat /\ journey.wire \in Nat /\ journey.faults \in Nat
  BY <1>2, BoundAssumption
<1>4. wire \subseteq CallShapes(issued, journey.tabs) /\ \A c \in wire : c.tab \in journey.tabs
  BY <1>1 DEF Shapes, CallShapes
<1>5. issued \in Nat
  BY <1>1, <1>3 DEF Shapes
<1> QED
  BY <1>1, <1>2, <1>3, <1>4, <1>5 DEF Shapes, CallsInv, TabsInv, RowsInv

\* A call is made and the tab notes it.
LEMMA AskStep ==
  ASSUME AInv, NEW t \in journey.tabs, NEW s \in TabShapes,
         NEW c \in CallShapes(issued, journey.tabs),
         Asking(t, s, c), c.tab = t, c.live, CallTrue(c), Fresh(c, data),
         s.admin = tabs[t].admin, s.told = tabs[t].told, SameView(s, tabs[t]),
         c.kind # "logout" => TabTrue(s, Mine(wire, t) \cup {c}),
         c.kind = "logout" => TabTrue(s, Mine(wire, t)),
         UNCHANGED <<server, key, bounds, history>>
  PROVE  AInv'
<1> DEFINE w == wire \cup {c}
<1>1. w \in SUBSET CallShapes(issued, journey.tabs) /\ IsFiniteSet(w)
  BY WireFacts, FS_AddElement
<1>2. \A d \in w : CallTrue(d) /\ Fresh(d, data)
  BY WireFacts
<1>3. \A u \in journey.tabs \ {t} : Mine(w, u) = Mine(wire, u)
  BY DEF Mine
<1>4. TabTrue(s, Mine(w, t))
  BY MineAdd
<1>5. Mine(wire, t) \subseteq Mine(w, t)
  BY DEF Mine
<1>6. Stay(t, s, w)
  BY DEF Asking
<1> HIDE DEF w
<1>7. s.admin /\ t \notin behind => ShowsTrue(s, Mine(w, t), data)
  BY <1>5, WireFacts, ShowsKept
<1>8. behind' = behind /\ UNCHANGED <<lapsed, wanted, undone>> /\ behind' \subseteq Tabs
  BY WireFacts DEF history
<1>9. s.admin /\ t \notin behind' => ShowsTrue(s, Mine(w, t), data)
  BY <1>7, <1>8
<1>10. \A u \in journey.tabs \ {t} : u \in behind => u \in behind'
  BY <1>8
<1>11. UNCHANGED <<server, key, bounds, lapsed, wanted, undone>>
  BY <1>8
<1> QED
  BY <1>1, <1>2, <1>3, <1>4, <1>6, <1>8, <1>9, <1>10, <1>11, StayStep

\* Local state changes.
LEMMA SetStep ==
  ASSUME AInv, NEW t \in journey.tabs, NEW s \in TabShapes, Set(t, s),
         s.admin = tabs[t].admin, s.told = tabs[t].told,
         TabTrue(s, Mine(wire, t)),
         s.admin /\ t \notin behind => ShowsTrue(s, Mine(wire, t), data)
  PROVE  AInv'
<1>1. Stay(t, s, wire) /\ UNCHANGED <<server, key, bounds, lapsed, wanted, undone>> /\ behind' = behind
  BY DEF Set, history
<1>2. s.admin /\ t \notin behind' => ShowsTrue(s, Mine(wire, t), data)
  BY <1>1
<1>3. \A u \in journey.tabs \ {t} : u \in behind => u \in behind'
  BY <1>1
<1>4. behind' \subseteq Tabs /\ \A c \in wire : CallTrue(c) /\ Fresh(c, data)
  BY <1>1, WireFacts
<1> QED
  BY <1>1, <1>2, <1>3, <1>4, WireFacts, StayStep

-----------------------------------------------------------------------------
(* The console: what its views do.                                         *)

\* The handler of an operation whose flag is off
LEMMA MutateStep ==
  ASSUME AInv, NEW t \in journey.tabs, NEW c \in CallShapes(issued, journey.tabs),
         Mutate(t, c), c.tab = t, c.live, CallTrue(c), Fresh(c, data),
         c.kind \in Ops, tabs[t].admin, c.view = tabs[t].view, ~Busy(t, c.kind),
         c.kind \in Confirmed => tabs[t].dialog.op = c.kind /\ tabs[t].dialog.arg = c.arg
  PROVE  AInv'
<1> DEFINE r == tabs[t]
           b == [op |-> c.kind, arg |-> c.arg]
           s == [r EXCEPT !.busy = r.busy \cup {b}]
           M == Mine(wire, t)
<1>1. r \in TabShapes /\ TabTrue(r, M)
  BY WireFacts
<1>2. r.busy \cup {b} \in SUBSET BusyShapes
  BY <1>1 DEF TabShapes, BusyShapes, CallShapes
<1>3. /\ s \in TabShapes /\ SameGate(s, r) /\ SameView(s, r) /\ s.told = r.told
      /\ s.busy = r.busy \cup {b} /\ s.dialog = r.dialog
  <2> HIDE DEF r
  <2> QED
    BY <1>1, <1>2, TabBusy
<1>4. Asking(t, s, c) /\ UNCHANGED <<server, key, bounds, history>>
  BY DEF Mutate
<1>5. \A d \in r.busy : FlagOf(d.op) # FlagOf(c.kind)
  BY DEF Busy
<1> HIDE DEF s, M
<1>6. \A d \in M \cup {c} : CallFits(d, s)
  <2>1. \A d \in M : CallFits(d, s)
    BY <1>1, <1>3 DEF TabTrue, CallFits, SameGate, SameView
  <2>2. c.kind \notin {"status"} \cup AuthCalls
    BY DEF Ops, Confirmed, Reloading, Filling, AuthCalls
  <2>3. s.admin /\ s.view = c.view /\ b \in s.busy /\ s.dialog = r.dialog
    BY <1>3 DEF SameGate, SameView
  <2>4. CallFits(c, s)
    BY <2>2, <2>3 DEF CallFits, AuthCalls
  <2> QED
    BY <2>1, <2>4
<1>7. \A d \in M : ~Clash(c.kind, d.kind) /\ ~Clash(d.kind, c.kind)
  <2> SUFFICES ASSUME NEW d \in M, d.kind \in Ops, FlagOf(c.kind) = FlagOf(d.kind)
               PROVE  FALSE
    BY DEF Clash, Ops, Confirmed, Reloading, Filling, AuthCalls
  <2>1. [op |-> d.kind, arg |-> d.arg] \in r.busy
    BY <1>1 DEF TabTrue, CallFits
  <2> QED
    BY <1>5, <2>1
<1>8. \A d, e \in M \cup {c} : Clash(d.kind, e.kind) => d = e
  BY <1>1, <1>7 DEF TabTrue
<1>9. \A d \in s.busy : \E e \in M \cup {c} : e.kind \in Ops /\ d = [op |-> e.kind, arg |-> e.arg]
  BY <1>1, <1>3 DEF TabTrue
<1>10. TabTrue(s, M \cup {c})
  BY <1>1, <1>3, <1>6, <1>8, <1>9 DEF TabTrue, SameGate, DialogTrue, SameView
<1>11. c.kind # "logout"
  BY DEF Ops, Confirmed, Reloading, Filling
<1>12. s.admin = tabs[t].admin /\ s.told = tabs[t].told /\ SameView(s, tabs[t])
  BY <1>3 DEF SameGate
<1> QED
  BY <1>3, <1>4, <1>10, <1>11, <1>12, AskStep DEF M

LEMMA IdleFacts ==
  ASSUME AInv, NEW t, NEW v, NEW flags, Idle(t, v, flags)
  PROVE  /\ t \in journey.tabs /\ tabs[t].admin /\ tabs[t].view = v /\ tabs[t].dialog.op = ""
         /\ \A op : FlagOf(op) \in flags => ~Busy(t, op)
         /\ \A c \in Mine(wire, t) : c.kind \notin Confirmed
<1>1. t \in journey.tabs /\ tabs[t].admin /\ tabs[t].view = v /\ tabs[t].dialog.op = ""
  <2>1. On(t, v) /\ tabs[t].dialog = NoDialog
    BY DEF Idle
  <2>2. NoDialog.op = ""
    BY DEF NoDialog
  <2> QED
    BY <2>1, <2>2 DEF On
<1>2. ASSUME NEW op, FlagOf(op) \in flags, Busy(t, op) PROVE FALSE
  <2>1. PICK b \in tabs[t].busy : FlagOf(b.op) = FlagOf(op)
    BY <1>2 DEF Busy
  <2>2. FlagOf(b.op) \notin flags
    BY DEF Idle
  <2> QED
    BY <1>2, <2>1, <2>2
<1>3. \A c \in Mine(wire, t) : c.kind \notin Confirmed
  BY <1>1, WireFacts DEF TabTrue, CallFits, Confirmed
<1> QED
  BY <1>1, <1>2, <1>3

\* A dialog opens where there is none.
LEMMA OpenStep ==
  ASSUME AInv, NEW t, NEW v, NEW flags, Idle(t, v, flags), NEW d \in DialogShapes,
         Set(t, [tabs[t] EXCEPT !.dialog = d]),
         d.op # "" => d.op \in OpsOf(v),
         d.op = "save" => d.arg \in Rows /\ Whole(d.meant, d.form)
  PROVE  AInv'
<1> DEFINE r == tabs[t]
           s == [r EXCEPT !.dialog = d]
           M == Mine(wire, t)
<1>1. /\ t \in journey.tabs /\ r.admin /\ r.view = v
      /\ \A c \in M : c.kind \notin Confirmed
  BY IdleFacts
<1>2. r \in TabShapes /\ TabTrue(r, M) /\ (t \notin behind => ShowsTrue(r, M, data))
  BY <1>1, WireFacts
<1>3. /\ s \in TabShapes /\ SameGate(s, r) /\ SameView(s, r) /\ s.told = r.told
      /\ s.busy = r.busy /\ s.dialog = d
  <2> HIDE DEF r
  <2> QED
    BY <1>2, TabDialog
<1>4. Set(t, s)
  OBVIOUS
<1> HIDE DEF s, M
<1>5. DialogTrue(s)
  BY <1>1, <1>3 DEF DialogTrue, SameGate, SameView
<1>6. TabTrue(s, M)
  BY <1>1, <1>2, <1>3, <1>5, TabKept DEF SameView
<1>7. t \notin behind => ShowsTrue(s, M, data)
  BY <1>2, <1>3, ShowsKept
<1>8. s.admin = tabs[t].admin /\ s.told = tabs[t].told
  BY <1>3 DEF SameGate
<1> QED
  BY <1>1, <1>3, <1>4, <1>6, <1>7, <1>8, SetStep DEF M

LEMMA NothingShape == Nothing \in RowShapes /\ NoDialog \in DialogShapes
  BY DEF Nothing, NoDialog, RowShapes, DialogShapes, Marks, Cells

LEMMA OpsAreKinds == Ops \subseteq Kinds /\ Ops \cap ({"status", "logout"} \cup AuthCalls \cup Reads) = {}
  BY DEF Kinds, Ops, Confirmed, Reloading, Filling, AuthCalls, Reads

LEMMA OpFields ==
  ASSUME NEW t, NEW op, NEW x
  PROVE  LET c == Op(t, op, x)
         IN /\ c.tab = t /\ c.kind = op /\ c.view = tabs[t].view /\ c.arg = x
            /\ ~c.hasty /\ c.live /\ ~c.stale /\ c.at = "sent" /\ ~c.got.admin
  BY AskFields DEF Op

LEMMA OpShape ==
  ASSUME AInv, NEW t \in journey.tabs, NEW op \in Ops, NEW x \in Cells
  PROVE  Op(t, op, x) \in CallShapes(issued, journey.tabs)
<1>1. issued \in Nat /\ key \in 0..issued /\ tabs[t] \in TabShapes
  BY WireFacts
<1>2. tabs[t].view \in Views
  BY <1>1 DEF TabShapes
<1>3. op \in Kinds /\ Nothing \in RowShapes
  BY OpsAreKinds, NothingShape
<1> QED
  BY <1>1, <1>2, <1>3, AskShape DEF Op

\* Facts of a call that has just been made for an operation
LEMMA SentTrue ==
  ASSUME NEW c, c.kind \in Ops, c.live, c.at = "sent", ~c.got.admin, c.kind \in OpsOf(c.view),
         c.view = "plans" => c.arg \in Rows,
         c.kind = "save" => Whole(c.meant, c.row)
  PROVE  CallTrue(c)
  BY OpsAreKinds DEF CallTrue, Reads

LEMMA SentFresh ==
  ASSUME NEW c, NEW d, c.at = "sent", c.kind \notin {"publish", "unpublish"}
  PROVE  Fresh(c, d)
  BY DEF Fresh

\* A button of a view that starts an operation at once
LEMMA OpStep ==
  ASSUME AInv, NEW t, NEW v, NEW flags, Idle(t, v, flags),
         NEW op \in Ops \ (Confirmed \cup {"publish", "unpublish"}), FlagOf(op) \in flags,
         op \in OpsOf(v), NEW x \in Cells, v = "plans" => x \in Rows,
         Mutate(t, Op(t, op, x))
  PROVE  AInv'
<1> DEFINE c == Op(t, op, x)
<1>1. /\ t \in journey.tabs /\ tabs[t].admin /\ tabs[t].view = v /\ ~Busy(t, op)
  BY IdleFacts
<1>2. /\ c \in CallShapes(issued, journey.tabs)
      /\ c.tab = t /\ c.kind = op /\ c.view = v /\ c.arg = x
      /\ c.live /\ c.at = "sent" /\ ~c.got.admin
  BY <1>1, OpShape, OpFields
<1>3. Mutate(t, c)
  OBVIOUS
<1> HIDE DEF c
<1>4. CallTrue(c)
  BY <1>2, SentTrue DEF Confirmed
<1>5. Fresh(c, data)
  BY <1>2, SentFresh
<1> QED
  BY <1>1, <1>2, <1>3, <1>4, <1>5, MutateStep

LEMMA ButtonStep ==
  ASSUME AInv, NEW t \in Tabs, CreateInvite(t) \/ ExportBackup(t) \/ ValidateBackup(t)
  PROVE  AInv'
<1> USE DEF Ops, Confirmed, Reloading, Filling, FlagOf, OpsOf
<1>0. Config \in Cells
  BY WireFacts DEF Cells
<1>1. CASE CreateInvite(t)
  BY <1>0, <1>1, OpStep DEF CreateInvite
<1>2. CASE ExportBackup(t)
  BY <1>0, <1>2, OpStep DEF ExportBackup
<1>3. CASE ValidateBackup(t)
  BY <1>0, <1>3, OpStep DEF ValidateBackup
<1> QED
  BY <1>1, <1>2, <1>3

LEMMA RowButtonStep ==
  ASSUME AInv, NEW t \in Tabs, NEW x \in journey.rows,
         SetUserStatus(t, x) \/ ModerateImage(t, x) \/ RequeueDeadLetter(t, x)
  PROVE  AInv'
<1> USE DEF Ops, Confirmed, Reloading, Filling, FlagOf, OpsOf
<1>0. x \in Cells
  BY WireFacts DEF Cells
<1>1. CASE SetUserStatus(t, x)
  <2>1. ASSUME NEW op \in {"ban", "unban"}, Mutate(t, Op(t, op, x)) PROVE AInv'
    BY <1>0, <1>1, <2>1, OpStep DEF SetUserStatus
  <2> QED
    BY <1>1, <2>1 DEF SetUserStatus
<1>2. CASE ModerateImage(t, x)
  BY <1>0, <1>2, OpStep DEF ModerateImage
<1>3. CASE RequeueDeadLetter(t, x)
  BY <1>0, <1>3, OpStep DEF RequeueDeadLetter
<1> QED
  BY <1>1, <1>2, <1>3

LEMMA OpenDialogStep ==
  ASSUME AInv, NEW t \in Tabs, NEW op \in Confirmed \ {"save"}, NEW y \in Cells, NEW v, NEW flags,
         Idle(t, v, flags), op \in OpsOf(v), OpenDialog(t, op, y)
  PROVE  AInv'
<1> DEFINE d == [NoDialog EXCEPT !.op = op, !.arg = y]
<1>1. d \in DialogShapes /\ d.op = op
  BY NothingShape DEF DialogShapes
<1>2. Set(t, [tabs[t] EXCEPT !.dialog = d])
  BY DEF OpenDialog
<1> HIDE DEF d
<1> QED
  BY <1>1, <1>2, OpenStep

LEMMA DialogStep ==
  ASSUME AInv, NEW t \in Tabs, OpenGrant(t) \/ OpenPurge(t)
  PROVE  AInv'
<1>0. Config \in Cells
  BY WireFacts DEF Cells
<1>1. CASE OpenGrant(t)
  BY <1>0, <1>1, OpenDialogStep DEF OpenGrant, OpsOf, Confirmed
<1>2. CASE OpenPurge(t)
  BY <1>0, <1>2, OpenDialogStep DEF OpenPurge, OpsOf, Confirmed
<1> QED
  BY <1>1, <1>2

LEMMA RowDialogStep ==
  ASSUME AInv, NEW t \in Tabs, NEW x \in journey.rows, OpenExpire(t, x) \/ OpenOrderAction(t, x)
  PROVE  AInv'
<1>0. x \in Cells
  BY WireFacts DEF Cells
<1>1. CASE OpenExpire(t, x)
  BY <1>0, <1>1, OpenDialogStep DEF OpenExpire, OpsOf, Confirmed
<1>2. CASE OpenOrderAction(t, x)
  <2>1. PICK op \in {"mark-paid", "cancel", "refund"} : OpenDialog(t, op, x)
    BY <1>2 DEF OpenOrderAction
  <2>2. Idle(t, "orders", {})
    BY <1>2 DEF OpenOrderAction
  <2>3. op \in Confirmed \ {"save"} /\ op \in OpsOf("orders")
    BY DEF OpsOf, Confirmed
  <2> QED
    BY <1>0, <2>1, <2>2, <2>3, OpenDialogStep
<1> QED
  BY <1>1, <1>2

LEMMA GBInput ==
  ASSUME NEW q \in Nat
  PROVE  ToGBInput(q) \in Nat /\ (q % 4 = 0 => ToGBInput(q) = q)
  BY DEF ToGBInput

LEMMA PlanDialogStep ==
  ASSUME AInv, NEW t \in Tabs, NEW x \in journey.rows, OpenPlanDialog(t, x) \/ NewPlan(t, x)
  PROVE  AInv'
<1>0. x \in Rows /\ x \in Cells
  BY WireFacts DEF Cells
<1>1. ASSUME NEW m \in Nat, NEW f \in RowShapes, Whole(m, f),
             Idle(t, "plans", {"savingPlan", "unpublishingSlug"}),
             Set(t, [tabs[t] EXCEPT !.dialog = [op |-> "save", arg |-> x, meant |-> m, form |-> f]])
      PROVE  AInv'
  <2> DEFINE d == [op |-> "save", arg |-> x, meant |-> m, form |-> f]
  <2>1. d \in DialogShapes /\ d.op = "save" /\ d.arg = x /\ d.meant = m /\ d.form = f
    BY <1>0 DEF DialogShapes, Confirmed
  <2>2. Set(t, [tabs[t] EXCEPT !.dialog = d])
    BY <1>1
  <2> HIDE DEF d
  <2>3. d.op \in OpsOf("plans")
    BY <2>1 DEF OpsOf
  <2> QED
    BY <1>0, <1>1, <2>1, <2>2, <2>3, OpenStep
<1>2. CASE OpenPlanDialog(t, x)
  <2> DEFINE r == Shown(t, x)
             f == [r EXCEPT !.has = ToGBInput(r.has)]
  <2>1. /\ Idle(t, "plans", {"savingPlan", "unpublishingSlug"})
        /\ Set(t, [tabs[t] EXCEPT !.dialog = [op |-> "save", arg |-> x, meant |-> r.has, form |-> f]])
    BY <1>2 DEF OpenPlanDialog
  <2>2. t \in journey.tabs
    BY <2>1, IdleFacts
  <2>3. r \in RowShapes
    BY <1>0, <2>2, WireFacts DEF TabShapes, RowsShapes, Shown
  <2> HIDE DEF r
  <2>4. r.has \in Nat /\ ToGBInput(r.has) \in Nat
    BY <2>3, GBInput DEF RowShapes
  <2>5. f \in RowShapes /\ f.has = ToGBInput(r.has)
    BY <2>3, <2>4 DEF RowShapes
  <2> HIDE DEF f
  <2>6. Whole(r.has, f)
    BY <2>4, <2>5, GBInput DEF Whole
  <2> QED
    BY <1>1, <2>1, <2>4, <2>5, <2>6
<1>3. CASE NewPlan(t, x)
  <2> DEFINE f == [is |-> "visible", has |-> 4]
  <2>1. f \in RowShapes /\ Whole(4, f)
    BY DEF RowShapes, Marks, Whole
  <2>2. /\ Idle(t, "plans", {"savingPlan", "unpublishingSlug"})
        /\ Set(t, [tabs[t] EXCEPT !.dialog = [op |-> "save", arg |-> x, meant |-> 4, form |-> f]])
    BY <1>3 DEF NewPlan
  <2> HIDE DEF f
  <2> QED
    BY <1>1, <2>1, <2>2
<1> QED
  BY <1>2, <1>3

LEMMA EditPlanStep ==
  ASSUME AInv, NEW t \in Tabs, NEW is \in {"visible", "hidden"}, NEW q \in journey.quotas,
         EditPlan(t, is, q)
  PROVE  AInv'
<1> DEFINE r == tabs[t]
           M == Mine(wire, t)
<1>1. t \in journey.tabs /\ r.admin /\ r.view = "plans" /\ r.dialog.op = "save"
  BY DEF EditPlan, On
<1>2. q \in Nat /\ is \in Marks
  BY WireFacts, QuotaAssumption DEF Marks
<1>3. r \in TabShapes /\ TabTrue(r, M) /\ (t \notin behind => ShowsTrue(r, M, data))
  BY <1>1, WireFacts
<1>4. ASSUME NEW s \in TabShapes, Set(t, s), SameGate(s, r), SameView(s, r), s.told = r.told,
             s.busy = r.busy, s.dialog.op = r.dialog.op, s.dialog.arg = r.dialog.arg,
             Whole(s.dialog.meant, s.dialog.form)
      PROVE  AInv'
  <2>1. DialogTrue(r) /\ DialogTrue(s)
    BY <1>1, <1>3, <1>4 DEF TabTrue, DialogTrue, SameGate, SameView
  <2>2. \A c \in M : c.kind \in Confirmed => s.dialog.op = c.kind /\ s.dialog.arg = c.arg
    BY <1>3, <1>4 DEF TabTrue, CallFits
  <2> HIDE DEF M
  <2>3. TabTrue(s, M)
    BY <1>3, <1>4, <2>1, <2>2, TabKept DEF SameView
  <2>4. t \notin behind => ShowsTrue(s, M, data)
    BY <1>3, <1>4, ShowsKept
  <2> QED
    BY <1>1, <1>4, <2>3, <2>4, SetStep DEF M, SameGate
<1>5. Whole(r.dialog.meant, r.dialog.form)
  BY <1>1, <1>3 DEF TabTrue, DialogTrue
<1> DEFINE a == [r EXCEPT !.dialog.form.is = is]
           b == [r EXCEPT !.dialog.form.has = q, !.dialog.meant = q]
<1>6. Set(t, a) \/ Set(t, b)
  BY DEF EditPlan
<1>7. /\ a \in TabShapes /\ SameGate(a, r) /\ SameView(a, r) /\ a.told = r.told
      /\ a.busy = r.busy /\ a.dialog.op = r.dialog.op /\ a.dialog.arg = r.dialog.arg
      /\ a.dialog.meant = r.dialog.meant /\ a.dialog.form.has = r.dialog.form.has
      /\ b \in TabShapes /\ SameGate(b, r) /\ SameView(b, r) /\ b.told = r.told
      /\ b.busy = r.busy /\ b.dialog.op = r.dialog.op /\ b.dialog.arg = r.dialog.arg
      /\ b.dialog.meant = q /\ b.dialog.form.has = q
  <2> HIDE DEF r
  <2> QED
    BY <1>2, <1>3, TabEdit
<1> HIDE DEF a, b
<1>8. Whole(a.dialog.meant, a.dialog.form) /\ Whole(b.dialog.meant, b.dialog.form)
  BY <1>5, <1>7 DEF Whole
<1> QED
  BY <1>4, <1>6, <1>7, <1>8

LEMMA SavePlanStep ==
  ASSUME AInv, NEW t \in Tabs, SavePlan(t)
  PROVE  AInv'
<1> DEFINE d == tabs[t].dialog
           o == Op(t, "save", d.arg)
           c == [o EXCEPT !.row = d.form, !.meant = d.meant]
<1>1. t \in journey.tabs /\ tabs[t].admin /\ tabs[t].view = "plans" /\ d.op = "save" /\ ~Busy(t, "save")
      /\ Mutate(t, c)
  BY DEF SavePlan, On
<1>2. tabs[t] \in TabShapes /\ TabTrue(tabs[t], Mine(wire, t))
  BY <1>1, WireFacts
<1>3. d.form \in RowShapes /\ d.meant \in Nat /\ d.arg \in Rows /\ d.arg \in Cells /\ Whole(d.meant, d.form)
  BY <1>1, <1>2 DEF TabShapes, DialogShapes, TabTrue, DialogTrue, Cells
<1>4. "save" \in Ops
  BY DEF Ops, Confirmed
<1>5. /\ o \in CallShapes(issued, journey.tabs)
      /\ o.tab = t /\ o.kind = "save" /\ o.view = "plans" /\ o.arg = d.arg
      /\ o.live /\ o.at = "sent" /\ ~o.got.admin
  BY <1>1, <1>3, <1>4, OpShape, OpFields
<1> HIDE DEF o, d
<1>6. /\ c \in CallShapes(issued, journey.tabs)
      /\ c.tab = t /\ c.kind = "save" /\ c.view = "plans" /\ c.arg = d.arg /\ c.row = d.form /\ c.meant = d.meant
      /\ c.live /\ c.at = "sent" /\ c.got = o.got
  <2> DEFINE f == d.form
             m == d.meant
             T == journey.tabs
             n == issued
  <2>1. o \in CallShapes(n, T) /\ f \in RowShapes /\ m \in Nat
    BY <1>3, <1>5
  <2> HIDE DEF f, m, T, n
  <2> DEFINE e == [o EXCEPT !.row = f, !.meant = m]
  <2>2. e \in CallShapes(n, T) /\ e.tab = o.tab /\ e.kind = o.kind /\ e.view = o.view /\ e.arg = o.arg
        /\ e.row = f /\ e.meant = m /\ e.live = o.live /\ e.at = o.at /\ e.got = o.got
    BY <2>1 DEF CallShapes
  <2> QED
    BY <1>5, <2>2 DEF f, m, T, n
<1> HIDE DEF c
<1>7. CallTrue(c)
  BY <1>3, <1>4, <1>5, <1>6, SentTrue DEF OpsOf
<1>8. Fresh(c, data)
  BY <1>6, SentFresh
<1> QED
  BY <1>1, <1>4, <1>6, <1>7, <1>8, MutateStep DEF d

LEMMA PublicationStep ==
  ASSUME AInv, NEW t \in Tabs, NEW x \in journey.rows, SetPlanPublication(t, x)
  PROVE  AInv'
<1> DEFINE publish == Shown(t, x).is # "visible"
           op == IF publish THEN "publish" ELSE "unpublish"
           r == [Shown(t, x) EXCEPT !.is = IF publish THEN "visible" ELSE "hidden"]
           h == t \in behind \/ \E d \in wire : d.tab = t /\ d.live /\ d.kind = "load"
           o == Op(t, op, x)
           c == [o EXCEPT !.row = r, !.hasty = h]
           M == Mine(wire, t)
<1>1. Idle(t, "plans", {"unpublishingSlug"}) /\ Mutate(t, c)
  BY DEF SetPlanPublication
<1>2. /\ t \in journey.tabs /\ tabs[t].admin /\ tabs[t].view = "plans"
      /\ \A p : FlagOf(p) \in {"unpublishingSlug"} => ~Busy(t, p)
      /\ \A d \in M : d.kind \notin Confirmed
  BY <1>1, IdleFacts
<1>3. /\ x \in Rows /\ x \in Cells /\ tabs[t] \in TabShapes /\ TabTrue(tabs[t], M)
      /\ (t \notin behind => ShowsTrue(tabs[t], M, data))
      /\ \A d \in M : CallTrue(d) /\ d \in wire
  BY <1>2, WireFacts DEF Cells, Mine
<1>4. Shown(t, x) \in RowShapes
  BY <1>3 DEF TabShapes, RowsShapes, Shown
<1>5. r \in RowShapes /\ r.has = Shown(t, x).has /\ h \in BOOLEAN
  BY <1>4 DEF RowShapes, Marks
<1>6. op \in {"publish", "unpublish"} /\ op \in Ops /\ op \notin Confirmed /\ FlagOf(op) = "unpublishingSlug"
  BY DEF Ops, Confirmed, Reloading, FlagOf
<1>7. ~h => Shown(t, x).has = data["plans"][x].has
  <2> SUFFICES ASSUME ~h, Coming(M) PROVE FALSE
    BY <1>2, <1>3 DEF ShowsTrue, Lists, Shown
  <2>1. PICK d \in M : d.kind \in Reads \/ (d.kind \in Ops /\ d.at = "ok")
    BY DEF Coming
  <2>2. d \in wire /\ d.tab = t /\ d.live /\ CallTrue(d) /\ CallFits(d, tabs[t])
    BY <1>3, <2>1 DEF Mine, TabTrue
  <2>3. d.kind # "load"
    BY <2>2
  <2>4. d.view = "plans"
    BY <1>2, <2>1, <2>2 DEF CallFits
  <2>5. d.kind \in Ops
    BY <2>1, <2>2, <2>3, <2>4 DEF CallTrue, Reads
  <2>6. d.kind \in {"save", "publish", "unpublish"} /\ [op |-> d.kind, arg |-> d.arg] \in tabs[t].busy
    BY <2>2, <2>4, <2>5 DEF CallTrue, OpsOf, CallFits
  <2>7. d.kind \in {"publish", "unpublish"}
    BY <1>2, <2>1, <2>6 DEF Confirmed
  <2>8. FlagOf(d.kind) = "unpublishingSlug" /\ Busy(t, d.kind)
    BY <2>6, <2>7 DEF FlagOf, Busy
  <2> QED
    BY <1>2, <2>8
<1> HIDE DEF op, r, h
<1>8. /\ o \in CallShapes(issued, journey.tabs)
      /\ o.tab = t /\ o.kind = op /\ o.view = "plans" /\ o.arg = x
      /\ o.live /\ ~o.stale /\ o.at = "sent" /\ ~o.got.admin
  BY <1>2, <1>3, <1>6, OpShape, OpFields
<1> HIDE DEF o
<1>9. /\ c \in CallShapes(issued, journey.tabs)
      /\ c.tab = t /\ c.kind = op /\ c.view = "plans" /\ c.arg = x /\ c.row = r /\ c.hasty = h
      /\ c.live /\ ~c.stale /\ c.at = "sent" /\ c.got = o.got
  <2> DEFINE T == journey.tabs
             n == issued
  <2>1. o \in CallShapes(n, T)
    BY <1>8
  <2> HIDE DEF T, n
  <2>2. c \in CallShapes(n, T) /\ c.tab = o.tab /\ c.kind = o.kind /\ c.view = o.view /\ c.arg = o.arg
        /\ c.row = r /\ c.hasty = h /\ c.live = o.live /\ c.stale = o.stale /\ c.at = o.at /\ c.got = o.got
    BY <1>5, <2>1 DEF CallShapes
  <2> QED
    BY <1>8, <2>2 DEF T, n
<1> HIDE DEF c
<1>10. CallTrue(c)
  BY <1>3, <1>6, <1>8, <1>9, SentTrue DEF OpsOf
<1>11. Fresh(c, data)
  BY <1>5, <1>6, <1>7, <1>9, OpsAreKinds DEF Fresh
<1>12. ~Busy(t, op)
  BY <1>2, <1>6
<1> QED
  BY <1>1, <1>2, <1>6, <1>9, <1>10, <1>11, <1>12, MutateStep

LEMMA EditConfigStep ==
  ASSUME AInv, NEW t \in Tabs, NEW n \in 1..2, EditConfig(t, n)
  PROVE  AInv'
<1> DEFINE r == tabs[t]
           M == Mine(wire, t)
           s == [r EXCEPT !.form = n, !.edited = TRUE]
<1>1. t \in journey.tabs /\ r.admin /\ r.view \in Forms /\ Set(t, s)
  BY DEF EditConfig
<1>2. r \in TabShapes /\ TabTrue(r, M)
  BY <1>1, WireFacts
<1>3. /\ s \in TabShapes /\ SameGate(s, r) /\ SameWork(s, r) /\ s.told = r.told
      /\ s.view = r.view /\ s.rows = r.rows /\ s.edited
  <2>1. n \in Nat /\ TRUE \in BOOLEAN
    OBVIOUS
  <2> HIDE DEF r
  <2>2. /\ s \in TabShapes /\ SameGate(s, r) /\ SameWork(s, r) /\ s.told = r.told
        /\ s.view = r.view /\ s.rows = r.rows
    BY <1>2, <2>1, TabForm
  <2>3. s.edited
    BY <1>2 DEF TabShapes
  <2> QED
    BY <2>2, <2>3
<1> HIDE DEF s, M
<1>4. \A c \in M : c.kind \in Confirmed => s.dialog.op = c.kind /\ s.dialog.arg = c.arg
  BY <1>2, <1>3 DEF TabTrue, CallFits, SameWork
<1>5. DialogTrue(s)
  BY <1>2, <1>3 DEF TabTrue, DialogTrue, SameWork, SameGate
<1>6. TabTrue(s, M)
  BY <1>2, <1>3, <1>4, <1>5, TabKept DEF SameWork
<1>7. ShowsTrue(s, M, data)
  BY <1>1, <1>3 DEF ShowsTrue, Lists, Forms
<1> QED
  BY <1>1, <1>3, <1>6, <1>7, SetStep DEF M, SameGate

LEMMA SaveConfigStep ==
  ASSUME AInv, NEW t \in Tabs, NEW op \in Filling, SaveConfig(t, op)
  PROVE  AInv'
<1> DEFINE v == IF op = "hotlink" THEN "hotlink" ELSE "platform"
           r == [is |-> "set", has |-> tabs[t].form]
           o == Op(t, op, Config)
           c == [o EXCEPT !.row = r]
<1>1. Idle(t, v, {"saving"}) /\ Mutate(t, c)
  BY DEF SaveConfig
<1>2. /\ t \in journey.tabs /\ tabs[t].admin /\ tabs[t].view = v
      /\ \A p : FlagOf(p) \in {"saving"} => ~Busy(t, p)
  BY <1>1, IdleFacts
<1>3. r \in RowShapes
  BY <1>2, WireFacts DEF TabShapes, RowShapes, Marks
<1>4. op \in Ops /\ op \notin Confirmed /\ FlagOf(op) = "saving" /\ Config \in Cells /\ v # "plans" /\ op \in OpsOf(v)
      /\ op \notin {"save", "publish", "unpublish"}
  BY DEF Ops, Filling, Confirmed, FlagOf, Cells, OpsOf
<1> HIDE DEF v, r
<1>5. /\ o \in CallShapes(issued, journey.tabs)
      /\ o.tab = t /\ o.kind = op /\ o.view = v /\ o.arg = Config
      /\ o.live /\ o.at = "sent" /\ ~o.got.admin
  BY <1>2, <1>4, OpShape, OpFields
<1> HIDE DEF o
<1>6. /\ c \in CallShapes(issued, journey.tabs)
      /\ c.tab = t /\ c.kind = op /\ c.view = v /\ c.live /\ c.at = "sent" /\ c.got = o.got
  <2> DEFINE T == journey.tabs
             n == issued
  <2>1. o \in CallShapes(n, T)
    BY <1>5
  <2> HIDE DEF T, n
  <2>2. c \in CallShapes(n, T) /\ c.tab = o.tab /\ c.kind = o.kind /\ c.view = o.view
        /\ c.live = o.live /\ c.at = o.at /\ c.got = o.got
    BY <1>3, <2>1 DEF CallShapes
  <2> QED
    BY <1>5, <2>2 DEF T, n
<1> HIDE DEF c
<1>7. CallTrue(c) /\ Fresh(c, data)
  BY <1>4, <1>5, <1>6, SentTrue, SentFresh
<1>8. ~Busy(t, op)
  BY <1>2, <1>4
<1> QED
  BY <1>1, <1>2, <1>4, <1>6, <1>7, <1>8, MutateStep

LEMMA CancelStep ==
  ASSUME AInv, NEW t \in Tabs, Cancel(t)
  PROVE  AInv'
<1> DEFINE r == tabs[t]
           M == Mine(wire, t)
           s == [r EXCEPT !.dialog = NoDialog]
<1>1. t \in journey.tabs /\ ~Busy(t, r.dialog.op) /\ Set(t, s)
  BY DEF Cancel
<1>2. r \in TabShapes /\ TabTrue(r, M) /\ (r.admin /\ t \notin behind => ShowsTrue(r, M, data))
  BY <1>1, WireFacts
<1>3. /\ s \in TabShapes /\ SameGate(s, r) /\ SameView(s, r) /\ s.told = r.told
      /\ s.busy = r.busy /\ s.dialog = NoDialog
  <2> HIDE DEF r
  <2> QED
    BY <1>2, NothingShape, TabDialog
<1>4. ASSUME NEW c \in M, c.kind \in Confirmed PROVE FALSE
  <2>1. c.kind \in Ops
    BY <1>4 DEF Ops
  <2>2. r.dialog.op = c.kind /\ [op |-> c.kind, arg |-> c.arg] \in r.busy
    BY <1>2, <1>4, <2>1 DEF TabTrue, CallFits
  <2> QED
    BY <1>1, <2>2 DEF Busy
<1> HIDE DEF s, M
<1>5. DialogTrue(s)
  <2>1. NoDialog.op = ""
    BY DEF NoDialog
  <2> QED
    BY <1>3, <2>1 DEF DialogTrue
<1>6. TabTrue(s, M)
  BY <1>2, <1>3, <1>4, <1>5, TabKept DEF SameView
<1>7. r.admin /\ t \notin behind => ShowsTrue(s, M, data)
  BY <1>2, <1>3, ShowsKept
<1> QED
  BY <1>1, <1>3, <1>6, <1>7, SetStep DEF M, SameGate

LEMMA ConfirmStep ==
  ASSUME AInv, NEW t \in Tabs, Confirm(t)
  PROVE  AInv'
<1> DEFINE d == tabs[t].dialog
           c == Op(t, d.op, d.arg)
<1>1. t \in journey.tabs /\ d.op \in Confirmed \ {"save"} /\ ~Busy(t, d.op) /\ Mutate(t, c)
  BY DEF Confirm
<1>2. tabs[t] \in TabShapes /\ TabTrue(tabs[t], Mine(wire, t))
  BY <1>1, WireFacts
<1>3. d.arg \in Cells /\ tabs[t].admin /\ d.op \in OpsOf(tabs[t].view)
  BY <1>1, <1>2 DEF TabShapes, DialogShapes, TabTrue, DialogTrue, Confirmed
<1>4. d.op \in Ops /\ d.op \notin {"publish", "unpublish"}
  BY <1>1 DEF Ops, Confirmed
<1>5. tabs[t].view # "plans"
  BY <1>1, <1>3 DEF OpsOf, Confirmed
<1> HIDE DEF d
<1>6. /\ c \in CallShapes(issued, journey.tabs)
      /\ c.tab = t /\ c.kind = d.op /\ c.view = tabs[t].view /\ c.arg = d.arg
      /\ c.live /\ c.at = "sent" /\ ~c.got.admin
  BY <1>1, <1>3, <1>4, OpShape, OpFields
<1> HIDE DEF c
<1>7. CallTrue(c) /\ Fresh(c, data)
  BY <1>1, <1>3, <1>4, <1>5, <1>6, SentTrue, SentFresh
<1> QED
  BY <1>1, <1>3, <1>4, <1>6, <1>7, MutateStep DEF d

-----------------------------------------------------------------------------
(* A gate or a view is mounted.                                            *)

\* Calls of tab t that the wire still holds in w matter no longer; those in E do.
LEMMA MountStep ==
  ASSUME AInv, NEW t \in journey.tabs,
         NEW w, w \subseteq wire, \A u : u # t => Mine(w, u) = Mine(wire, u),
         \A c \in w : c.tab = t => c.kind \notin {"status"} \cup AuthCalls,
         NEW E \in SUBSET CallShapes(issued, journey.tabs), IsFiniteSet(E),
         \A c \in E : CallTrue(c) /\ Fresh(c, data) /\ c.tab = t /\ c.live /\ c.kind # "logout",
         wire' = Left(t, w) \cup E, Cardinality(wire') <= journey.wire,
         tabs' \in [Tabs -> TabShapes], \A u \in journey.tabs \ {t} : Alike(tabs'[u], tabs[u]),
         TabTrue(tabs'[t], E), tabs'[t].admin => ShowsTrue(tabs'[t], E, data),
         behind' = behind \ {t}, lapsed' \subseteq Tabs,
         key' \in 0..issued, ConsoleHasSession', reloads' \in 0..journey.reloads,
         UNCHANGED <<boot, issued, open, data, faults, journey, wanted, undone>>
  PROVE  AInv'
<1> DEFINE l == Left(t, w)
           n == l \cup E
<1>1. IsFiniteSet(w) /\ w \subseteq CallShapes(issued, journey.tabs)
  BY WireFacts, FS_Subset
<1>2. /\ IsFiniteSet(l) /\ l \subseteq CallShapes(issued, journey.tabs)
      /\ Mine(l, t) = {} /\ \A u : u # t => Mine(l, u) = Mine(w, u)
  BY <1>1, LeftFacts
<1>3. \A c \in l : CallTrue(c) /\ Fresh(c, data)
  BY <1>1, WireFacts, LeftTrue
<1> HIDE DEF l
<1>4. n \in SUBSET CallShapes(issued, journey.tabs) /\ IsFiniteSet(n)
  BY <1>2, FS_Union
<1>5. \A c \in n : CallTrue(c) /\ Fresh(c, data)
  BY <1>3
<1>6. Mine(n, t) = E
  BY <1>2 DEF Mine
<1>7. \A u : u # t => Mine(n, u) = Mine(wire, u)
  BY <1>2 DEF Mine
<1>8. wire' = n
  BY DEF l
<1> HIDE DEF n
<1>9. \A u \in journey.tabs \ {t} :
           /\ Alike(tabs'[u], tabs[u])
           /\ Mine(n, u) = Mine(wire, u)
           /\ u \in behind => u \in behind'
  BY <1>7
<1>10. behind' \subseteq Tabs /\ Cardinality(n) <= journey.wire
  BY <1>8, WireFacts
<1> QED
  BY <1>4, <1>5, <1>6, <1>8, <1>9, <1>10, PageStep

\* A console has no call of its gate on the wire.
LEMMA ConsoleCalls ==
  ASSUME AInv, NEW t \in journey.tabs, tabs[t].admin, NEW c \in wire, c.tab = t
  PROVE  c.kind \notin {"status"} \cup AuthCalls
<1> SUFFICES ASSUME c.kind \in {"status"} \cup AuthCalls PROVE FALSE
  OBVIOUS
<1>1. c.live /\ TabTrue(tabs[t], Mine(wire, t))
  BY WireFacts DEF CallTrue
<1>2. c \in Mine(wire, t)
  BY <1>1 DEF Mine, AuthCalls
<1> QED
  BY <1>1, <1>2 DEF TabTrue, CallFits

\* A gate has at most one.
LEMMA GateCalls ==
  ASSUME AInv, NEW c \in wire, c.kind \in {"status"} \cup AuthCalls
  PROVE  /\ c \in Mine(wire, c.tab) /\ c.tab \in journey.tabs /\ ~tabs[c.tab].admin
         /\ \A d \in wire \ {c} : d.tab = c.tab => d.kind \notin {"status"} \cup AuthCalls
<1> DEFINE t == c.tab
           M == Mine(wire, t)
<1>1. t \in journey.tabs /\ TabTrue(tabs[t], M)
  BY WireFacts
<1>2. \A d \in wire : d.tab = t /\ d.kind \in {"status"} \cup AuthCalls => d \in M
  BY WireFacts DEF CallTrue, Mine, AuthCalls
<1> HIDE DEF M
<1>3. c \in M /\ CallFits(c, tabs[t])
  BY <1>1, <1>2 DEF TabTrue
<1>4. ~tabs[t].admin
  BY <1>3 DEF CallFits
<1>5. ASSUME NEW d \in wire \ {c}, d.tab = t, d.kind \in {"status"} \cup AuthCalls
      PROVE  FALSE
  <2>1. d \in M /\ CallFits(d, tabs[t]) /\ ~Clash(c.kind, d.kind)
    BY <1>1, <1>2, <1>3, <1>5 DEF TabTrue
  <2>2. tabs[t].loading /\ tabs[t].submitting
    BY <1>3, <1>5, <2>1 DEF CallFits, Clash, AuthCalls
  <2> QED
    BY <1>1, <2>2 DEF TabTrue
<1> QED
  BY <1>1, <1>3, <1>4, <1>5 DEF M

\* A gate that has asked for the status
LEMMA GateTrue ==
  ASSUME NEW s, Alike(s, Gate), NEW c, c.kind = "status"
  PROVE  TabTrue(s, {c})
<1>1. ~Gate.admin /\ Gate.loading /\ ~Gate.begun /\ ~Gate.submitting /\ Gate.busy = {} /\ Gate.dialog.op = ""
  BY GateShape
<1>2. /\ ~s.admin /\ s.loading /\ ~s.begun /\ ~s.submitting /\ s.busy = {} /\ s.dialog.op = ""
  BY <1>1 DEF Alike, SameGate, SameWork
<1>3. c.kind \notin AuthCalls \cup Reads \cup Ops \cup Confirmed
  BY DEF AuthCalls, Reads, Ops, Confirmed, Reloading, Filling
<1>4. CallFits(c, s)
  BY <1>2, <1>3 DEF CallFits, AuthCalls
<1>5. DialogTrue(s)
  BY <1>2 DEF DialogTrue
<1> QED
  BY <1>2, <1>4, <1>5 DEF TabTrue

\* A view that has asked for its rows, if it shows any
LEMMA ConsoleTrue ==
  ASSUME NEW s, NEW v, NEW E, NEW d,
         s.admin, ~s.loading, ~s.begun, ~s.submitting, s.busy = {}, s.dialog.op = "", s.view = v,
         \A c \in E : c.kind = "load" /\ c.view = v,
         \A c, e \in E : c = e,
         v \notin {"hidden", "backup"} => E # {}
  PROVE  TabTrue(s, E) /\ ShowsTrue(s, E, d)
<1>1. \A c \in E : c.kind \in Reads /\ c.kind \notin {"status"} \cup AuthCalls \cup Ops \cup Confirmed
  BY DEF AuthCalls, Reads, Ops, Confirmed, Reloading, Filling
<1>2. \A c \in E : CallFits(c, s)
  BY <1>1 DEF CallFits, AuthCalls
<1>3. DialogTrue(s)
  BY DEF DialogTrue
<1>4. TabTrue(s, E)
  BY <1>2, <1>3 DEF TabTrue
<1>5. v \in Lists \cup Forms => Coming(E)
  BY <1>1 DEF Coming, Lists, Forms
<1>6. ShowsTrue(s, E, d)
  BY <1>5 DEF ShowsTrue
<1> QED
  BY <1>4, <1>6

\* The question of a gate, with the token that is stored or with none
LEMMA AskedStatus ==
  ASSUME AInv, NEW t \in journey.tabs
  PROVE  LET c == Ask(t, "status", "dashboard", Config, Nothing)
             e == [c EXCEPT !.tok = 0]
         IN /\ c \in CallShapes(issued, journey.tabs) /\ CallTrue(c) /\ Fresh(c, data)
            /\ c.tab = t /\ c.live /\ c.kind = "status"
            /\ e \in CallShapes(issued, journey.tabs) /\ CallTrue(e) /\ Fresh(e, data)
            /\ e.tab = t /\ e.live /\ e.kind = "status"
<1> DEFINE c == Ask(t, "status", "dashboard", Config, Nothing)
           e == [c EXCEPT !.tok = 0]
<1>1. issued \in Nat /\ key \in 0..issued
  BY WireFacts
<1>2. "status" \in Kinds /\ "dashboard" \in Views /\ Config \in Cells /\ Nothing \in RowShapes
  BY NothingShape DEF Kinds, Views, Reports, Cells
<1>3. c \in CallShapes(issued, journey.tabs)
  BY <1>1, <1>2, AskShape
<1>4. c.tab = t /\ c.live /\ c.kind = "status" /\ c.at = "sent" /\ ~c.got.admin
  BY AskFields
<1> HIDE DEF c
<1>5. 0 \in 0..issued
  BY <1>1
<1>6. /\ e \in CallShapes(issued, journey.tabs)
      /\ e.tab = t /\ e.live /\ e.kind = "status" /\ e.at = "sent" /\ ~e.got.admin
  <2> DEFINE T == journey.tabs
             n == issued
  <2>1. c \in CallShapes(n, T) /\ 0 \in 0..n
    BY <1>3, <1>5
  <2> HIDE DEF T, n
  <2>2. /\ e \in CallShapes(n, T) /\ e.tab = c.tab /\ e.live = c.live /\ e.kind = c.kind
        /\ e.at = c.at /\ e.got = c.got
    BY <2>1 DEF CallShapes
  <2> QED
    BY <1>4, <2>2 DEF T, n
<1> HIDE DEF e
<1>7. \A d : d.kind = "status" /\ d.live /\ d.at = "sent" /\ ~d.got.admin => CallTrue(d) /\ Fresh(d, data)
  BY DEF CallTrue, Fresh, AuthCalls, Reads, Ops, Confirmed, Reloading, Filling
<1>8. CallTrue(c) /\ Fresh(c, data) /\ CallTrue(e) /\ Fresh(e, data)
  BY <1>4, <1>6, <1>7
<1> QED
  BY <1>3, <1>4, <1>6, <1>8 DEF c, e

\* E asks for the rows of view v, if it shows any.
AsksFor(E, t, v) ==
  /\ E \in SUBSET CallShapes(issued, journey.tabs) /\ IsFiniteSet(E)
  /\ \A c \in E : CallTrue(c) /\ Fresh(c, data) /\ c.tab = t /\ c.live /\ c.kind = "load" /\ c.view = v
  /\ \A c, d \in E : c = d
  /\ v \notin {"hidden", "backup"} => E # {}

\* The question of a view, with a token that may be new
LEMMA AskedRows ==
  ASSUME AInv, NEW t \in journey.tabs, NEW v \in Views, NEW k \in 0..issued
  PROVE  /\ AsksFor(Reading(t, v), t, v)
         /\ AsksFor({[r EXCEPT !.tok = k] : r \in Reading(t, v)}, t, v)
<1> DEFINE c == Ask(t, "load", v, Config, Nothing)
           e == [c EXCEPT !.tok = k]
           R == Reading(t, v)
           E == {[r EXCEPT !.tok = k] : r \in R}
<1>1. issued \in Nat /\ key \in 0..issued
  BY WireFacts
<1>2. "load" \in Kinds /\ Config \in Cells /\ Nothing \in RowShapes
  BY NothingShape DEF Kinds, Reads, Cells
<1>3. c \in CallShapes(issued, journey.tabs)
  BY <1>1, <1>2, AskShape
<1>4. c.tab = t /\ c.live /\ c.kind = "load" /\ c.view = v /\ c.at = "sent" /\ ~c.got.admin
  BY AskFields
<1>5. R = {d \in {c} : v \notin {"hidden", "backup"}}
  BY DEF Reading
<1> HIDE DEF c
<1>6. /\ e \in CallShapes(issued, journey.tabs)
      /\ e.tab = t /\ e.live /\ e.kind = "load" /\ e.view = v /\ e.at = "sent" /\ ~e.got.admin
  <2> DEFINE T == journey.tabs
             n == issued
  <2>1. c \in CallShapes(n, T) /\ k \in 0..n
    BY <1>3
  <2> HIDE DEF T, n
  <2>2. /\ e \in CallShapes(n, T) /\ e.tab = c.tab /\ e.live = c.live /\ e.kind = c.kind
        /\ e.view = c.view /\ e.at = c.at /\ e.got = c.got
    BY <2>1 DEF CallShapes
  <2> QED
    BY <1>4, <2>2 DEF T, n
<1> HIDE DEF R
<1>7. E = {d \in {e} : v \notin {"hidden", "backup"}}
  BY <1>5
<1> HIDE DEF e, E
<1>8. \A d : d.kind = "load" /\ d.live /\ d.at = "sent" /\ ~d.got.admin => CallTrue(d) /\ Fresh(d, data)
  BY DEF CallTrue, Fresh, AuthCalls, Reads, Ops, Confirmed, Reloading, Filling
<1>9. IsFiniteSet(R) /\ IsFiniteSet(E)
  BY <1>5, <1>7, FS_Singleton, FS_Subset
<1>10. AsksFor(R, t, v)
  BY <1>3, <1>4, <1>5, <1>8, <1>9 DEF AsksFor
<1>11. AsksFor(E, t, v)
  BY <1>6, <1>7, <1>8, <1>9 DEF AsksFor
<1> QED
  BY <1>10, <1>11 DEF R, E

\* The gate of tab t is mounted.
LEMMA GateStep ==
  ASSUME AInv, NEW t \in journey.tabs,
         NEW w, w \subseteq wire, \A u : u # t => Mine(w, u) = Mine(wire, u),
         \A c \in w : c.tab = t => c.kind \notin {"status"} \cup AuthCalls,
         NEW c \in CallShapes(issued, journey.tabs), CallTrue(c), Fresh(c, data),
         c.tab = t, c.live, c.kind = "status",
         wire' = Left(t, w) \cup {c}, Cardinality(wire') <= journey.wire,
         tabs' \in [Tabs -> TabShapes], \A u \in journey.tabs \ {t} : Alike(tabs'[u], tabs[u]),
         Alike(tabs'[t], Gate),
         behind' = behind \ {t}, lapsed' \subseteq Tabs,
         key' \in 0..issued, ConsoleHasSession', reloads' \in 0..journey.reloads,
         UNCHANGED <<boot, issued, open, data, faults, journey, wanted, undone>>
  PROVE  AInv'
<1>1. {c} \in SUBSET CallShapes(issued, journey.tabs) /\ IsFiniteSet({c})
  BY FS_Singleton
<1>2. \A d \in {c} : CallTrue(d) /\ Fresh(d, data) /\ d.tab = t /\ d.live /\ d.kind # "logout"
  OBVIOUS
<1>3. TabTrue(tabs'[t], {c})
  BY GateTrue
<1>4. ~tabs'[t].admin
  BY GateShape DEF Alike, SameGate
<1> QED
  BY <1>1, <1>2, <1>3, <1>4, MountStep

\* A view of tab t is mounted.
LEMMA ConsoleStep ==
  ASSUME AInv, NEW t \in journey.tabs, NEW v \in Views, NEW k \in 0..issued,
         NEW w, w \subseteq wire, \A u : u # t => Mine(w, u) = Mine(wire, u),
         \A c \in w : c.tab = t => c.kind \notin {"status"} \cup AuthCalls,
         \/ wire' = Left(t, w) \cup Reading(t, v)
         \/ wire' = Left(t, w) \cup {[r EXCEPT !.tok = k] : r \in Reading(t, v)},
         Cardinality(wire') <= journey.wire,
         tabs' = [tabs EXCEPT ![t] = [Console(v) EXCEPT !.told = tabs[t].told]],
         behind' = behind \ {t}, lapsed' \subseteq Tabs,
         key' \in 0..issued, ConsoleHasSession', reloads' \in 0..journey.reloads,
         UNCHANGED <<boot, issued, open, data, faults, journey, wanted, undone>>
  PROVE  AInv'
<1> DEFINE s == [Console(v) EXCEPT !.told = tabs[t].told]
<1>1. t \in Tabs /\ tabs[t] \in TabShapes /\ tabs \in [Tabs -> TabShapes] /\ \A u \in journey.tabs : u \in Tabs
  BY WireFacts
<1>2. tabs[t].told \in BOOLEAN
  BY <1>1 DEF TabShapes
<1>3. /\ s \in TabShapes /\ s.admin /\ ~s.loading /\ ~s.begun /\ ~s.submitting
      /\ s.busy = {} /\ s.dialog.op = "" /\ s.view = v
  BY <1>2, ConsoleShape
<1>4. tabs' = [tabs EXCEPT ![t] = s]
  OBVIOUS
<1> HIDE DEF s
<1>5. tabs' \in [Tabs -> TabShapes] /\ tabs'[t] = s /\ \A u \in journey.tabs \ {t} : tabs'[u] = tabs[u]
  BY <1>1, <1>3, <1>4
<1>6. \A u \in journey.tabs \ {t} : Alike(tabs'[u], tabs[u])
  BY <1>5 DEF Alike, SameGate, SameView, SameWork
<1>7. ASSUME NEW E, AsksFor(E, t, v), wire' = Left(t, w) \cup E
      PROVE  AInv'
  <2>1. /\ E \in SUBSET CallShapes(issued, journey.tabs) /\ IsFiniteSet(E)
        /\ \A c \in E : CallTrue(c) /\ Fresh(c, data) /\ c.tab = t /\ c.live /\ c.kind # "logout"
    BY <1>7 DEF AsksFor
  <2>2. TabTrue(s, E) /\ ShowsTrue(s, E, data)
    BY <1>3, <1>7, ConsoleTrue DEF AsksFor
  <2>3. TabTrue(tabs'[t], E) /\ (tabs'[t].admin => ShowsTrue(tabs'[t], E, data))
    BY <1>5, <2>2
  <2> QED
    BY <1>5, <1>6, <1>7, <2>1, <2>3, MountStep
<1> QED
  BY <1>7, AskedRows

LEMMA ToldFacts ==
  ASSUME NEW ts \in [Tabs -> TabShapes], NEW t \in Tabs, NEW k
  PROVE  LET r == Told(ts, t, k)
         IN /\ r \in [Tabs -> TabShapes] /\ r[t] = ts[t]
            /\ \A u \in Tabs : Alike(r[u], ts[u])
            /\ \A u \in journey.tabs \ {t} : u \in Tabs /\ k = 0 /\ key # 0 => r[u].told
            /\ k # 0 \/ key = 0 => r = ts
<1> DEFINE r == Told(ts, t, k)
           s(u) == [ts[u] EXCEPT !.told = TRUE]
<1>1. \A u \in Tabs : s(u) \in TabShapes /\ Alike(s(u), ts[u]) /\ s(u).told
  <2> SUFFICES ASSUME NEW u \in Tabs PROVE s(u) \in TabShapes /\ Alike(s(u), ts[u]) /\ s(u).told
    OBVIOUS
  <2> DEFINE q == ts[u]
  <2>1. q \in TabShapes
    OBVIOUS
  <2> HIDE DEF q
  <2>2. LET p == [q EXCEPT !.told = TRUE] IN p \in TabShapes /\ Alike(p, q) /\ p.told
    BY <2>1 DEF TabShapes, Alike, SameGate, SameView, SameWork
  <2> QED
    BY <2>2 DEF q
<1>2. \A q : Alike(q, q)
  BY DEF Alike, SameGate, SameView, SameWork
<1>3. r = [u \in Tabs |-> IF u # t /\ u \in journey.tabs /\ k = 0 /\ key # 0 THEN s(u) ELSE ts[u]]
  BY DEF Told
<1> HIDE DEF r, s
<1>4. r \in [Tabs -> TabShapes] /\ r[t] = ts[t] /\ \A u \in Tabs : Alike(r[u], ts[u])
  BY <1>1, <1>2, <1>3
<1>5. \A u \in journey.tabs \ {t} : u \in Tabs /\ k = 0 /\ key # 0 => r[u].told
  BY <1>1, <1>3
<1>6. k # 0 \/ key = 0 => r = ts
  BY <1>3
<1> QED
  BY <1>4, <1>5, <1>6 DEF r

\* Whichever tab takes the token away, the others have heard or had none.
LEMMA SessionGone ==
  ASSUME AInv, NEW t \in journey.tabs, NEW s \in TabShapes, ~s.admin,
         tabs' = Told([tabs EXCEPT ![t] = s], t, 0),
         key' = 0, journey' = journey, \A u \in lapsed \ {t} : u \in lapsed'
  PROVE  ConsoleHasSession'
<1> DEFINE ts == [tabs EXCEPT ![t] = s]
<1>1. t \in Tabs /\ tabs \in [Tabs -> TabShapes] /\ \A u \in journey.tabs : u \in Tabs
  BY WireFacts
<1>2. ts \in [Tabs -> TabShapes] /\ ts[t] = s /\ \A u \in Tabs \ {t} : ts[u] = tabs[u]
  BY <1>1
<1>3. tabs' = Told(ts, t, 0)
  OBVIOUS
<1> HIDE DEF ts
<1>4. LET r == Told(ts, t, 0)
      IN /\ r[t] = ts[t] /\ (key = 0 => r = ts)
         /\ \A u \in journey.tabs \ {t} : u \in Tabs /\ key # 0 => r[u].told
  BY <1>1, <1>2, ToldFacts
<1>5. ASSUME NEW u \in journey.tabs, tabs'[u].admin, ~tabs'[u].told, u \notin lapsed' PROVE FALSE
  <2>1. u # t /\ key = 0 /\ u \notin lapsed
    BY <1>1, <1>2, <1>3, <1>4, <1>5
  <2>2. tabs'[u] = tabs[u]
    BY <1>1, <1>2, <1>3, <1>4, <2>1
  <2> QED
    BY <1>5, <2>1, <2>2 DEF AInv, ConsoleHasSession
<1> QED
  BY <1>5 DEF ConsoleHasSession

LEMMA NavigateStep ==
  ASSUME AInv, NEW t \in Tabs, NEW v \in Views, Navigate(t, v)
  PROVE  AInv'
<1> DEFINE s == [Console(v) EXCEPT !.told = tabs[t].told]
<1>1. /\ t \in journey.tabs /\ tabs[t].admin
      /\ Mount(t, s, wire, Reading(t, v))
      /\ UNCHANGED <<server, key, bounds, lapsed, wanted, undone>>
  BY DEF Navigate
<1>2. /\ tabs' = [tabs EXCEPT ![t] = s] /\ wire' = Left(t, wire) \cup Reading(t, v)
      /\ Cardinality(wire') <= journey.wire /\ behind' = behind \ {t}
      /\ UNCHANGED <<boot, issued, open, data, key, reloads, faults, journey, lapsed, wanted, undone>>
  BY <1>1 DEF Mount, server, bounds
<1>3. /\ tabs \in [Tabs -> TabShapes] /\ \A u \in journey.tabs : u \in Tabs /\ tabs[u] \in TabShapes
      /\ lapsed \subseteq Tabs /\ key \in 0..issued
  BY WireFacts
<1>4. reloads \in 0..journey.reloads
  BY DEF AInv, Shapes
<1>5. \A c \in wire : c.tab = t => c.kind \notin {"status"} \cup AuthCalls
  BY <1>1, ConsoleCalls
<1>6. tabs[t].told \in BOOLEAN
  BY <1>1, <1>3 DEF TabShapes
<1>7. s.told = tabs[t].told
  BY <1>6, ConsoleShape
<1> HIDE DEF s
<1>8. tabs'[t] = s /\ \A u \in journey.tabs \ {t} : tabs'[u] = tabs[u]
  BY <1>2, <1>3
<1>9. ConsoleHasSession'
  BY <1>1, <1>2, <1>7, <1>8 DEF AInv, ConsoleHasSession
<1>10. key' \in 0..issued /\ lapsed' \subseteq Tabs /\ reloads' \in 0..journey.reloads
  BY <1>2, <1>3, <1>4
<1> QED
  BY <1>1, <1>2, <1>3, <1>5, <1>9, <1>10, ConsoleStep DEF s

LEMMA HandleStorageStep ==
  ASSUME AInv, NEW t \in journey.tabs, HandleStorage(t)
  PROVE  AInv'
<1>1. UNCHANGED <<boot, issued, open, data, key, reloads, faults, journey, wanted, undone>>
  BY DEF HandleStorage, server, bounds
<1>2. /\ tabs \in [Tabs -> TabShapes] /\ t \in Tabs /\ \A u \in journey.tabs : u \in Tabs /\ tabs[u] \in TabShapes
      /\ lapsed \subseteq Tabs /\ key \in 0..issued /\ behind \subseteq Tabs
  BY WireFacts
<1>3. reloads \in 0..journey.reloads
  BY DEF AInv, Shapes
<1>4. \A q : Alike(q, q)
  BY DEF Alike, SameGate, SameView, SameWork
<1>5. key' \in 0..issued /\ reloads' \in 0..journey.reloads
  BY <1>1, <1>2, <1>3
<1>6. CASE tabs[t].admin
  <2> DEFINE c == Ask(t, "status", "dashboard", Config, Nothing)
  <2>1. /\ tabs' = [tabs EXCEPT ![t] = Gate] /\ wire' = Left(t, wire) \cup {c}
        /\ Cardinality(wire') <= journey.wire /\ behind' = behind \ {t} /\ lapsed' = lapsed \ {t}
    BY <1>6 DEF HandleStorage, Mount
  <2>2. /\ c \in CallShapes(issued, journey.tabs) /\ CallTrue(c) /\ Fresh(c, data)
        /\ c.tab = t /\ c.live /\ c.kind = "status"
    BY AskedStatus
  <2> HIDE DEF c
  <2>3. \A d \in wire : d.tab = t => d.kind \notin {"status"} \cup AuthCalls
    BY <1>6, ConsoleCalls
  <2>4. Gate \in TabShapes /\ ~Gate.admin
    BY GateShape
  <2>5. tabs' \in [Tabs -> TabShapes] /\ tabs'[t] = Gate /\ \A u \in journey.tabs \ {t} : tabs'[u] = tabs[u]
    BY <1>2, <2>1, <2>4
  <2>6. Alike(tabs'[t], Gate) /\ \A u \in journey.tabs \ {t} : Alike(tabs'[u], tabs[u])
    BY <1>4, <2>5
  <2>7. lapsed' \subseteq Tabs
    BY <1>2, <2>1
  <2>8. ConsoleHasSession'
    BY <1>1, <2>1, <2>4, <2>5 DEF AInv, ConsoleHasSession
  <2> QED
    BY <1>1, <1>5, <2>1, <2>2, <2>3, <2>5, <2>6, <2>7, <2>8, GateStep
<1>7. CASE ~tabs[t].admin
  <2> DEFINE s == [tabs[t] EXCEPT !.told = FALSE]
  <2>1. /\ tabs' = [tabs EXCEPT ![t] = s] /\ wire' = wire
        /\ Cardinality(wire) <= journey.wire /\ behind' = behind /\ lapsed' = lapsed
    BY <1>7 DEF HandleStorage, Stay
  <2>2. s \in TabShapes /\ Alike(s, tabs[t])
    <3> DEFINE q == tabs[t]
    <3>1. q \in TabShapes
      BY <1>2
    <3> HIDE DEF q
    <3>2. LET p == [q EXCEPT !.told = FALSE] IN p \in TabShapes /\ Alike(p, q)
      BY <3>1, TabTold
    <3> QED
      BY <3>2 DEF q
  <2> HIDE DEF s
  <2>3. tabs' \in [Tabs -> TabShapes] /\ tabs'[t] = s /\ \A u \in journey.tabs \ {t} : tabs'[u] = tabs[u]
    BY <1>2, <2>1, <2>2
  <2>4. TabTrue(tabs'[t], Mine(wire, t)) /\ ~tabs'[t].admin
    BY <1>7, <2>2, <2>3, WireFacts, AlikeTrue DEF Alike, SameGate
  <2>5. ConsoleHasSession'
    BY <1>1, <2>1, <2>3, <2>4 DEF AInv, ConsoleHasSession
  <2>6. \A u \in journey.tabs \ {t} :
           /\ Alike(tabs'[u], tabs[u])
           /\ Mine(wire, u) = Mine(wire, u)
           /\ u \in behind => u \in behind'
    BY <1>4, <2>1, <2>3
  <2>7. behind' \subseteq Tabs /\ lapsed' \subseteq Tabs
    BY <1>2, <2>1
  <2> QED
    BY <1>1, <1>5, <2>1, <2>3, <2>4, <2>5, <2>6, <2>7, WireFacts, PageStep
<1> QED
  BY <1>6, <1>7

LEMMA ReloadStep ==
  ASSUME AInv, NEW t \in Tabs, Reload(t)
  PROVE  AInv'
<1> DEFINE c == Ask(t, "status", "dashboard", Config, Nothing)
           w == {d \in wire : d.tab # t}
<1>1. /\ t \in journey.tabs /\ reloads < journey.reloads /\ reloads' = reloads + 1
      /\ tabs' = [tabs EXCEPT ![t] = Gate] /\ wire' = Left(t, w) \cup {c}
      /\ Cardinality(wire') <= journey.wire /\ behind' = behind \ {t} /\ lapsed' = lapsed \ {t}
      /\ UNCHANGED <<boot, issued, open, data, key, faults, journey, wanted, undone>>
  BY DEF Reload, Mount, server
<1>2. /\ tabs \in [Tabs -> TabShapes] /\ t \in Tabs /\ \A u \in journey.tabs : u \in Tabs
      /\ lapsed \subseteq Tabs /\ key \in 0..issued /\ journey.reloads \in Nat
  BY WireFacts
<1>3. reloads' \in 0..journey.reloads
  BY <1>1, <1>2 DEF AInv, Shapes
<1>4. \A q : Alike(q, q)
  BY DEF Alike, SameGate, SameView, SameWork
<1>5. /\ c \in CallShapes(issued, journey.tabs) /\ CallTrue(c) /\ Fresh(c, data)
      /\ c.tab = t /\ c.live /\ c.kind = "status"
  BY <1>1, AskedStatus
<1> HIDE DEF c
<1>6. /\ w \subseteq wire /\ \A d \in w : d.tab = t => d.kind \notin {"status"} \cup AuthCalls
      /\ \A u : u # t => Mine(w, u) = Mine(wire, u)
  BY DEF Mine
<1> HIDE DEF w
<1>7. Gate \in TabShapes /\ ~Gate.admin
  BY GateShape
<1>8. tabs' \in [Tabs -> TabShapes] /\ tabs'[t] = Gate /\ \A u \in journey.tabs \ {t} : tabs'[u] = tabs[u]
  BY <1>1, <1>2, <1>7
<1>9. Alike(tabs'[t], Gate) /\ \A u \in journey.tabs \ {t} : Alike(tabs'[u], tabs[u])
  BY <1>4, <1>8
<1>10. lapsed' \subseteq Tabs /\ key' \in 0..issued
  BY <1>1, <1>2
<1>11. ConsoleHasSession'
  BY <1>1, <1>7, <1>8 DEF AInv, ConsoleHasSession
<1> QED
  BY <1>1, <1>3, <1>5, <1>6, <1>8, <1>9, <1>10, <1>11, GateStep

-----------------------------------------------------------------------------
(* The session ends.                                                       *)

LEMMA ClearStep ==
  ASSUME AInv, NEW c \in wire, ClearAdminSession(c.tab, c),
         c.kind \notin {"status"} \cup AuthCalls
  PROVE  AInv'
<1> DEFINE t == c.tab
           w == wire \ {c}
<1>1. /\ key' = 0 /\ Cardinality(wire') <= journey.wire
      /\ UNCHANGED <<boot, issued, open, data, reloads, faults, journey, wanted, undone>>
  BY DEF ClearAdminSession, server, bounds
<1>2. /\ tabs \in [Tabs -> TabShapes] /\ t \in journey.tabs /\ t \in Tabs
      /\ \A u \in journey.tabs : u \in Tabs /\ tabs[u] \in TabShapes
      /\ lapsed \subseteq Tabs /\ behind \subseteq Tabs /\ issued \in Nat /\ wire \subseteq CallShapes(issued, journey.tabs)
      /\ IsFiniteSet(wire) /\ \A d \in wire : CallTrue(d) /\ Fresh(d, data)
  BY WireFacts
<1>3. reloads' \in 0..journey.reloads /\ key' \in 0..issued
  BY <1>1, <1>2 DEF AInv, Shapes
<1>4. \A q, r, s : Alike(q, q) /\ (Alike(q, r) /\ r = s => Alike(q, s))
  BY DEF Alike, SameGate, SameView, SameWork
<1>5. Mine(w, t) = Mine(wire, t) \ {c} /\ \A u : u # t => Mine(w, u) = Mine(wire, u)
  BY MineDrop
<1>6. w \in SUBSET CallShapes(issued, journey.tabs) /\ IsFiniteSet(w) /\ w \subseteq wire
  BY <1>2, FS_Subset
<1>7. CASE tabs[t].admin
  <2> DEFINE s == [Gate EXCEPT !.told = tabs[t].told]
             ts == [tabs EXCEPT ![t] = s]
             o == Ask(t, "status", "dashboard", Config, Nothing)
             e == [o EXCEPT !.tok = 0]
  <2>1. /\ tabs' = Told(ts, t, 0) /\ wire' = Left(t, w) \cup {e}
        /\ behind' = behind \ {t} /\ lapsed' = lapsed \ {t}
    BY <1>7 DEF ClearAdminSession
  <2>2. tabs[t].told \in BOOLEAN
    BY <1>2 DEF TabShapes
  <2>3. s \in TabShapes /\ Alike(s, Gate) /\ ~s.admin
    BY <2>2, GateShape DEF Alike, SameGate
  <2>4. /\ e \in CallShapes(issued, journey.tabs) /\ CallTrue(e) /\ Fresh(e, data)
        /\ e.tab = t /\ e.live /\ e.kind = "status"
    BY <1>2, AskedStatus
  <2> HIDE DEF s, e
  <2>5. ts \in [Tabs -> TabShapes] /\ ts[t] = s /\ \A u \in journey.tabs \ {t} : ts[u] = tabs[u]
    BY <1>2, <2>3
  <2>6. ConsoleHasSession'
    BY <1>1, <1>2, <2>1, <2>3, SessionGone
  <2> HIDE DEF ts
  <2>7. LET r == Told(ts, t, 0)
        IN r \in [Tabs -> TabShapes] /\ r[t] = ts[t] /\ \A u \in Tabs : Alike(r[u], ts[u])
    BY <1>2, <2>5, ToldFacts
  <2>8. /\ tabs' \in [Tabs -> TabShapes] /\ Alike(tabs'[t], Gate)
        /\ \A u \in journey.tabs \ {t} : Alike(tabs'[u], tabs[u])
    BY <1>2, <1>4, <2>1, <2>3, <2>5, <2>7
  <2>9. \A d \in w : d.tab = t => d.kind \notin {"status"} \cup AuthCalls
    BY <1>2, <1>7, ConsoleCalls
  <2>10. lapsed' \subseteq Tabs
    BY <1>2, <2>1
  <2> HIDE DEF w, t
  <2> QED
    BY <1>1, <1>2, <1>3, <1>5, <1>6, <2>1, <2>4, <2>6, <2>8, <2>9, <2>10, GateStep
<1>8. CASE ~tabs[t].admin
  <2>1. tabs' = Told(tabs, t, 0) /\ wire' = w /\ behind' = behind /\ lapsed' = lapsed
    BY <1>8 DEF ClearAdminSession
  <2>2. LET r == Told(tabs, t, 0)
        IN r \in [Tabs -> TabShapes] /\ r[t] = tabs[t] /\ \A u \in Tabs : Alike(r[u], tabs[u])
    BY <1>2, ToldFacts
  <2>3. /\ tabs' \in [Tabs -> TabShapes] /\ tabs'[t] = tabs[t]
        /\ \A u \in journey.tabs \ {t} : Alike(tabs'[u], tabs[u])
    BY <1>2, <2>1, <2>2
  <2>4. tabs = [tabs EXCEPT ![t] = tabs[t]]
    BY <1>2
  <2>5. ConsoleHasSession'
    BY <1>1, <1>2, <1>8, <2>1, <2>4, SessionGone
  <2>6. c \notin Mine(wire, t)
    <3>1. TabTrue(tabs[t], Mine(wire, t))
      BY <1>2, WireFacts
    <3>2. c \in Mine(wire, t) => c.kind \notin Reads \cup Ops
      BY <1>8, <3>1 DEF TabTrue, CallFits
    <3>3. c.kind \in Kinds
      BY <1>2 DEF CallShapes
    <3> QED
      BY <3>2, <3>3 DEF Kinds, Mine
  <2>7. Mine(w, t) = Mine(wire, t)
    BY <1>5, <2>6
  <2>8. TabTrue(tabs'[t], Mine(w, t)) /\ ~tabs'[t].admin
    BY <1>2, <1>8, <2>3, <2>7, WireFacts
  <2>9. \A u \in journey.tabs \ {t} :
           /\ Alike(tabs'[u], tabs[u])
           /\ Mine(w, u) = Mine(wire, u)
           /\ u \in behind => u \in behind'
    BY <1>5, <2>1, <2>3
  <2>10. behind' \subseteq Tabs /\ lapsed' \subseteq Tabs /\ \A d \in w : CallTrue(d) /\ Fresh(d, data)
    BY <1>2, <1>6, <2>1
  <2> HIDE DEF w, t
  <2> QED
    BY <1>1, <1>2, <1>3, <1>6, <2>1, <2>3, <2>5, <2>8, <2>9, <2>10, PageStep
<1> QED
  BY <1>7, <1>8

LEMMA EndStep ==
  ASSUME AInv, NEW c \in wire, Denied(c) \/ LoggedOut(c)
  PROVE  AInv'
<1>1. ClearAdminSession(c.tab, c)
  BY DEF Denied, LoggedOut
<1>2. c.kind \notin {"status"} \cup AuthCalls
  <2>1. CASE Denied(c)
    <3>1. c.kind \in Reads \cup Ops
      BY <2>1, WireFacts DEF Denied, CallTrue
    <3> QED
      BY <3>1, OpsAreKinds DEF Reads, AuthCalls
  <2>2. CASE LoggedOut(c)
    BY <2>2 DEF LoggedOut, AuthCalls
  <2> QED
    BY <2>1, <2>2
<1> QED
  BY <1>1, <1>2, ClearStep

-----------------------------------------------------------------------------
(* The gate.                                                               *)

LEMMA SubmitStep ==
  ASSUME AInv, NEW t \in Tabs, SubmitCurrentStep(t)
  PROVE  AInv'
<1> DEFINE r == tabs[t]
           s == [r EXCEPT !.submitting = TRUE]
           kind == IF ~r.needs THEN "login" ELSE IF r.begun THEN "complete" ELSE "start"
           c == Ask(t, kind, "dashboard", Config, Nothing)
           M == Mine(wire, t)
<1>1. /\ t \in journey.tabs /\ ~r.admin /\ ~r.loading /\ ~r.submitting
      /\ Asking(t, s, c) /\ UNCHANGED <<server, key, bounds, history>>
  BY DEF SubmitCurrentStep, AtGate
<1>2. r \in TabShapes /\ TabTrue(r, M) /\ issued \in Nat /\ key \in 0..issued
  BY <1>1, WireFacts
<1>3. /\ s \in TabShapes /\ SameView(s, r) /\ SameWork(s, r) /\ s.told = r.told
      /\ s.admin = r.admin /\ s.loading = r.loading /\ s.needs = r.needs /\ s.begun = r.begun
      /\ s.submitting
  <2> HIDE DEF r
  <2> QED
    BY <1>2 DEF TabShapes, SameView, SameWork
<1>4. kind \in AuthCalls /\ kind \in Kinds /\ (kind \in {"start", "complete"} => r.needs)
  BY DEF AuthCalls, Kinds
<1> HIDE DEF kind
<1>5. /\ c.tab = t /\ c.kind = kind /\ c.live /\ c.at = "sent" /\ ~c.got.admin
  BY AskFields
<1>6. c \in CallShapes(issued, journey.tabs)
  <2>1. "dashboard" \in Views /\ Config \in Cells /\ Nothing \in RowShapes
    BY NothingShape DEF Views, Reports, Cells
  <2> QED
    BY <1>1, <1>2, <1>4, <2>1, AskShape
<1> HIDE DEF c, s, M
<1>7. CallTrue(c) /\ Fresh(c, data)
  BY <1>4, <1>5 DEF CallTrue, Fresh, AuthCalls, Reads, Ops, Confirmed, Reloading, Filling
<1>8. \A d \in M : d.kind \notin {"status"} \cup AuthCalls
  BY <1>1, <1>2 DEF TabTrue, CallFits
<1>9. kind \notin {"status"} \cup Reads \cup Ops \cup Confirmed
  BY <1>4 DEF AuthCalls, Reads, Ops, Confirmed, Reloading, Filling
<1>10. CallFits(c, s)
  BY <1>1, <1>3, <1>4, <1>5, <1>9 DEF CallFits
<1>11. \A d \in M : CallFits(d, s)
  BY <1>2, <1>3, <1>8 DEF TabTrue, CallFits, SameView, SameWork, AuthCalls
<1>12. \A d \in M : ~Clash(kind, d.kind) /\ ~Clash(d.kind, kind)
  BY <1>8, <1>9, <1>4 DEF Clash
<1>13. TabTrue(s, M \cup {c})
  <2>1. \A d, e \in M \cup {c} : Clash(d.kind, e.kind) => d = e
    BY <1>2, <1>5, <1>12 DEF TabTrue
  <2>2. \A d \in s.busy : \E e \in M \cup {c} : e.kind \in Ops /\ d = [op |-> e.kind, arg |-> e.arg]
    BY <1>2, <1>3 DEF TabTrue, SameWork
  <2>3. DialogTrue(s)
    BY <1>2, <1>3 DEF TabTrue, DialogTrue, SameWork, SameView
  <2>4. s.submitting => \E d \in M \cup {c} : d.kind \in AuthCalls
    BY <1>4, <1>5
  <2>5. ~s.loading /\ (s.begun => s.needs)
    BY <1>1, <1>2, <1>3 DEF TabTrue
  <2> QED
    BY <1>10, <1>11, <2>1, <2>2, <2>3, <2>4, <2>5 DEF TabTrue
<1>14. s.admin = tabs[t].admin /\ s.told = tabs[t].told /\ SameView(s, tabs[t]) /\ c.kind # "logout"
  BY <1>3, <1>4, <1>5 DEF AuthCalls
<1> QED
  BY <1>1, <1>3, <1>5, <1>6, <1>7, <1>13, <1>14, AskStep DEF M

LEMMA StartedStep ==
  ASSUME AInv, NEW c \in wire, Started(c) \/ AuthFailed(c)
  PROVE  AInv'
<1> DEFINE t == c.tab
           r == tabs[t]
           a == [r EXCEPT !.begun = TRUE, !.submitting = FALSE]
           b == [r EXCEPT !.submitting = FALSE]
           w == wire \ {c}
           M == Mine(wire, t)
<1>1. c.kind \in AuthCalls /\ UNCHANGED <<server, key, bounds, history>>
  BY DEF Started, AuthFailed, AuthCalls
<1>2. /\ t \in journey.tabs /\ c \in M /\ ~r.admin
      /\ \A d \in w : d.tab = t => d.kind \notin {"status"} \cup AuthCalls
  BY <1>1, GateCalls
<1>3. r \in TabShapes /\ TabTrue(r, M)
  BY <1>2, WireFacts
<1>4. CallFits(c, r)
  BY <1>2, <1>3 DEF TabTrue
<1>5. r.submitting /\ ~r.loading /\ (c.kind = "start" => r.needs)
  BY <1>1, <1>3, <1>4 DEF TabTrue, CallFits
<1>6. Mine(w, t) = M \ {c} /\ \A u : u # t => Mine(w, u) = Mine(wire, u)
  BY MineDrop
<1>7. /\ w \in SUBSET CallShapes(issued, journey.tabs) /\ IsFiniteSet(w)
      /\ \A d \in w : CallTrue(d) /\ Fresh(d, data)
  BY WireFacts, FS_Subset
<1>8. \A d \in M \ {c} : d.kind \notin {"status"} \cup AuthCalls
  BY <1>2 DEF Mine
<1> HIDE DEF M, w
<1>9. ASSUME NEW s \in TabShapes, Stay(t, s, w), SameView(s, r), SameWork(s, r), s.told = r.told,
             s.admin = r.admin, s.loading = r.loading, s.needs = r.needs,
             s.begun => r.needs, ~s.submitting
      PROVE  AInv'
  <2>1. \A d \in M \ {c} : CallFits(d, s)
    BY <1>3, <1>8, <1>9 DEF TabTrue, CallFits, SameView, SameWork, AuthCalls
  <2>2. \A d, e \in M \ {c} : Clash(d.kind, e.kind) => d = e
    BY <1>3 DEF TabTrue
  <2>3. s.busy = {}
    <3>1. ASSUME NEW d \in r.busy PROVE FALSE
      <4>1. PICK e \in M : e.kind \in Ops
        BY <1>3, <3>1 DEF TabTrue
      <4> QED
        BY <1>2, <1>3, <4>1 DEF TabTrue, CallFits
    <3> QED
      BY <1>9, <3>1 DEF SameWork
  <2>4. DialogTrue(s)
    BY <1>3, <1>9 DEF TabTrue, DialogTrue, SameWork, SameView
  <2>5. TabTrue(s, M \ {c})
    BY <1>5, <1>9, <2>1, <2>2, <2>3, <2>4 DEF TabTrue
  <2>6. TabTrue(s, Mine(w, t)) /\ ~s.admin
    BY <1>2, <1>6, <1>9, <2>5
  <2>7. /\ behind' \subseteq Tabs /\ behind' = behind
        /\ UNCHANGED <<server, key, bounds, lapsed, wanted, undone>>
    BY <1>1, WireFacts DEF history
  <2>8. \A u \in journey.tabs \ {t} : u \in behind => u \in behind'
    BY <2>7
  <2>9. s.admin = tabs[t].admin /\ s.told = tabs[t].told
    BY <1>9
  <2> HIDE DEF t
  <2> QED
    BY <1>2, <1>6, <1>7, <1>9, <2>6, <2>7, <2>8, <2>9, StayStep
<1>10. /\ b \in TabShapes /\ SameView(b, r) /\ SameWork(b, r) /\ b.told = r.told
       /\ b.admin = r.admin /\ b.loading = r.loading /\ b.needs = r.needs
       /\ b.begun = r.begun /\ ~b.submitting
       /\ a \in TabShapes /\ SameView(a, r) /\ SameWork(a, r) /\ a.told = r.told
       /\ a.admin = r.admin /\ a.loading = r.loading /\ a.needs = r.needs
       /\ ~a.submitting
  <2> HIDE DEF r
  <2> QED
    BY <1>3 DEF TabShapes, SameView, SameWork
<1>11. r.begun => r.needs
  BY <1>3 DEF TabTrue
<1>12. \/ c.kind = "start" /\ Stay(t, a, w)
       \/ Stay(t, b, w)
  BY DEF Started, AuthFailed, w
<1> HIDE DEF a, b
<1> QED
  BY <1>5, <1>9, <1>10, <1>11, <1>12

LEMMA AuthenticatedStep ==
  ASSUME AInv, NEW c \in wire, Authenticated(c)
  PROVE  AInv'
<1> DEFINE t == c.tab
           w == wire \ {c}
           k == c.got.tok
           s == [Console("dashboard") EXCEPT !.told = tabs[t].told]
<1>1. /\ c.kind \in AuthCalls /\ c.kind \in {"complete", "login"} /\ c.at = "ok"
      /\ key' = k /\ tabs' = [tabs EXCEPT ![t] = s]
      /\ wire' = Left(t, w) \cup {[r EXCEPT !.tok = key'] : r \in Reading(t, "dashboard")}
      /\ Cardinality(wire') <= journey.wire /\ behind' = behind \ {t}
      /\ UNCHANGED <<boot, issued, open, data, reloads, faults, journey, lapsed, wanted, undone>>
  BY DEF Authenticated, AuthCalls, server, bounds
<1>2. /\ t \in journey.tabs /\ \A d \in w : d.tab = t => d.kind \notin {"status"} \cup AuthCalls
  BY <1>1, GateCalls
<1>3. k \in 0..issued /\ k # 0
  BY <1>1, WireFacts DEF CallShapes, AnswerShapes, CallTrue
<1>4. w \subseteq wire /\ \A u : u # t => Mine(w, u) = Mine(wire, u)
  BY MineDrop
<1>5. ConsoleHasSession'
  BY <1>1, <1>3 DEF ConsoleHasSession
<1>6. key' \in 0..issued /\ lapsed' \subseteq Tabs /\ reloads' \in 0..journey.reloads /\ "dashboard" \in Views
  BY <1>1, <1>3, WireFacts DEF AInv, Shapes, Views, Reports
<1>7. wire' = Left(t, w) \cup {[r EXCEPT !.tok = k] : r \in Reading(t, "dashboard")}
  BY <1>1
<1> HIDE DEF t, w, k
<1> QED
  BY <1>1, <1>2, <1>3, <1>4, <1>5, <1>6, <1>7, ConsoleStep DEF s

LEMMA StatusStep ==
  ASSUME AInv, NEW c \in wire, StatusAnswered(c)
  PROVE  AInv'
<1> DEFINE t == c.tab
           r == tabs[t]
           n == IF c.at = "ok" THEN c.got.setup ELSE r.needs
           s == [r EXCEPT !.loading = FALSE, !.needs = n]
           w == wire \ {c}
           M == Mine(wire, t)
<1>1. /\ c.kind = "status" /\ c.at \in {"ok", "failed"}
      /\ UNCHANGED <<boot, issued, open, data, reloads, faults, journey, wanted, undone>>
  BY DEF StatusAnswered, server, bounds
<1>2. /\ t \in journey.tabs /\ c \in M /\ ~r.admin
      /\ \A d \in w : d.tab = t => d.kind \notin {"status"} \cup AuthCalls
  BY <1>1, GateCalls
<1>3. /\ r \in TabShapes /\ TabTrue(r, M) /\ t \in Tabs /\ tabs \in [Tabs -> TabShapes]
      /\ \A u \in journey.tabs : u \in Tabs
      /\ key \in 0..issued /\ issued \in Nat /\ lapsed \subseteq Tabs /\ behind \subseteq Tabs
  BY <1>2, WireFacts
<1>4. r.loading /\ ~r.submitting /\ ~r.begun
  BY <1>1, <1>2, <1>3 DEF TabTrue, CallFits
<1>5. Mine(w, t) = M \ {c} /\ \A u : u # t => Mine(w, u) = Mine(wire, u)
  BY MineDrop
<1>6. /\ w \in SUBSET CallShapes(issued, journey.tabs) /\ IsFiniteSet(w) /\ w \subseteq wire
      /\ \A d \in w : CallTrue(d) /\ Fresh(d, data)
  BY WireFacts, FS_Subset
<1>7. Cardinality(w) <= journey.wire
  <2>1. IsFiniteSet(wire) /\ Cardinality(wire) <= journey.wire /\ journey.wire \in Nat
    BY WireFacts DEF AInv, Shapes
  <2>2. Cardinality(w) <= Cardinality(wire) /\ Cardinality(w) \in Nat /\ Cardinality(wire) \in Nat
    BY <1>6, <2>1, FS_Subset, FS_CardinalityType
  <2> QED
    BY <2>1, <2>2
<1>8. reloads' \in 0..journey.reloads
  BY <1>1 DEF AInv, Shapes
<1>9. CASE c.got.admin
  <2>1. /\ Mount(t, [Console("dashboard") EXCEPT !.told = tabs[t].told], w, Reading(t, "dashboard"))
        /\ lapsed' = (IF key = 0 THEN lapsed \cup {t} ELSE lapsed)
        /\ UNCHANGED key
    BY <1>9 DEF StatusAnswered
  <2>2. /\ tabs' = [tabs EXCEPT ![t] = [Console("dashboard") EXCEPT !.told = tabs[t].told]]
        /\ wire' = Left(t, w) \cup Reading(t, "dashboard")
        /\ Cardinality(wire') <= journey.wire /\ behind' = behind \ {t}
    BY <2>1 DEF Mount
  <2>3. lapsed' \subseteq Tabs /\ key' \in 0..issued /\ "dashboard" \in Views
    BY <1>3, <2>1 DEF Views, Reports
  <2>4. ConsoleHasSession'
    <3>1. ASSUME NEW u \in journey.tabs, tabs'[u].admin, ~tabs'[u].told, u \notin lapsed', key = 0
          PROVE  FALSE
      <4>1. u # t /\ u \notin lapsed
        BY <2>1, <3>1
      <4>2. tabs'[u] = tabs[u]
        BY <1>3, <2>2, <4>1
      <4> QED
        BY <3>1, <4>1, <4>2 DEF AInv, ConsoleHasSession
    <3> QED
      BY <1>1, <2>1, <3>1 DEF ConsoleHasSession
  <2> HIDE DEF t, w
  <2> QED
    BY <1>1, <1>2, <1>3, <1>5, <1>6, <1>8, <2>2, <2>3, <2>4, ConsoleStep
<1>10. CASE ~c.got.admin
  <2> DEFINE ts == [tabs EXCEPT ![t] = s]
  <2>1. /\ key' = (IF c.at = "ok" THEN 0 ELSE key) /\ tabs' = Told(ts, t, key')
        /\ wire' = w /\ behind' = behind /\ lapsed' = lapsed
    BY <1>10 DEF StatusAnswered
  <2>2. n \in BOOLEAN
    BY <1>3, WireFacts DEF CallShapes, AnswerShapes, TabShapes
  <2> HIDE DEF n
  <2>3. /\ s \in TabShapes /\ SameView(s, r) /\ SameWork(s, r) /\ s.told = r.told
        /\ s.admin = r.admin /\ ~s.loading /\ s.begun = r.begun /\ s.submitting = r.submitting
    <3> HIDE DEF r
    <3> QED
      BY <1>3, <2>2 DEF TabShapes, SameView, SameWork
  <2> HIDE DEF s
  <2>4. ts \in [Tabs -> TabShapes] /\ ts[t] = s /\ \A u \in journey.tabs \ {t} : ts[u] = tabs[u]
    BY <1>3, <2>3
  <2>5. key' \in 0..issued
    BY <1>3, <2>1
  <2>6. ConsoleHasSession'
    <3>1. CASE key' = 0
      BY <1>1, <1>2, <2>1, <2>3, <3>1, SessionGone
    <3>2. CASE key' # 0
      BY <3>2 DEF ConsoleHasSession
    <3> QED
      BY <3>1, <3>2
  <2> HIDE DEF ts
  <2>7. ASSUME NEW k
        PROVE  LET q == Told(ts, t, k)
               IN q \in [Tabs -> TabShapes] /\ q[t] = ts[t] /\ \A u \in Tabs : Alike(q[u], ts[u])
    BY <1>3, <2>4, ToldFacts
  <2>8. tabs' \in [Tabs -> TabShapes] /\ tabs'[t] = s /\ \A u \in Tabs : Alike(tabs'[u], ts[u])
    BY <2>1, <2>4, <2>7
  <2>9. \A u \in journey.tabs \ {t} : Alike(tabs'[u], tabs[u])
    BY <1>3, <2>4, <2>8
  <2>10. \A d \in M \ {c} : d.kind \notin {"status"} \cup AuthCalls
    BY <1>2 DEF Mine
  <2> HIDE DEF M
  <2>11. \A d \in M \ {c} : CallFits(d, s)
    BY <1>3, <2>3, <2>10 DEF TabTrue, CallFits, SameView, SameWork, AuthCalls
  <2>12. \A d, e \in M \ {c} : Clash(d.kind, e.kind) => d = e
    BY <1>3 DEF TabTrue
  <2>13. s.busy = {}
    <3>1. ASSUME NEW d \in r.busy PROVE FALSE
      <4>1. PICK e \in M : e.kind \in Ops
        BY <1>3, <3>1 DEF TabTrue
      <4> QED
        BY <1>2, <1>3, <4>1 DEF TabTrue, CallFits
    <3> QED
      BY <2>3, <3>1 DEF SameWork
  <2>14. DialogTrue(s)
    BY <1>3, <2>3 DEF TabTrue, DialogTrue, SameWork, SameView
  <2>15. TabTrue(s, M \ {c})
    BY <1>4, <2>3, <2>11, <2>12, <2>13, <2>14 DEF TabTrue
  <2>16. TabTrue(tabs'[t], Mine(w, t)) /\ ~tabs'[t].admin
    BY <1>2, <1>5, <2>3, <2>8, <2>15
  <2>17. \A u \in journey.tabs \ {t} :
           /\ Alike(tabs'[u], tabs[u])
           /\ Mine(w, u) = Mine(wire, u)
           /\ u \in behind => u \in behind'
    BY <1>5, <2>1, <2>9
  <2>18. behind' \subseteq Tabs /\ lapsed' \subseteq Tabs
    BY <1>3, <2>1
  <2> HIDE DEF t, w
  <2> QED
    BY <1>1, <1>2, <1>6, <1>7, <1>8, <2>1, <2>5, <2>6, <2>8, <2>16, <2>17, <2>18, PageStep
<1> QED
  BY <1>9, <1>10

-----------------------------------------------------------------------------
(* The console: answers.                                                   *)

\* A read of a view
LEMMA AskedRead ==
  ASSUME AInv, NEW t \in journey.tabs, NEW kind \in Reads, NEW v \in Views,
         kind = "letters" => v = "queue"
  PROVE  LET c == Ask(t, kind, v, Config, Nothing)
         IN /\ c \in CallShapes(issued, journey.tabs) /\ c.at = "sent" /\ ~c.got.admin
            /\ CallTrue(c) /\ Fresh(c, data) /\ c.tab = t /\ c.live /\ c.kind = kind /\ c.view = v
<1> DEFINE c == Ask(t, kind, v, Config, Nothing)
<1>1. issued \in Nat /\ key \in 0..issued
  BY WireFacts
<1>2. kind \in Kinds /\ Config \in Cells /\ Nothing \in RowShapes
  BY NothingShape DEF Kinds, Cells
<1>3. c \in CallShapes(issued, journey.tabs)
  BY <1>1, <1>2, AskShape
<1>4. c.tab = t /\ c.live /\ c.kind = kind /\ c.view = v /\ c.at = "sent" /\ ~c.got.admin
  BY AskFields
<1> HIDE DEF c
<1>5. CallTrue(c) /\ Fresh(c, data)
  BY <1>4 DEF CallTrue, Fresh, Reads, AuthCalls, Ops, Confirmed, Reloading, Filling
<1> QED
  BY <1>3, <1>4, <1>5 DEF c

\* A read that follows an answer matters as much as the answer did.
LEMMA AskedAgain ==
  ASSUME AInv, NEW t \in journey.tabs, NEW kind \in Reads, NEW v \in Views, NEW b \in BOOLEAN,
         kind = "letters" => v = "queue"
  PROVE  LET m == [Ask(t, kind, v, Config, Nothing) EXCEPT !.live = b]
         IN /\ m \in CallShapes(issued, journey.tabs)
            /\ CallTrue(m) /\ Fresh(m, data) /\ m.tab = t /\ m.live = b /\ m.kind = kind /\ m.view = v
<1> DEFINE c == Ask(t, kind, v, Config, Nothing)
           m == [c EXCEPT !.live = b]
<1>1. /\ c \in CallShapes(issued, journey.tabs)
      /\ c.tab = t /\ c.kind = kind /\ c.view = v /\ c.at = "sent" /\ ~c.got.admin
  BY AskedRead
<1> HIDE DEF c
<1>2. /\ m \in CallShapes(issued, journey.tabs) /\ m.live = b
      /\ m.tab = t /\ m.kind = kind /\ m.view = v /\ m.at = "sent" /\ ~m.got.admin
  BY <1>1, CallLive
<1> HIDE DEF m
<1>3. CallTrue(m) /\ Fresh(m, data)
  BY <1>2 DEF CallTrue, Fresh, Reads, AuthCalls, Ops, Confirmed, Reloading, Filling
<1> QED
  BY <1>2, <1>3 DEF m, c

LEMMA ReadAdded ==
  ASSUME NEW s, NEW M, TabTrue(s, M), s.admin, NEW c, c.kind \in Reads, c.view = s.view
  PROVE  TabTrue(s, M \cup {c})
<1>1. c.kind \notin {"status"} \cup AuthCalls \cup Ops \cup Confirmed
  BY DEF Reads, AuthCalls, Ops, Confirmed, Reloading, Filling
<1>2. CallFits(c, s)
  BY <1>1 DEF CallFits, AuthCalls
<1>3. \A k : ~Clash(c.kind, k) /\ ~Clash(k, c.kind)
  BY <1>1 DEF Clash
<1> QED
  BY <1>2, <1>3 DEF TabTrue

LEMMA RefreshStep ==
  ASSUME AInv, NEW t \in Tabs, Refresh(t) \/ Logout(t)
  PROVE  AInv'
<1> DEFINE r == tabs[t]
<1>1. t \in journey.tabs /\ r.admin /\ UNCHANGED <<server, key, bounds, history>>
  BY DEF Refresh, Logout
<1>2. r \in TabShapes /\ TabTrue(r, Mine(wire, t)) /\ issued \in Nat /\ key \in 0..issued
  BY <1>1, WireFacts
<1>3. r.view \in Views
  BY <1>2 DEF TabShapes
<1>4. SameView(r, r)
  BY DEF SameView
<1>5. CASE Refresh(t)
  <2> DEFINE v == r.view
             c == Ask(t, "load", v, Config, Nothing)
  <2>1. Asking(t, r, c)
    BY <1>5 DEF Refresh
  <2>2. "load" \in Reads
    BY DEF Reads
  <2>3. v \in Views
    BY <1>3
  <2> HIDE DEF v
  <2>4. /\ c \in CallShapes(issued, journey.tabs)
        /\ CallTrue(c) /\ Fresh(c, data) /\ c.tab = t /\ c.live /\ c.kind = "load" /\ c.view = v
    BY <1>1, <2>2, <2>3, AskedRead
  <2> HIDE DEF c
  <2>5. c.kind \in Reads /\ c.view = r.view
    BY <2>2, <2>4 DEF v
  <2> HIDE DEF r
  <2>6. TabTrue(r, Mine(wire, t) \cup {c})
    BY <1>1, <1>2, <2>5, ReadAdded
  <2> QED
    BY <1>1, <1>2, <1>4, <2>1, <2>4, <2>6, AskStep DEF r
<1>6. CASE Logout(t)
  <2> DEFINE c == Ask(t, "logout", "dashboard", Config, Nothing)
  <2>1. Asking(t, r, c)
    BY <1>6 DEF Logout
  <2>2. c.tab = t /\ c.live /\ c.kind = "logout" /\ c.view = "dashboard" /\ c.at = "sent" /\ ~c.got.admin
    BY AskFields
  <2>3. "logout" \in Kinds /\ "dashboard" \in Views /\ Config \in Cells /\ Nothing \in RowShapes
    BY NothingShape DEF Kinds, Views, Reports, Cells
  <2>4. c \in CallShapes(issued, journey.tabs)
    BY <1>1, <1>2, <2>3, AskShape
  <2> HIDE DEF c
  <2>5. CallTrue(c) /\ Fresh(c, data)
    BY <2>2 DEF CallTrue, Fresh, AuthCalls, Reads, Ops, Confirmed, Reloading, Filling
  <2> HIDE DEF r
  <2> QED
    BY <1>1, <1>2, <1>4, <2>1, <2>2, <2>4, <2>5, AskStep DEF r
<1> QED
  BY <1>5, <1>6

\* An answer that matters no longer
LEMMA DeadStep ==
  ASSUME AInv, NEW c \in wire, ~c.live,
         NEW E \in SUBSET CallShapes(issued, journey.tabs), IsFiniteSet(E),
         \A m \in E : CallTrue(m) /\ Fresh(m, data) /\ ~m.live,
         Stay(c.tab, tabs[c.tab], (wire \ {c}) \cup E), behind' = behind,
         UNCHANGED <<server, key, bounds, lapsed, wanted, undone>>
  PROVE  AInv'
<1> DEFINE t == c.tab
           w == (wire \ {c}) \cup E
           s == tabs[t]
<1>1. /\ t \in journey.tabs /\ s \in TabShapes /\ TabTrue(s, Mine(wire, t)) /\ behind \subseteq Tabs
      /\ (s.admin /\ t \notin behind => ShowsTrue(s, Mine(wire, t), data))
  BY WireFacts
<1>2. w \in SUBSET CallShapes(issued, journey.tabs) /\ IsFiniteSet(w)
  BY WireFacts, FS_Subset, FS_Union
<1>3. \A d \in w : CallTrue(d) /\ Fresh(d, data)
  BY WireFacts
<1>4. \A u : Mine(w, u) = Mine(wire, u)
  BY DEF Mine
<1>5. Stay(t, s, w)
  OBVIOUS
<1> HIDE DEF w, s
<1>6. /\ TabTrue(s, Mine(w, t)) /\ (s.admin /\ t \notin behind' => ShowsTrue(s, Mine(w, t), data))
      /\ \A u \in journey.tabs \ {t} : Mine(w, u) = Mine(wire, u)
      /\ \A u \in journey.tabs \ {t} : u \in behind => u \in behind'
      /\ behind' \subseteq Tabs
  BY <1>1, <1>4
<1> HIDE DEF t
<1> QED
  BY <1>1, <1>2, <1>3, <1>5, <1>6, StayStep DEF s

\* An answer that matters, and what is read after it
LEMMA LiveStep ==
  ASSUME AInv, NEW c \in wire, c.live, c.kind \in Reads \cup Ops,
         NEW s \in TabShapes,
         NEW E \in SUBSET CallShapes(issued, journey.tabs), IsFiniteSet(E),
         \A m \in E : CallTrue(m) /\ Fresh(m, data) /\ m.tab = c.tab /\ m.live /\ m.kind \in Reads /\ m.view = c.view,
         \A m, n \in E : m = n,
         Stay(c.tab, s, (wire \ {c}) \cup E),
         SameGate(s, tabs[c.tab]), s.view = tabs[c.tab].view, s.told = tabs[c.tab].told,
         TabTrue(s, Mine(wire, c.tab) \ {c}),
         behind' \in {behind, behind \cup {c.tab}, behind \ {c.tab}},
         c.tab \notin behind' => ShowsTrue(s, (Mine(wire, c.tab) \ {c}) \cup E, data),
         UNCHANGED <<server, key, bounds, lapsed, wanted, undone>>
  PROVE  AInv'
<1> DEFINE t == c.tab
           w == (wire \ {c}) \cup E
           M == Mine(wire, t)
<1>1. t \in journey.tabs /\ t \in Tabs /\ TabTrue(tabs[t], M) /\ behind \subseteq Tabs
  BY WireFacts
<1>2. w \in SUBSET CallShapes(issued, journey.tabs) /\ IsFiniteSet(w)
  BY WireFacts, FS_Subset, FS_Union
<1>3. \A d \in w : CallTrue(d) /\ Fresh(d, data)
  BY WireFacts
<1>4. \A k \in Reads \cup Ops : k # "logout"
  BY OpsAreKinds DEF Reads
<1>5. Mine(w, t) = (M \ {c}) \cup E
  BY <1>4 DEF Mine
<1>6. \A u : u # t => Mine(w, u) = Mine(wire, u)
  BY DEF Mine
<1>7. s.admin /\ s.view = c.view
  <2>1. c \in M
    BY <1>4 DEF Mine
  <2>2. tabs[t].admin /\ tabs[t].view = c.view
    BY <1>1, <2>1 DEF TabTrue, CallFits
  <2> QED
    BY <2>2 DEF SameGate
<1>8. TabTrue(s, (M \ {c}) \cup E)
  <2>1. CASE E = {}
    <3>1. (M \ {c}) \cup E = M \ {c}
      BY <2>1
    <3> QED
      BY <3>1
  <2>2. CASE E # {}
    <3>1. PICK m \in E : TRUE
      BY <2>2
    <3>2. E = {m}
      BY <3>1
    <3>3. TabTrue(s, (M \ {c}) \cup {m})
      BY <1>7, <3>1, ReadAdded
    <3> QED
      BY <3>2, <3>3
  <2> QED
    BY <2>1, <2>2
<1>9. Stay(t, s, w)
  OBVIOUS
<1>10. behind' \subseteq Tabs /\ \A u \in journey.tabs \ {t} : u \in behind => u \in behind'
  BY <1>1
<1> HIDE DEF w, M
<1>11. TabTrue(s, Mine(w, t)) /\ (s.admin /\ t \notin behind' => ShowsTrue(s, Mine(w, t), data))
  BY <1>5, <1>8 DEF M
<1>12. s.admin = tabs[t].admin /\ s.told = tabs[t].told /\ \A u \in journey.tabs \ {t} : Mine(w, u) = Mine(wire, u)
  BY <1>6 DEF SameGate
<1> HIDE DEF t
<1> QED
  BY <1>1, <1>2, <1>3, <1>9, <1>10, <1>11, <1>12, StayStep

\* The answer of a read is taken off the wire.
LEMMA ReadDropped ==
  ASSUME NEW s, NEW M, TabTrue(s, M), NEW c \in M, c.kind \in Reads
  PROVE  TabTrue(s, M \ {c}) /\ s.admin /\ s.view = c.view
<1>1. s.admin /\ s.view = c.view
  BY DEF TabTrue, CallFits
<1>2. c.kind \notin {"status"} \cup AuthCalls \cup Ops
  BY DEF Reads, AuthCalls, Ops, Confirmed, Reloading, Filling
<1>3. TabTrue(s, M \ {c})
  BY <1>2 DEF TabTrue
<1> QED
  BY <1>1, <1>3

\* The answer of an operation is, and its flag goes off.
LEMMA OpDropped ==
  ASSUME NEW s, NEW M, TabTrue(s, M), NEW c \in M, c.kind \in Ops,
         NEW r, SameGate(r, s), r.view = s.view, r.busy = s.busy \ {[op |-> c.kind, arg |-> c.arg]},
         r.dialog = s.dialog \/ (c.kind \in Confirmed /\ r.dialog.op = "")
  PROVE  TabTrue(r, M \ {c}) /\ s.admin /\ s.view = c.view
<1>1. s.admin /\ s.view = c.view
  BY DEF TabTrue, CallFits
<1>2. \A d \in M \ {c} : d.kind \in Ops => FlagOf(d.kind) # FlagOf(c.kind)
  BY DEF TabTrue, Clash
<1>3. ASSUME NEW d \in M \ {c} PROVE CallFits(d, r)
  <2>1. CallFits(d, s)
    BY DEF TabTrue
  <2>2. d.kind \in Ops => [op |-> d.kind, arg |-> d.arg] \in r.busy
    BY <1>2, <2>1 DEF CallFits
  <2>3. d.kind \in Confirmed => r.dialog.op = d.kind /\ r.dialog.arg = d.arg
    <3>1. ASSUME d.kind \in Confirmed, c.kind \in Confirmed PROVE FALSE
      <4>1. s.dialog.op = d.kind /\ s.dialog.op = c.kind /\ d.kind \in Ops
        BY <2>1, <3>1 DEF TabTrue, CallFits, Ops
      <4> QED
        BY <1>2, <4>1
    <3> QED
      BY <2>1, <3>1 DEF CallFits
  <2> QED
    BY <2>1, <2>2, <2>3 DEF CallFits, SameGate
<1>4. \A d, e \in M \ {c} : Clash(d.kind, e.kind) => d = e
  BY DEF TabTrue
<1>5. ASSUME NEW b \in r.busy
      PROVE  \E d \in M \ {c} : d.kind \in Ops /\ b = [op |-> d.kind, arg |-> d.arg]
  <2>1. PICK d \in M : d.kind \in Ops /\ b = [op |-> d.kind, arg |-> d.arg]
    BY DEF TabTrue
  <2> QED
    BY <2>1
<1>6. DialogTrue(r)
  BY DEF TabTrue, DialogTrue, SameGate
<1>7. ~s.loading /\ ~s.submitting
  BY <1>1 DEF TabTrue, CallFits
<1>8. TabTrue(r, M \ {c})
  BY <1>3, <1>4, <1>5, <1>6, <1>7 DEF TabTrue, SameGate
<1> QED
  BY <1>1, <1>8

LEMMA TabFill ==
  ASSUME NEW s \in TabShapes, NEW x \in RowsShapes
  PROVE  LET r == Fill(s, x)
         IN /\ r \in TabShapes /\ SameGate(r, s) /\ SameWork(r, s) /\ r.told = s.told
            /\ r.view = s.view /\ r.form = x[Config].has /\ ~r.edited
<1> DEFINE n == x[Config].has
           r == [s EXCEPT !.form = n, !.edited = FALSE]
<1>1. n \in Nat
  BY DEF RowsShapes, RowShapes, Cells
<1>2. Fill(s, x) = r
  BY DEF Fill
<1> HIDE DEF n
<1>3. /\ r \in TabShapes /\ SameGate(r, s) /\ SameWork(r, s) /\ r.told = s.told
      /\ r.view = s.view /\ r.form = n /\ ~r.edited
  BY <1>1 DEF TabShapes, SameGate, SameWork
<1> QED
  BY <1>2, <1>3 DEF n

LEMMA LoadedStep ==
  ASSUME AInv, NEW c \in wire, Loaded(c)
  PROVE  AInv'
<1> DEFINE t == c.tab
           s == tabs[t]
           M == Mine(wire, t)
           x == c.got.rows
           next == IF c.view \in Forms THEN Fill(s, x) ELSE [s EXCEPT !.rows = x]
           m == [Ask(t, "letters", "queue", Config, Nothing) EXCEPT !.live = c.live]
           E == {d \in {m} : c.view = "queue" /\ c.kind = "load"}
           shown == c.live /\ E = {}
<1>1. /\ c.kind \in Reads /\ c.at = "ok"
      /\ Stay(t, IF shown THEN next ELSE s, (wire \ {c}) \cup E)
      /\ behind' = (IF ~shown THEN behind ELSE IF c.stale THEN behind \cup {t} ELSE behind \ {t})
      /\ UNCHANGED <<server, key, bounds, lapsed, wanted, undone>>
  BY DEF Loaded
<1>2. /\ t \in journey.tabs /\ s \in TabShapes /\ TabTrue(s, M) /\ x \in RowsShapes /\ c.live \in BOOLEAN
      /\ Fresh(c, data)
  BY WireFacts DEF CallShapes, AnswerShapes
<1>3. /\ m \in CallShapes(issued, journey.tabs) /\ CallTrue(m) /\ Fresh(m, data)
      /\ m.tab = t /\ m.live = c.live /\ m.kind = "letters" /\ m.view = "queue"
  <2> DEFINE b == c.live
             u == c.tab
  <2>1. b \in BOOLEAN /\ u \in journey.tabs /\ "letters" \in Reads /\ "queue" \in Views
    BY <1>2 DEF Reads, Views, Lists
  <2> HIDE DEF b, u
  <2>2. LET l == [Ask(u, "letters", "queue", Config, Nothing) EXCEPT !.live = b]
        IN /\ l \in CallShapes(issued, journey.tabs) /\ CallTrue(l) /\ Fresh(l, data)
           /\ l.tab = u /\ l.live = b /\ l.kind = "letters" /\ l.view = "queue"
    BY <2>1, AskedAgain
  <2> QED
    BY <2>2 DEF b, u
<1> HIDE DEF m
<1>4. /\ E \in SUBSET CallShapes(issued, journey.tabs) /\ IsFiniteSet(E)
      /\ \A d, e \in E : d = e
      /\ \A d \in E : /\ CallTrue(d) /\ Fresh(d, data) /\ d.tab = t /\ d.live = c.live
                      /\ d.kind \in Reads /\ d.view = c.view
  <2>1. IsFiniteSet(E)
    BY FS_Singleton, FS_Subset
  <2> QED
    BY <1>3, <2>1 DEF Reads
<1>5. CASE ~c.live
  <2>1. Stay(t, s, (wire \ {c}) \cup E) /\ behind' = behind
    BY <1>1, <1>5
  <2> HIDE DEF E
  <2> QED
    BY <1>1, <1>4, <1>5, <2>1, DeadStep
<1>6. CASE c.live
  <2>1. c \in M
    BY <1>1, <1>6 DEF Mine, Reads
  <2>2. TabTrue(s, M \ {c}) /\ s.admin /\ s.view = c.view
    BY <1>1, <1>2, <2>1, ReadDropped
  <2>3. CASE E # {}
    <3>1. Stay(t, s, (wire \ {c}) \cup E) /\ behind' = behind
      BY <1>1, <2>3
    <3>2. c.view = "queue"
      BY <2>3
    <3> HIDE DEF E
    <3>3. Coming((M \ {c}) \cup E)
      BY <1>4, <2>3 DEF Coming
    <3>4. ShowsTrue(s, (M \ {c}) \cup E, data)
      BY <2>2, <3>2, <3>3 DEF ShowsTrue, Forms
    <3>5. SameGate(s, s)
      BY DEF SameGate
    <3> HIDE DEF M, s
    <3> QED
      BY <1>1, <1>2, <1>4, <1>6, <2>2, <3>1, <3>4, <3>5, LiveStep DEF M, s
  <2>4. CASE E = {}
    <3>1. /\ Stay(t, next, (wire \ {c}) \cup E)
          /\ behind' = (IF c.stale THEN behind \cup {t} ELSE behind \ {t})
      BY <1>1, <1>6, <2>4
    <3>2. /\ next \in TabShapes /\ SameGate(next, s) /\ SameWork(next, s) /\ next.told = s.told
          /\ next.view = s.view
          /\ c.view \in Forms => next.form = x[Config].has
          /\ c.view \notin Forms => next.rows = x
      <4> DEFINE f == Fill(s, x)
                 l == [s EXCEPT !.rows = x]
      <4>1. /\ f \in TabShapes /\ SameGate(f, s) /\ SameWork(f, s) /\ f.told = s.told
            /\ f.view = s.view /\ f.form = x[Config].has
        <5> HIDE DEF s, x
        <5> QED
          BY <1>2, TabFill
      <4>2. /\ l \in TabShapes /\ SameGate(l, s) /\ SameWork(l, s) /\ l.told = s.told
            /\ l.view = s.view /\ l.rows = x
        <5> HIDE DEF s, x
        <5> QED
          BY <1>2, TabRows
      <4>3. next = (IF c.view \in Forms THEN f ELSE l)
        OBVIOUS
      <4> HIDE DEF f, l, next
      <4> QED
        BY <4>1, <4>2, <4>3
    <3> HIDE DEF next
    <3>3. TabTrue(next, M \ {c})
      <4>1. \A d \in M \ {c} : d.kind \in Confirmed => next.dialog.op = d.kind /\ next.dialog.arg = d.arg
        BY <2>2, <3>2 DEF TabTrue, CallFits, SameWork
      <4>2. DialogTrue(next)
        BY <2>2, <3>2 DEF TabTrue, DialogTrue, SameWork, SameGate
      <4> HIDE DEF M
      <4> QED
        BY <2>2, <3>2, <4>1, <4>2, TabKept DEF SameWork
    <3>4. t \notin behind' => ShowsTrue(next, (M \ {c}) \cup E, data)
      <4> SUFFICES ASSUME ~c.stale PROVE ShowsTrue(next, (M \ {c}) \cup E, data)
        BY <3>1
      <4>1. x = data[c.view]
        BY <1>1, <1>2 DEF Fresh
      <4> HIDE DEF M, E, x
      <4>2. next.view \in Lists => next.rows = data[next.view]
        BY <2>2, <3>2, <4>1 DEF Lists, Forms
      <4>3. next.view \in Forms => next.form = data[next.view][Config].has
        BY <2>2, <3>2, <4>1
      <4> QED
        BY <4>2, <4>3 DEF ShowsTrue
    <3>5. behind' \in {behind, behind \cup {t}, behind \ {t}}
      BY <3>1
    <3> HIDE DEF E, M, s
    <3> QED
      BY <1>1, <1>4, <1>6, <3>1, <3>2, <3>3, <3>4, <3>5, LiveStep DEF M, s
  <2> QED
    BY <2>3, <2>4
<1> QED
  BY <1>2, <1>5, <1>6

LEMMA LoadFailedStep ==
  ASSUME AInv, NEW c \in wire, LoadFailed(c)
  PROVE  AInv'
<1> DEFINE t == c.tab
           s == tabs[t]
           M == Mine(wire, t)
           e == [s EXCEPT !.rows = NoRows]
<1>1. /\ c.kind \in Reads
      /\ Stay(t, IF c.live /\ c.view \notin Forms \cup {"invites"} THEN e ELSE s, (wire \ {c}) \cup {})
      /\ behind' = (IF c.live THEN behind \cup {t} ELSE behind)
      /\ UNCHANGED <<server, key, bounds, lapsed, wanted, undone>>
  <2>1. (wire \ {c}) \cup {} = wire \ {c}
    OBVIOUS
  <2> QED
    BY <2>1 DEF LoadFailed
<1>2. t \in journey.tabs /\ s \in TabShapes /\ TabTrue(s, M)
  BY WireFacts
<1>3. {} \in SUBSET CallShapes(issued, journey.tabs) /\ IsFiniteSet({})
  BY FS_EmptySet
<1>4. CASE ~c.live
  BY <1>1, <1>3, <1>4, DeadStep
<1>5. CASE c.live
  <2>1. c \in M
    BY <1>1, <1>5 DEF Mine, Reads
  <2>2. TabTrue(s, M \ {c})
    BY <1>1, <1>2, <2>1, ReadDropped
  <2>3. /\ e \in TabShapes /\ SameGate(e, s) /\ SameWork(e, s) /\ e.told = s.told /\ e.view = s.view
    <3>1. NoRows \in RowsShapes
      BY DEF NoRows, RowsShapes, RowShapes, Nothing, Cells, Marks
    <3> HIDE DEF s
    <3> QED
      BY <1>2, <3>1, TabRows
  <2> HIDE DEF e
  <2>4. ASSUME NEW r \in {e, s}
        PROVE  r \in TabShapes /\ SameGate(r, s) /\ SameWork(r, s) /\ r.told = s.told /\ r.view = s.view
    BY <1>2, <2>3 DEF SameGate, SameWork
  <2>5. PICK r \in {e, s} : Stay(t, r, (wire \ {c}) \cup {})
    BY <1>1
  <2>6. TabTrue(r, M \ {c})
    <3>1. \A d \in M \ {c} : d.kind \in Confirmed => r.dialog.op = d.kind /\ r.dialog.arg = d.arg
      BY <2>2, <2>4 DEF TabTrue, CallFits, SameWork
    <3>2. DialogTrue(r)
      BY <2>2, <2>4 DEF TabTrue, DialogTrue, SameWork, SameGate
    <3> HIDE DEF M
    <3> QED
      BY <2>2, <2>4, <3>1, <3>2, TabKept DEF SameWork
  <2>7. behind' \in {behind, behind \cup {t}, behind \ {t}} /\ t \in behind'
    BY <1>1, <1>5
  <2> HIDE DEF M, s
  <2> QED
    BY <1>1, <1>3, <1>5, <2>4, <2>5, <2>6, <2>7, LiveStep DEF M, s
<1> QED
  BY <1>2, <1>4, <1>5, WireFacts DEF CallShapes

LEMMA TabOff ==
  ASSUME NEW s \in TabShapes, NEW c
  PROVE  LET r == Off(s, c)
         IN /\ r \in TabShapes /\ SameGate(r, s) /\ SameView(r, s) /\ r.told = s.told
            /\ r.busy = s.busy \ {[op |-> c.kind, arg |-> c.arg]} /\ r.dialog = s.dialog
<1> DEFINE b == s.busy \ {[op |-> c.kind, arg |-> c.arg]}
<1>1. b \in SUBSET BusyShapes
  BY DEF TabShapes
<1>2. Off(s, c) = [s EXCEPT !.busy = b]
  BY DEF Off
<1> HIDE DEF b
<1>3. LET r == [s EXCEPT !.busy = b]
      IN /\ r \in TabShapes /\ SameGate(r, s) /\ SameView(r, s) /\ r.told = s.told
         /\ r.busy = b /\ r.dialog = s.dialog
  BY <1>1, TabBusy
<1> QED
  BY <1>2, <1>3 DEF b

LEMMA OpFailedStep ==
  ASSUME AInv, NEW c \in wire, OpFailed(c)
  PROVE  AInv'
<1> DEFINE t == c.tab
           s == tabs[t]
           M == Mine(wire, t)
           r == Off(s, c)
<1>1. /\ c.kind \in Ops /\ c.at = "failed"
      /\ Stay(t, IF c.live THEN r ELSE s, (wire \ {c}) \cup {})
      /\ behind' = behind
      /\ UNCHANGED <<server, key, bounds, lapsed, wanted, undone>>
  <2>1. (wire \ {c}) \cup {} = wire \ {c}
    OBVIOUS
  <2> QED
    BY <2>1 DEF OpFailed, history
<1>2. t \in journey.tabs /\ s \in TabShapes /\ TabTrue(s, M) /\ (s.admin /\ t \notin behind => ShowsTrue(s, M, data))
  BY WireFacts
<1>3. {} \in SUBSET CallShapes(issued, journey.tabs) /\ IsFiniteSet({})
  BY FS_EmptySet
<1>4. CASE ~c.live
  BY <1>1, <1>3, <1>4, DeadStep
<1>5. CASE c.live
  <2>1. c \in M
    BY <1>1, <1>5, OpsAreKinds DEF Mine
  <2>2. /\ r \in TabShapes /\ SameGate(r, s) /\ SameView(r, s) /\ r.told = s.told
        /\ r.busy = s.busy \ {[op |-> c.kind, arg |-> c.arg]} /\ r.dialog = s.dialog
    <3> HIDE DEF s
    <3> QED
      BY <1>2, TabOff
  <2> HIDE DEF r, s, M
  <2>3. TabTrue(r, M \ {c}) /\ s.admin
    BY <1>1, <1>2, <2>1, <2>2, OpDropped DEF SameView
  <2>4. Coming(M) => Coming(M \ {c})
    <3>1. c.kind \notin Reads /\ c.at # "ok"
      BY <1>1, OpsAreKinds
    <3> QED
      BY <3>1 DEF Coming
  <2>5. t \notin behind' => ShowsTrue(r, (M \ {c}) \cup {}, data)
    <3>1. (M \ {c}) \cup {} = M \ {c}
      OBVIOUS
    <3>2. t \notin behind => ShowsTrue(r, M \ {c}, data)
      BY <1>2, <2>2, <2>3, <2>4 DEF ShowsTrue, SameView
    <3> QED
      BY <1>1, <3>1, <3>2
  <2>6. behind' \in {behind, behind \cup {t}, behind \ {t}} /\ Stay(t, r, (wire \ {c}) \cup {})
    BY <1>1, <1>5
  <2> QED
    BY <1>1, <1>3, <1>5, <2>2, <2>3, <2>5, <2>6, LiveStep DEF M, s, SameView
<1> QED
  BY <1>2, <1>4, <1>5, WireFacts DEF CallShapes

\* Every operation of a list is followed by a read, every operation of a form fills it.
LEMMA OpsOfViews ==
  ASSUME NEW v, NEW op \in OpsOf(v)
  PROVE  /\ v \in Lists => op \in Reloading
         /\ v \in Forms <=> op \in Filling
         /\ op \in Filling => op \notin Reloading
  BY DEF OpsOf, Lists, Forms, Reloading, Filling

LEMMA OpDoneStep ==
  ASSUME AInv, NEW c \in wire, OpDone(c)
  PROVE  AInv'
<1> DEFINE t == c.tab
           s == tabs[t]
           M == Mine(wire, t)
           x == c.got.rows
           off == Off(s, c)
           closed == IF c.kind \in Confirmed THEN [off EXCEPT !.dialog = NoDialog] ELSE off
           next == IF c.kind \in Filling THEN Fill(closed, x) ELSE closed
           m == [Ask(t, "load", c.view, Config, Nothing) EXCEPT !.live = c.live]
           E == {d \in {m} : c.kind \in Reloading}
<1>1. /\ c.kind \in Ops /\ c.at = "ok"
      /\ Stay(t, IF c.live THEN next ELSE s, (wire \ {c}) \cup E)
      /\ behind' = (IF c.live /\ c.kind \in Filling
                    THEN IF c.stale THEN behind \cup {t} ELSE behind \ {t}
                    ELSE behind)
      /\ UNCHANGED <<server, key, bounds, lapsed, wanted, undone>>
  BY DEF OpDone, ReadAgain
<1>2. /\ t \in journey.tabs /\ s \in TabShapes /\ TabTrue(s, M) /\ x \in RowsShapes /\ c.live \in BOOLEAN
      /\ Fresh(c, data) /\ CallTrue(c) /\ c.view \in Views
  BY WireFacts DEF CallShapes, AnswerShapes
<1>3. /\ m \in CallShapes(issued, journey.tabs) /\ CallTrue(m) /\ Fresh(m, data)
      /\ m.tab = t /\ m.live = c.live /\ m.kind = "load" /\ m.view = c.view
  <2> DEFINE b == c.live
             u == c.tab
             v == c.view
  <2>1. b \in BOOLEAN /\ u \in journey.tabs /\ "load" \in Reads /\ v \in Views
    BY <1>2 DEF Reads
  <2> HIDE DEF b, u, v
  <2>2. LET l == [Ask(u, "load", v, Config, Nothing) EXCEPT !.live = b]
        IN /\ l \in CallShapes(issued, journey.tabs) /\ CallTrue(l) /\ Fresh(l, data)
           /\ l.tab = u /\ l.live = b /\ l.kind = "load" /\ l.view = v
    BY <2>1, AskedAgain
  <2> QED
    BY <2>2 DEF b, u, v
<1> HIDE DEF m
<1>4. /\ E \in SUBSET CallShapes(issued, journey.tabs) /\ IsFiniteSet(E)
      /\ \A d, e \in E : d = e
      /\ \A d \in E : /\ CallTrue(d) /\ Fresh(d, data) /\ d.tab = t /\ d.live = c.live
                      /\ d.kind \in Reads /\ d.view = c.view
  <2>1. IsFiniteSet(E)
    BY FS_Singleton, FS_Subset
  <2> QED
    BY <1>3, <2>1 DEF Reads
<1>5. c.kind \in Reloading => E # {}
  OBVIOUS
<1> HIDE DEF E
<1>6. CASE ~c.live
  <2>1. Stay(t, s, (wire \ {c}) \cup E) /\ behind' = behind
    BY <1>1, <1>6
  <2> QED
    BY <1>1, <1>4, <1>6, <2>1, DeadStep
<1>7. CASE c.live
  <2>1. c \in M
    BY <1>1, <1>7, OpsAreKinds DEF Mine
  <2>2. /\ off \in TabShapes /\ SameGate(off, s) /\ SameView(off, s) /\ off.told = s.told
        /\ off.busy = s.busy \ {[op |-> c.kind, arg |-> c.arg]} /\ off.dialog = s.dialog
    <3> HIDE DEF s
    <3> QED
      BY <1>2, TabOff
  <2> HIDE DEF off
  <2>3. /\ closed \in TabShapes /\ SameGate(closed, s) /\ SameView(closed, s) /\ closed.told = s.told
        /\ closed.busy = off.busy
        /\ closed.dialog = s.dialog \/ (c.kind \in Confirmed /\ closed.dialog.op = "")
    <3>1. NoDialog \in DialogShapes /\ NoDialog.op = ""
      BY NothingShape DEF NoDialog
    <3> DEFINE q == [off EXCEPT !.dialog = NoDialog]
    <3>2. /\ q \in TabShapes /\ SameGate(q, off) /\ SameView(q, off) /\ q.told = off.told
          /\ q.busy = off.busy /\ q.dialog = NoDialog
      BY <2>2, <3>1, TabDialog
    <3>3. closed = IF c.kind \in Confirmed THEN q ELSE off
      OBVIOUS
    <3> HIDE DEF q, closed
    <3> QED
      BY <2>2, <3>1, <3>2, <3>3 DEF SameGate, SameView
  <2> HIDE DEF closed
  <2>4. /\ next \in TabShapes /\ SameGate(next, s) /\ next.view = s.view /\ next.told = s.told
        /\ next.busy = off.busy /\ next.dialog = closed.dialog
        /\ c.kind \in Filling => next.form = x[Config].has
    <3> DEFINE q == Fill(closed, x)
    <3>1. /\ q \in TabShapes /\ SameGate(q, closed) /\ SameWork(q, closed) /\ q.told = closed.told
          /\ q.view = closed.view /\ q.form = x[Config].has
      <4> HIDE DEF x
      <4> QED
        BY <1>2, <2>3, TabFill
    <3>2. next = IF c.kind \in Filling THEN q ELSE closed
      OBVIOUS
    <3> HIDE DEF q, next, x
    <3> QED
      BY <2>3, <3>1, <3>2 DEF SameGate, SameView, SameWork
  <2> HIDE DEF next, M, s
  <2>5. TabTrue(next, M \ {c}) /\ s.admin /\ s.view = c.view
    BY <1>1, <1>2, <2>1, <2>2, <2>3, <2>4, OpDropped
  <2>6. c.kind \in OpsOf(c.view)
    BY <1>1, <1>2 DEF CallTrue
  <2>7. t \notin behind' => ShowsTrue(next, (M \ {c}) \cup E, data)
    <3>1. next.view = c.view
      BY <2>4, <2>5
    <3>2. c.view \in Lists => Coming((M \ {c}) \cup E)
      BY <1>4, <1>5, <2>6, OpsOfViews DEF Coming
    <3>3. c.view \in Forms => c.kind \in Filling
      BY <2>6, OpsOfViews
    <3>4. t \notin behind' /\ c.kind \in Filling => x = data[c.view]
      BY <1>1, <1>2, <1>7 DEF Fresh
    <3> HIDE DEF x
    <3> QED
      BY <2>4, <3>1, <3>2, <3>3, <3>4 DEF ShowsTrue
  <2>8. behind' \in {behind, behind \cup {t}, behind \ {t}} /\ Stay(t, next, (wire \ {c}) \cup E)
    BY <1>1, <1>7
  <2> QED
    BY <1>1, <1>4, <1>7, <2>4, <2>5, <2>7, <2>8, LiveStep DEF M, s
<1> QED
  BY <1>2, <1>6, <1>7

-----------------------------------------------------------------------------
(* The server.                                                             *)

\* A step of the server turns call c into F[c] and leaves the tabs alone.
LEMMA ServerStep ==
  ASSUME AInv, NEW F,
         \A c \in wire :
           /\ F[c] \in CallShapes(issued', journey.tabs) /\ CallTrue(F[c]) /\ Fresh(F[c], data')
           /\ F[c].tab = c.tab /\ F[c].kind = c.kind /\ F[c].view = c.view
           /\ F[c].arg = c.arg /\ F[c].live = c.live
           /\ c.kind \in Ops /\ c.at = "ok" => F[c].at = "ok",
         wire' = {F[c] : c \in wire},
         UNCHANGED <<key, tabs, reloads, journey, lapsed>>,
         boot' \in BOOLEAN, issued' \in 0..journey.sessions, issued <= issued', open' \subseteq 1..issued',
         data' \in [Views -> RowsShapes], faults' \in 0..journey.faults,
         behind' \subseteq Tabs, wanted' \in [Rows -> Nat], undone' \subseteq Rows, QuotaIsWanted',
         \A t \in journey.tabs \ behind' : tabs[t].admin =>
           /\ t \notin behind
           /\ \/ data'[tabs[t].view] = data[tabs[t].view]
              \/ \E c \in Mine(wire, t) : c.kind \in Ops /\ F[c].at = "ok"
  PROVE  AInv'
<1> DEFINE w == {F[c] : c \in wire}
           N(t) == {F[c] : c \in Mine(wire, t)}
<1>1. /\ IsFiniteSet(wire) /\ issued \in Nat /\ key \in 0..issued /\ tabs \in [Tabs -> TabShapes]
      /\ lapsed \subseteq Tabs /\ journey \in Journeys /\ journey.wire \in Nat /\ journey.sessions \in Nat
      /\ \A t \in journey.tabs : TabTrue(tabs[t], Mine(wire, t))
      /\ \A t \in journey.tabs \ behind : tabs[t].admin => ShowsTrue(tabs[t], Mine(wire, t), data)
      /\ Cardinality(wire) <= journey.wire /\ reloads \in 0..journey.reloads
  BY WireFacts DEF AInv, Shapes
<1>2. IsFiniteSet(w) /\ Cardinality(w) <= journey.wire
  <2>1. IsFiniteSet(w) /\ Cardinality(w) <= Cardinality(wire)
    BY <1>1, ReplacedFinite
  <2> HIDE DEF w
  <2>2. Cardinality(w) \in Nat /\ Cardinality(wire) \in Nat
    BY <1>1, <2>1, FS_CardinalityType
  <2> QED
    BY <1>1, <2>1, <2>2
<1>3. \A t : Mine(w, t) = N(t)
  <2> TAKE t
  <2>1. ASSUME NEW c \in wire, F[c].tab = t, F[c].live, F[c].kind # "logout" PROVE c \in Mine(wire, t)
    BY <2>1 DEF Mine
  <2>2. ASSUME NEW c \in Mine(wire, t)
        PROVE  c \in wire /\ F[c].tab = t /\ F[c].live /\ F[c].kind # "logout"
    BY DEF Mine
  <2>3. Mine(w, t) \subseteq N(t)
    BY <2>1 DEF Mine
  <2>4. N(t) \subseteq Mine(w, t)
    BY <2>2 DEF Mine
  <2> QED
    BY <2>3, <2>4
<1>4. Shapes'
  <2>1. wire' \subseteq CallShapes(issued', journey.tabs)
    OBVIOUS
  <2>2. IsFiniteSet(wire') /\ Cardinality(wire') <= journey.wire
    BY <1>2
  <2>3. key' \in 0..issued'
    BY <1>1
  <2> HIDE DEF w, N
  <2> QED
    BY <1>1, <2>1, <2>2, <2>3 DEF Shapes
<1>5. CallsInv'
  BY DEF CallsInv
<1>6. \A t : \A c \in Mine(wire, t) : c \in wire
  BY DEF Mine
<1>7. TabsInv'
  <2> SUFFICES ASSUME NEW t \in journey.tabs PROVE TabTrue(tabs[t], N(t))
    BY <1>3 DEF TabsInv
  <2> DEFINE s == tabs[t]
             M == Mine(wire, t)
  <2>1. TabTrue(s, M) /\ \A c \in M : c \in wire
    BY <1>1, <1>6
  <2>2. \A c \in M : F[c].kind = c.kind /\ F[c].view = c.view /\ F[c].arg = c.arg
    BY <2>1
  <2>3. N(t) = {F[c] : c \in M}
    OBVIOUS
  <2> HIDE DEF s, M, N
  <2>4. \A c \in N(t) : CallFits(c, s)
    <3>1. ASSUME NEW c \in M PROVE CallFits(F[c], s)
      <4> DEFINE d == F[c]
      <4>1. CallFits(c, s) /\ d.kind = c.kind /\ d.view = c.view /\ d.arg = c.arg
        BY <2>1, <2>2 DEF TabTrue
      <4> HIDE DEF d
      <4>2. CallFits(d, s)
        BY <4>1 DEF CallFits
      <4> QED
        BY <4>2 DEF d
    <3> QED
      BY <2>3, <3>1
  <2>5. \A c, d \in N(t) : Clash(c.kind, d.kind) => c = d
    BY <2>1, <2>2, <2>3 DEF TabTrue
  <2>6. \A k : (\E c \in M : c.kind = k) => \E c \in N(t) : c.kind = k
    BY <2>2, <2>3
  <2>7. \A b \in s.busy : \E c \in N(t) : c.kind \in Ops /\ b = [op |-> c.kind, arg |-> c.arg]
    <3> TAKE b \in s.busy
    <3>1. PICK c \in M : c.kind \in Ops /\ b = [op |-> c.kind, arg |-> c.arg]
      BY <2>1 DEF TabTrue
    <3>2. F[c] \in N(t) /\ F[c].kind \in Ops /\ b = [op |-> F[c].kind, arg |-> F[c].arg]
      BY <2>2, <2>3, <3>1
    <3> QED
      BY <3>2
  <2>8. TabTrue(s, N(t))
    BY <2>1, <2>4, <2>5, <2>6, <2>7 DEF TabTrue
  <2> QED
    BY <2>8 DEF s
<1>8. RowsInv'
  <2>1. ASSUME NEW t \in journey.tabs, t \notin behind', tabs[t].admin
        PROVE  ShowsTrue(tabs[t], N(t), data')
    <3> DEFINE s == tabs[t]
               M == Mine(wire, t)
    <3>1. /\ t \notin behind /\ ShowsTrue(s, M, data) /\ \A c \in M : c \in wire
          /\ \/ data'[s.view] = data[s.view]
             \/ \E c \in M : c.kind \in Ops /\ F[c].at = "ok"
      BY <1>1, <1>6, <2>1
    <3>2. N(t) = {F[c] : c \in M}
      OBVIOUS
    <3> HIDE DEF s, M, N
    <3>3. Coming(M) => Coming(N(t))
      <4> SUFFICES ASSUME Coming(M) PROVE Coming(N(t))
        OBVIOUS
      <4>1. PICK c \in M : c.kind \in Reads \/ (c.kind \in Ops /\ c.at = "ok")
        BY DEF Coming
      <4>2. F[c] \in N(t) /\ (F[c].kind \in Reads \/ (F[c].kind \in Ops /\ F[c].at = "ok"))
        BY <3>1, <3>2, <4>1
      <4> QED
        BY <4>2 DEF Coming
    <3>4. (\E c \in M : c.kind \in Ops /\ F[c].at = "ok") => Coming(N(t))
      <4> SUFFICES ASSUME NEW c \in M, c.kind \in Ops, F[c].at = "ok" PROVE Coming(N(t))
        OBVIOUS
      <4>1. F[c] \in N(t) /\ F[c].kind \in Ops
        BY <3>1, <3>2
      <4> QED
        BY <4>1 DEF Coming
    <3> QED
      BY <3>1, <3>3, <3>4 DEF ShowsTrue, s
  <2>2. \A c \in w : Fresh(c, data')
    OBVIOUS
  <2> HIDE DEF w, N
  <2> QED
    BY <1>3, <2>1, <2>2 DEF RowsInv, w
<1>9. ConsoleHasSession'
  BY DEF AInv, ConsoleHasSession
<1> QED
  BY <1>4, <1>5, <1>7, <1>8, <1>9 DEF AInv

LEMMA Widened ==
  ASSUME NEW n \in Nat, NEW m \in Nat, n <= m, NEW T, NEW c \in CallShapes(n, T)
  PROVE  c \in CallShapes(m, T)
<1>1. 0..n \subseteq 0..m
  OBVIOUS
<1>2. AnswerShapes(n) \subseteq AnswerShapes(m)
  BY <1>1 DEF AnswerShapes
<1> HIDE DEF AnswerShapes
<1> QED
  BY <1>1, <1>2 DEF CallShapes

\* The server answers call c, and no row changes.
LEMMA AnswerStep ==
  ASSUME AInv, NEW c \in wire, c.at = "sent",
         NEW d \in CallShapes(issued', journey.tabs), CallTrue(d), Fresh(d, data),
         d.tab = c.tab, d.kind = c.kind, d.view = c.view, d.arg = c.arg, d.live = c.live,
         wire' = (wire \ {c}) \cup {d},
         boot' \in BOOLEAN, issued' \in 0..journey.sessions, issued <= issued', open' \subseteq 1..issued',
         faults' \in 0..journey.faults,
         UNCHANGED <<key, tabs, reloads, journey, lapsed, data, behind, wanted, undone>>
  PROVE  AInv'
<1> DEFINE F == [b \in wire |-> IF b = c THEN d ELSE b]
<1>1. /\ \A b \in wire : b \in CallShapes(issued, journey.tabs) /\ CallTrue(b) /\ Fresh(b, data)
      /\ issued \in Nat /\ journey.sessions \in Nat
  BY WireFacts
<1>2. issued' \in Nat
  BY <1>1
<1>3. \A b \in wire : b \in CallShapes(issued', journey.tabs)
  BY <1>1, <1>2, Widened
<1>4. ASSUME NEW b \in wire
      PROVE  /\ F[b] \in CallShapes(issued', journey.tabs) /\ CallTrue(F[b]) /\ Fresh(F[b], data')
             /\ F[b].tab = b.tab /\ F[b].kind = b.kind /\ F[b].view = b.view
             /\ F[b].arg = b.arg /\ F[b].live = b.live
             /\ b.kind \in Ops /\ b.at = "ok" => F[b].at = "ok"
  BY <1>1, <1>3
<1>5. wire' = {F[b] : b \in wire}
  OBVIOUS
<1> HIDE DEF F
<1>6. /\ data' \in [Views -> RowsShapes] /\ behind' \subseteq Tabs
      /\ wanted' \in [Rows -> Nat] /\ undone' \subseteq Rows /\ QuotaIsWanted'
  BY DEF AInv, Shapes, QuotaIsWanted
<1>7. \A t \in journey.tabs \ behind' : tabs[t].admin =>
           /\ t \notin behind
           /\ \/ data'[tabs[t].view] = data[tabs[t].view]
              \/ \E b \in Mine(wire, t) : b.kind \in Ops /\ F[b].at = "ok"
  OBVIOUS
<1> QED
  BY <1>4, <1>5, <1>6, <1>7, ServerStep

\* A fault is one more.
LEMMA FaultShape ==
  ASSUME AInv, Fault \/ UNCHANGED faults, UNCHANGED journey
  PROVE  faults' \in 0..journey.faults
<1>1. faults \in 0..journey.faults /\ journey.faults \in Nat
  BY WireFacts DEF AInv, Shapes
<1> QED
  BY <1>1 DEF Fault

LEMMA RefuseStep ==
  ASSUME AInv, NEW c \in wire, Refuse(c)
  PROVE  AInv'
<1> DEFINE p == [c EXCEPT !.at = "denied", !.stale = FALSE]
           q == [c EXCEPT !.at = "failed"]
<1>1. /\ c.at = "sent"
      /\ UNCHANGED <<key, tabs, reloads, journey, lapsed, boot, issued, open, data, behind, wanted, undone>>
      /\ Fault \/ UNCHANGED faults
      /\ \/ c.kind \in Reads \cup Ops /\ wire' = (wire \ {c}) \cup {p}
         \/ wire' = (wire \ {c}) \cup {q}
  BY DEF Refuse, ByServer, server, Unauthorized
<1>2. /\ c \in CallShapes(issued, journey.tabs) /\ CallTrue(c) /\ issued \in Nat
  BY WireFacts
<1>3. /\ p \in CallShapes(issued, journey.tabs)
      /\ p.tab = c.tab /\ p.kind = c.kind /\ p.view = c.view /\ p.arg = c.arg /\ p.row = c.row
      /\ p.meant = c.meant /\ p.live = c.live /\ p.at = "denied" /\ p.got = c.got
  <2> DEFINE n == issued
             T == journey.tabs
  <2>1. c \in CallShapes(n, T)
    BY <1>2
  <2> HIDE DEF n, T
  <2>2. /\ p \in CallShapes(n, T)
        /\ p.tab = c.tab /\ p.kind = c.kind /\ p.view = c.view /\ p.arg = c.arg /\ p.row = c.row
        /\ p.meant = c.meant /\ p.live = c.live /\ p.at = "denied" /\ p.got = c.got
    BY <2>1 DEF CallShapes
  <2> QED
    BY <2>2 DEF n, T
<1>4. /\ q \in CallShapes(issued, journey.tabs)
      /\ q.tab = c.tab /\ q.kind = c.kind /\ q.view = c.view /\ q.arg = c.arg /\ q.row = c.row
      /\ q.meant = c.meant /\ q.live = c.live /\ q.at = "failed" /\ q.got = c.got
  <2> DEFINE n == issued
             T == journey.tabs
  <2>1. c \in CallShapes(n, T)
    BY <1>2
  <2> HIDE DEF n, T
  <2>2. /\ q \in CallShapes(n, T)
        /\ q.tab = c.tab /\ q.kind = c.kind /\ q.view = c.view /\ q.arg = c.arg /\ q.row = c.row
        /\ q.meant = c.meant /\ q.live = c.live /\ q.at = "failed" /\ q.got = c.got
    BY <2>1 DEF CallShapes
  <2> QED
    BY <2>2 DEF n, T
<1> HIDE DEF p, q
<1>5. c.kind \in Reads \cup Ops => CallTrue(p)
  BY <1>1, <1>2, <1>3 DEF CallTrue
<1>6. CallTrue(q)
  BY <1>1, <1>2, <1>4 DEF CallTrue
<1>7. Fresh(p, data) /\ Fresh(q, data)
  BY <1>3, <1>4 DEF Fresh
<1>8. /\ boot' \in BOOLEAN /\ issued' \in 0..journey.sessions /\ issued <= issued' /\ open' \subseteq 1..issued'
  BY <1>1, <1>2 DEF AInv, Shapes
<1>9. faults' \in 0..journey.faults
  BY <1>1, FaultShape
<1>10. /\ p \in CallShapes(issued', journey.tabs) /\ q \in CallShapes(issued', journey.tabs)
  BY <1>1, <1>3, <1>4
<1> QED
  BY <1>1, <1>3, <1>4, <1>5, <1>6, <1>7, <1>8, <1>9, <1>10, AnswerStep

LEMMA ServeReadStep ==
  ASSUME AInv, NEW c \in wire, ServeRead(c)
  PROVE  AInv'
<1> DEFINE x == data[c.view]
           d == [c EXCEPT !.at = "ok", !.got.rows = x]
<1>1. /\ c.at = "sent" /\ c.kind \in Reads /\ wire' = (wire \ {c}) \cup {d}
      /\ UNCHANGED <<key, tabs, reloads, journey, lapsed, boot, issued, open, data, faults, behind, wanted, undone>>
  BY DEF ServeRead, ByServer, server
<1>2. /\ c \in CallShapes(issued, journey.tabs) /\ CallTrue(c) /\ issued \in Nat /\ x \in RowsShapes
  BY WireFacts DEF CallShapes
<1> HIDE DEF x
<1>3. /\ d \in CallShapes(issued, journey.tabs)
      /\ d.tab = c.tab /\ d.kind = c.kind /\ d.view = c.view /\ d.arg = c.arg /\ d.row = c.row
      /\ d.live = c.live /\ d.at = "ok" /\ d.got.rows = x /\ d.got.admin = c.got.admin
  <2> DEFINE n == issued
             T == journey.tabs
  <2>1. c \in CallShapes(n, T)
    BY <1>2
  <2> HIDE DEF n, T
  <2>2. /\ d \in CallShapes(n, T)
        /\ d.tab = c.tab /\ d.kind = c.kind /\ d.view = c.view /\ d.arg = c.arg /\ d.row = c.row
        /\ d.live = c.live /\ d.at = "ok" /\ d.got.rows = x /\ d.got.admin = c.got.admin
    BY <1>2, <2>1 DEF CallShapes, AnswerShapes
  <2> QED
    BY <2>2 DEF n, T
<1> HIDE DEF d
<1>4. c.kind \notin {"status"} \cup AuthCalls \cup Ops /\ c.kind \notin {"save", "publish", "unpublish"}
  BY <1>1 DEF Reads, AuthCalls, Ops, Confirmed, Reloading, Filling
<1>5. CallTrue(d)
  BY <1>1, <1>2, <1>3, <1>4 DEF CallTrue, AuthCalls
<1>6. Fresh(d, data)
  BY <1>3, <1>4 DEF Fresh, x
<1>7. /\ boot' \in BOOLEAN /\ issued' \in 0..journey.sessions /\ issued <= issued' /\ open' \subseteq 1..issued'
      /\ faults' \in 0..journey.faults
  BY <1>1, <1>2 DEF AInv, Shapes
<1>8. d \in CallShapes(issued', journey.tabs)
  BY <1>1, <1>3
<1> QED
  BY <1>1, <1>3, <1>5, <1>6, <1>7, <1>8, AnswerStep

LEMMA ServeAuthStep ==
  ASSUME AInv, NEW c \in wire, ServeAuth(c)
  PROVE  AInv'
<1> DEFINE made == IF c.kind \in {"complete", "login"} THEN {issued + 1} ELSE {}
           g == [NoAnswer EXCEPT !.setup = ~boot,
                                 !.admin = c.kind = "status" /\ c.tok \in open,
                                 !.tok = IF made = {} THEN 0 ELSE issued + 1]
           d == [c EXCEPT !.at = "ok", !.got = g]
<1>1. /\ c.at = "sent" /\ c.kind \in {"status", "logout"} \cup AuthCalls
      /\ issued' = issued + Cardinality(made) /\ issued' <= journey.sessions
      /\ open' = (open \cup made) \ (IF c.kind = "logout" THEN {c.tok} ELSE {})
      /\ boot' = (boot \/ c.kind = "complete")
      /\ wire' = (wire \ {c}) \cup {d}
      /\ UNCHANGED <<key, tabs, reloads, journey, lapsed, data, faults, behind, wanted, undone>>
  BY DEF ServeAuth, ByServer
<1> HIDE DEF d, g
<1>2. /\ c \in CallShapes(issued, journey.tabs) /\ CallTrue(c) /\ issued \in Nat /\ journey.sessions \in Nat
      /\ boot \in BOOLEAN /\ open \subseteq 1..issued
  BY WireFacts DEF AInv, Shapes
<1>3. issued' \in Nat /\ issued <= issued' /\ (made # {} => issued' = issued + 1 /\ made = {issued + 1})
      /\ (c.kind \in {"complete", "login"} => made # {})
  <2> DEFINE n == issued + 1
  <2>0. issued' = issued + Cardinality(made)
    BY <1>1
  <2>1. CASE c.kind \in {"complete", "login"}
    <3>1. made = {n}
      BY <2>1
    <3>2. Cardinality({n}) = 1
      BY FS_Singleton
    <3> HIDE DEF made
    <3> QED
      BY <1>2, <2>0, <3>1, <3>2
  <2>2. CASE c.kind \notin {"complete", "login"}
    <3>1. made = {}
      BY <2>2
    <3>2. Cardinality(made) = 0
      BY <3>1, FS_EmptySet
    <3>3. issued' = issued
      <4> HIDE DEF made
      <4> QED
        BY <1>2, <2>0, <3>2
    <3> HIDE DEF made
    <3> QED
      BY <1>2, <2>2, <3>1, <3>3
  <2> QED
    BY <2>1, <2>2
<1>4. issued' \in 0..journey.sessions /\ open' \subseteq 1..issued' /\ boot' \in BOOLEAN
  <2>0. issued' <= journey.sessions
    BY <1>1
  <2>1. issued' \in 0..journey.sessions
    BY <1>2, <1>3, <2>0
  <2>2. made \subseteq 1..issued'
    <3> HIDE DEF made
    <3> QED
      BY <1>2, <1>3
  <2>3. 1..issued \subseteq 1..issued'
    BY <1>2, <1>3
  <2>4. open' \subseteq open \cup made
    BY <1>1
  <2>5. open' \subseteq 1..issued'
    <3> HIDE DEF made
    <3> QED
      BY <1>2, <2>2, <2>3, <2>4
  <2>6. boot' \in BOOLEAN
    BY <1>1, <1>2
  <2> QED
    BY <2>1, <2>5, <2>6
<1>5. /\ g \in AnswerShapes(issued') /\ (g.admin => c.kind = "status")
      /\ (c.kind \in {"complete", "login"} => g.tok # 0)
  <2> DEFINE k == IF made = {} THEN 0 ELSE issued + 1
             a == (c.kind = "status" /\ c.tok \in open)
             b == ~boot
             h == [NoAnswer EXCEPT !.setup = b, !.admin = a, !.tok = k]
  <2>1. k \in 0..issued' /\ (c.kind \in {"complete", "login"} => k # 0)
    BY <1>2, <1>3
  <2>2. a \in BOOLEAN /\ b \in BOOLEAN /\ (a => c.kind = "status")
    BY <1>2
  <2> HIDE DEF k, a, b, made
  <2>3. NoRows \in RowsShapes
    BY DEF NoRows, RowsShapes, RowShapes, Nothing, Cells, Marks
  <2>4. NoAnswer \in AnswerShapes(issued')
    BY <1>3, <2>3 DEF NoAnswer, AnswerShapes
  <2>5. h \in AnswerShapes(issued') /\ h.admin = a /\ h.tok = k
    <3> DEFINE n == issued'
    <3>1. k \in 0..n /\ NoAnswer \in AnswerShapes(n)
      BY <2>1, <2>4
    <3> HIDE DEF n
    <3>2. h \in AnswerShapes(n) /\ h.admin = a /\ h.tok = k
      BY <2>2, <3>1 DEF AnswerShapes
    <3> QED
      BY <3>2 DEF n
  <2>7. g = h
    BY DEF g, k, a, b, made
  <2> HIDE DEF h
  <2> QED
    BY <2>1, <2>2, <2>5, <2>7
<1> HIDE DEF made
<1>6. c \in CallShapes(issued', journey.tabs)
  BY <1>2, <1>3, Widened
<1>7. /\ d \in CallShapes(issued', journey.tabs)
      /\ d.tab = c.tab /\ d.kind = c.kind /\ d.view = c.view /\ d.arg = c.arg
      /\ d.live = c.live /\ d.at = "ok" /\ d.got = g
  <2> DEFINE n == issued'
             T == journey.tabs
  <2>1. c \in CallShapes(n, T) /\ g \in AnswerShapes(n)
    BY <1>5, <1>6
  <2> HIDE DEF n, T
  <2> USE DEF d
  <2>2. /\ d \in CallShapes(n, T)
        /\ d.tab = c.tab /\ d.kind = c.kind /\ d.view = c.view /\ d.arg = c.arg
        /\ d.live = c.live /\ d.at = "ok" /\ d.got = g
    BY <2>1 DEF CallShapes
  <2> QED
    BY <2>2 DEF n, T
<1>8. c.kind \notin Reads \cup Ops /\ c.kind \notin {"save", "letters", "publish", "unpublish"} \cup Filling
  BY <1>1 DEF AuthCalls, Reads, Ops, Confirmed, Reloading, Filling
<1>9. CallTrue(d)
  BY <1>1, <1>2, <1>5, <1>7, <1>8 DEF CallTrue
<1>10. Fresh(d, data)
  BY <1>7, <1>8 DEF Fresh
<1>11. faults' \in 0..journey.faults
  BY <1>1 DEF AInv, Shapes
<1> QED
  BY <1>1, <1>3, <1>4, <1>7, <1>9, <1>10, <1>11, AnswerStep

LEMMA EndSessionStep ==
  ASSUME AInv, NEW k \in open, EndSession(k)
  PROVE  AInv'
<1>1. /\ Fault /\ open' = open \ {k}
      /\ UNCHANGED <<key, tabs, reloads, journey, lapsed, boot, issued, data, wire, behind, wanted, undone>>
  BY DEF EndSession, ByServer
<1>2. faults' \in 0..journey.faults
  BY <1>1, FaultShape
<1>3. Shapes'
  BY <1>1, <1>2 DEF AInv, Shapes
<1>4. CallsInv' /\ TabsInv' /\ RowsInv'
  BY <1>1 DEF AInv, CallsInv, TabsInv, RowsInv
<1>5. ConsoleHasSession' /\ QuotaIsWanted'
  BY <1>1 DEF AInv, ConsoleHasSession, QuotaIsWanted
<1> QED
  BY <1>3, <1>4, <1>5 DEF AInv

\* What a write of view v makes of another call
Marked(c, v) ==
  IF c.view = v /\ <<c.kind, c.at>> \in ((Reads \cup Filling) \X {"ok"}) \cup (Ops \X {"sent"})
  THEN [c EXCEPT !.stale = TRUE] ELSE c

LEMMA MarkedTrue ==
  ASSUME NEW n, NEW T, NEW c \in CallShapes(n, T), CallTrue(c), NEW d, Fresh(c, d), NEW e, NEW v,
         \A u \in Views \ {v} : e[u] = d[u]
  PROVE  LET m == Marked(c, v)
         IN /\ m \in CallShapes(n, T) /\ CallTrue(m) /\ Fresh(m, e)
            /\ m.tab = c.tab /\ m.kind = c.kind /\ m.view = c.view
            /\ m.arg = c.arg /\ m.live = c.live /\ m.at = c.at
<1> DEFINE b == (c.kind \in Reads \cup Filling /\ c.at = "ok") \/ (c.kind \in Ops /\ c.at = "sent")
           p == [c EXCEPT !.stale = TRUE]
           m == Marked(c, v)
<1>1. <<c.kind, c.at>> \in ((Reads \cup Filling) \X {"ok"}) \cup (Ops \X {"sent"}) <=> b
  <2> DEFINE k == c.kind
             a == c.at
  <2> HIDE DEF k, a
  <2>1. <<k, a>> \in ((Reads \cup Filling) \X {"ok"}) \cup (Ops \X {"sent"})
          <=> (k \in Reads \cup Filling /\ a = "ok") \/ (k \in Ops /\ a = "sent")
    OBVIOUS
  <2> QED
    BY <2>1 DEF k, a
<1>2. m = IF c.view = v /\ b THEN p ELSE c
  BY <1>1 DEF Marked
<1>3. /\ p \in CallShapes(n, T) /\ p.stale
      /\ p.tab = c.tab /\ p.kind = c.kind /\ p.view = c.view /\ p.arg = c.arg /\ p.row = c.row
      /\ p.meant = c.meant /\ p.live = c.live /\ p.at = c.at /\ p.got = c.got
  BY DEF CallShapes
<1> HIDE DEF p, m
<1>4. CallTrue(p)
  BY <1>3 DEF CallTrue
<1>5. Fresh(p, e)
  BY <1>3 DEF Fresh
<1>6. ~(c.view = v /\ b) => Fresh(c, e)
  <2> SUFFICES ASSUME ~(c.view = v /\ b) PROVE Fresh(c, e)
    OBVIOUS
  <2>1. c.kind \in Reads \cup Filling /\ c.at = "ok" => c.view # v
    OBVIOUS
  <2>2. c.kind \in {"publish", "unpublish"} => c.kind \in Ops
    BY DEF Ops, Reloading
  <2>3. c.kind \in {"publish", "unpublish"} => c.view = "plans"
    BY <2>2 DEF CallTrue, OpsOf
  <2>4. c.kind \in {"publish", "unpublish"} /\ c.at = "sent" => c.view # v
    BY <2>2
  <2>5. c.view \in Views
    BY DEF CallShapes
  <2>6. c.view # v => e[c.view] = d[c.view]
    BY <2>5
  <2> QED
    BY <2>1, <2>3, <2>4, <2>6 DEF Fresh
<1> QED
  BY <1>2, <1>3, <1>4, <1>5, <1>6 DEF m

LEMMA OutdatedIs ==
  ASSUME NEW w, NEW v
  PROVE  Outdated(w, v) = {Marked(c, v) : c \in w}
  BY DEF Outdated, Marked

LEMMA WrittenShape ==
  ASSUME NEW d \in [Views -> RowsShapes], NEW v \in Views, NEW x \in Cells, NEW r \in RowShapes
  PROVE  LET e == [d EXCEPT ![v][x] = r]
         IN /\ e \in [Views -> RowsShapes] /\ e[v][x] = r
            /\ \A y \in Cells \ {x} : e[v][y] = d[v][y]
            /\ \A u \in Views \ {v} : e[u] = d[u]
<1> DEFINE q == [d[v] EXCEPT ![x] = r]
<1>1. d[v] \in RowsShapes
  OBVIOUS
<1>2. q \in RowsShapes /\ q[x] = r /\ \A y \in Cells \ {x} : q[y] = d[v][y]
  BY <1>1 DEF RowsShapes
<1>3. [d EXCEPT ![v][x] = r] = [d EXCEPT ![v] = q]
  OBVIOUS
<1> HIDE DEF q
<1> QED
  BY <1>2, <1>3

LEMMA PayOrderStep ==
  ASSUME AInv, NEW x \in journey.rows, PayOrder(x)
  PROVE  AInv'
<1> DEFINE v == "orders"
           old == data[v][x]
           r == [old EXCEPT !.is = "paid"]
           F == [c \in wire |-> Marked(c, v)]
<1>1. /\ Fault /\ data' = [data EXCEPT ![v][x] = r]
      /\ wire' = Outdated(wire, v) /\ behind' = behind \cup Watching(v, {})
      /\ UNCHANGED <<key, tabs, reloads, journey, lapsed, boot, issued, open, wanted, undone>>
  BY DEF PayOrder, ByServer
<1>2. /\ x \in Cells /\ v \in Views /\ data \in [Views -> RowsShapes] /\ behind \subseteq Tabs
      /\ issued \in Nat /\ \A t \in journey.tabs : t \in Tabs
  BY WireFacts DEF Cells, Views, Lists
<1>3. old \in RowShapes
  BY <1>2 DEF RowsShapes
<1>4. r \in RowShapes
  <2> HIDE DEF old
  <2> QED
    BY <1>3 DEF RowShapes, Marks
<1> HIDE DEF r, v
<1>5. data' \in [Views -> RowsShapes] /\ \A u \in Views \ {v} : data'[u] = data[u]
  BY <1>1, <1>2, <1>4, WrittenShape
<1>6. ASSUME NEW c \in wire
      PROVE  /\ F[c] \in CallShapes(issued', journey.tabs) /\ CallTrue(F[c]) /\ Fresh(F[c], data')
             /\ F[c].tab = c.tab /\ F[c].kind = c.kind /\ F[c].view = c.view
             /\ F[c].arg = c.arg /\ F[c].live = c.live
             /\ c.kind \in Ops /\ c.at = "ok" => F[c].at = "ok"
  <2> DEFINE n == issued
             T == journey.tabs
             e == data'
             d == data
  <2>1. c \in CallShapes(n, T) /\ CallTrue(c) /\ Fresh(c, d) /\ \A u \in Views \ {v} : e[u] = d[u]
    BY <1>5, WireFacts
  <2>2. F[c] = Marked(c, v) /\ issued' = n
    BY <1>1
  <2> HIDE DEF n, T, e, d, F
  <2>3. LET m == Marked(c, v)
        IN /\ m \in CallShapes(n, T) /\ CallTrue(m) /\ Fresh(m, e)
           /\ m.tab = c.tab /\ m.kind = c.kind /\ m.view = c.view
           /\ m.arg = c.arg /\ m.live = c.live /\ m.at = c.at
    BY <2>1, MarkedTrue
  <2> QED
    BY <2>2, <2>3 DEF T, e
<1>7. wire' = {F[c] : c \in wire}
  BY <1>1, OutdatedIs
<1> HIDE DEF F
<1>8. ASSUME NEW t \in journey.tabs \ behind', tabs[t].admin
      PROVE  t \notin behind /\ data'[tabs[t].view] = data[tabs[t].view]
  <2>1. t \notin behind /\ tabs[t].view # v
    BY <1>1, <1>8 DEF Watching
  <2>2. tabs[t].view \in Views
    BY WireFacts DEF TabShapes
  <2> QED
    BY <1>5, <2>1, <2>2
<1>9. behind' \subseteq Tabs
  BY <1>1, <1>2 DEF Watching
<1>10. QuotaIsWanted'
  <2>1. data'["plans"] = data["plans"]
    BY <1>5 DEF v, Views, Lists
  <2> QED
    BY <1>1, <2>1 DEF AInv, QuotaIsWanted
<1>11. faults' \in 0..journey.faults
  BY <1>1, FaultShape
<1>12. /\ boot' \in BOOLEAN /\ issued' \in 0..journey.sessions /\ issued <= issued' /\ open' \subseteq 1..issued'
       /\ wanted' \in [Rows -> Nat] /\ undone' \subseteq Rows
  BY <1>1, <1>2 DEF AInv, Shapes
<1>13. \A t \in journey.tabs \ behind' : tabs[t].admin =>
           /\ t \notin behind
           /\ \/ data'[tabs[t].view] = data[tabs[t].view]
              \/ \E c \in Mine(wire, t) : c.kind \in Ops /\ F[c].at = "ok"
  BY <1>8
<1>14. UNCHANGED <<key, tabs, reloads, journey, lapsed>> /\ data' \in [Views -> RowsShapes]
  BY <1>1, <1>5
<1> QED
  BY <1>6, <1>7, <1>9, <1>10, <1>11, <1>12, <1>13, <1>14, ServerStep

LEMMA BecomesShape ==
  ASSUME NEW n, NEW T, NEW c \in CallShapes(n, T), NEW r \in RowShapes
  PROVE  Becomes(c, r) \in RowShapes
<1>1. c.row \in RowShapes /\ Nothing \in RowShapes
  BY NothingShape DEF CallShapes
<1>2. [r EXCEPT !.has = 0] \in RowShapes
  BY DEF RowShapes
<1>3. \A a \in Marks : [r EXCEPT !.is = a] \in RowShapes
  BY DEF RowShapes
<1>4. {"banned", "active", "frozen", "deleted", "paid", "cancelled", "refunded"} \subseteq Marks
  BY DEF Marks
<1> QED
  BY <1>1, <1>2, <1>3, <1>4 DEF Becomes

\* What the operations of the plans' view do to the quotas
LEMMA QuotaStep ==
  ASSUME AInv, NEW c \in wire, c.kind \in Ops, c.at = "sent",
         NEW r, r = Becomes(c, data[c.view][c.arg]), data' = [data EXCEPT ![c.view][c.arg] = r],
         wanted' = IF c.kind = "save" THEN [wanted EXCEPT ![c.arg] = c.meant] ELSE wanted,
         undone' = CASE c.kind = "save" -> undone \ {c.arg}
                     [] c.kind \in {"publish", "unpublish"} /\ (c.hasty \/ c.stale) -> undone \cup {c.arg}
                     [] OTHER -> undone,
         UNCHANGED journey
  PROVE  wanted' \in [Rows -> Nat] /\ undone' \subseteq Rows /\ QuotaIsWanted'
<1> DEFINE v == c.view
           x == c.arg
<1>1. /\ data \in [Views -> RowsShapes] /\ journey.rows \subseteq Rows
      /\ wanted \in [Rows -> Nat] /\ undone \subseteq Rows /\ QuotaIsWanted
  BY WireFacts DEF AInv, Shapes
<1>2. /\ v \in Views /\ x \in Cells /\ c.row \in RowShapes /\ c.meant \in Nat /\ CallTrue(c) /\ Fresh(c, data)
  BY WireFacts DEF CallShapes
<1>3. r \in RowShapes
  <2>1. data[v][x] \in RowShapes
    BY <1>1, <1>2 DEF RowsShapes
  <2> QED
    BY <2>1, WireFacts, BecomesShape
<1>4. /\ data'[v][x] = r
      /\ \A y \in Cells \ {x} : data'[v][y] = data[v][y]
      /\ \A u \in Views \ {v} : data'[u] = data[u]
  <2> HIDE DEF v, x
  <2>1. data' = [data EXCEPT ![v][x] = r]
    BY DEF v, x
  <2> QED
    BY <1>1, <1>2, <1>3, <2>1, WrittenShape
<1>5. c.kind \in OpsOf(v) /\ (v = "plans" => x \in Rows) /\ (c.kind = "save" => Whole(c.meant, c.row))
  BY <1>2 DEF CallTrue
<1>6. "plans" \in Views /\ \A y \in Rows : y \in Cells
  BY DEF Views, Lists, Cells
<1>7. CASE v # "plans"
  <2>1. c.kind \notin {"save", "publish", "unpublish"}
    BY <1>5, <1>7 DEF OpsOf
  <2>2. wanted' = wanted /\ undone' = undone
    BY <2>1
  <2>3. data'["plans"] = data["plans"]
    BY <1>4, <1>6, <1>7
  <2> QED
    BY <1>1, <2>2, <2>3 DEF QuotaIsWanted
<1>8. CASE c.kind = "save"
  <2>1. v = "plans"
    BY <1>5, <1>8 DEF OpsOf
  <2>2. wanted' = [wanted EXCEPT ![x] = c.meant] /\ undone' = undone \ {x} /\ r = c.row
    BY <1>8 DEF Becomes
  <2>3. x \in Rows
    BY <1>5, <2>1
  <2> HIDE DEF x
  <2>4. wanted' \in [Rows -> Nat] /\ wanted'[x] = c.meant /\ \A y \in Rows \ {x} : wanted'[y] = wanted[y]
    BY <1>1, <1>2, <2>2, <2>3
  <2>5. ASSUME NEW y \in journey.rows \ undone', wanted'[y] % 4 = 0
        PROVE  data'["plans"][y].has = wanted'[y]
    <3>1. CASE y = x
      BY <1>4, <1>5, <1>8, <2>1, <2>2, <2>4, <2>5, <3>1 DEF Whole
    <3>2. CASE y # x
      <4>1. y \in Rows /\ y \in Cells /\ y \notin undone
        BY <1>1, <1>6, <2>2, <2>5, <3>2
      <4>2. wanted'[y] = wanted[y] /\ data'["plans"][y] = data["plans"][y]
        BY <1>4, <2>1, <2>4, <3>2, <4>1
      <4> QED
        BY <1>1, <2>5, <4>1, <4>2 DEF QuotaIsWanted
    <3> QED
      BY <3>1, <3>2
  <2> QED
    BY <1>1, <2>2, <2>4, <2>5 DEF QuotaIsWanted
<1>9. CASE v = "plans" /\ c.kind # "save"
  <2>1. c.kind \in {"publish", "unpublish"}
    BY <1>5, <1>9 DEF OpsOf
  <2>2. wanted' = wanted /\ r = c.row /\ undone' = (IF c.hasty \/ c.stale THEN undone \cup {x} ELSE undone)
    BY <1>9, <2>1 DEF Becomes
  <2>3. x \in Rows
    BY <1>5, <1>9
  <2>4. ~c.hasty /\ ~c.stale => r.has = data["plans"][x].has
    BY <1>2, <2>1, <2>2 DEF Fresh
  <2>5. undone' \subseteq Rows /\ undone \subseteq undone' /\ (x \notin undone' => ~c.hasty /\ ~c.stale)
    BY <1>1, <2>2, <2>3
  <2> HIDE DEF x
  <2>6. ASSUME NEW y \in journey.rows \ undone', wanted'[y] % 4 = 0
        PROVE  data'["plans"][y].has = wanted'[y]
    <3>1. y \in Rows /\ y \in Cells /\ y \notin undone /\ wanted[y] % 4 = 0
      BY <1>1, <1>6, <2>2, <2>5, <2>6
    <3>2. data["plans"][y].has = wanted[y]
      BY <1>1, <2>6, <3>1 DEF QuotaIsWanted
    <3>3. CASE y = x
      BY <1>4, <1>9, <2>2, <2>4, <2>5, <2>6, <3>2, <3>3
    <3>4. CASE y # x
      BY <1>4, <1>9, <2>2, <3>1, <3>2, <3>4
    <3> QED
      BY <3>3, <3>4
  <2> QED
    BY <1>1, <2>2, <2>5, <2>6 DEF QuotaIsWanted
<1> QED
  BY <1>7, <1>8, <1>9

LEMMA ServeOpStep ==
  ASSUME AInv, NEW c \in wire, ServeOp(c)
  PROVE  AInv'
<1> DEFINE v == c.view
           r == Becomes(c, data[v][c.arg])
           x == data'[v]
           p == [c EXCEPT !.at = "ok", !.stale = FALSE, !.got.rows = x]
           q == [c EXCEPT !.at = "failed", !.stale = FALSE]
           heard == IF c.live THEN {c.tab} ELSE {}
<1>1. /\ c.at = "sent" /\ c.kind \in Ops
      /\ data' = [data EXCEPT ![v][c.arg] = r]
      /\ wanted' = (IF c.kind = "save" THEN [wanted EXCEPT ![c.arg] = c.meant] ELSE wanted)
      /\ undone' = CASE c.kind = "save" -> undone \ {c.arg}
                     [] c.kind \in {"publish", "unpublish"} /\ (c.hasty \/ c.stale) -> undone \cup {c.arg}
                     [] OTHER -> undone
      /\ UNCHANGED <<key, tabs, reloads, journey, lapsed, boot, issued, open>>
  BY DEF ServeOp, ByServer
<1>2. \/ /\ wire' = Outdated(wire \ {c}, v) \cup {p}
         /\ behind' = behind \cup Watching(v, heard) /\ UNCHANGED faults
      \/ /\ wire' = Outdated(wire \ {c}, v) \cup {q}
         /\ behind' = behind \cup Watching(v, {}) /\ Fault
  BY DEF ServeOp
<1>3. wanted' \in [Rows -> Nat] /\ undone' \subseteq Rows /\ QuotaIsWanted'
  <2> HIDE DEF r
  <2>1. r = Becomes(c, data[c.view][c.arg]) /\ data' = [data EXCEPT ![c.view][c.arg] = r] /\ UNCHANGED journey
    BY <1>1 DEF r
  <2> QED
    BY <1>1, <2>1, QuotaStep
<1>4. /\ data \in [Views -> RowsShapes] /\ behind \subseteq Tabs /\ issued \in Nat
      /\ \A t \in journey.tabs : t \in Tabs
      /\ c \in CallShapes(issued, journey.tabs) /\ CallTrue(c) /\ v \in Views /\ c.arg \in Cells
  BY WireFacts DEF CallShapes
<1>5. data' \in [Views -> RowsShapes] /\ \A u \in Views \ {v} : data'[u] = data[u]
  <2> DEFINE a == c.arg
  <2>1. data[v][a] \in RowShapes
    BY <1>4 DEF RowsShapes
  <2>2. r \in RowShapes
    BY <1>4, <2>1, BecomesShape
  <2>3. data' = [data EXCEPT ![v][a] = r] /\ a \in Cells /\ v \in Views
    BY <1>1, <1>4
  <2> HIDE DEF r, v, a
  <2> QED
    BY <1>4, <2>2, <2>3, WrittenShape
<1>6. x \in RowsShapes
  BY <1>4, <1>5
<1>7. /\ p \in CallShapes(issued, journey.tabs)
      /\ p.tab = c.tab /\ p.kind = c.kind /\ p.view = c.view /\ p.arg = c.arg /\ p.row = c.row
      /\ p.meant = c.meant /\ p.live = c.live /\ p.at = "ok" /\ p.got.rows = x /\ p.got.admin = c.got.admin
      /\ q \in CallShapes(issued, journey.tabs)
      /\ q.tab = c.tab /\ q.kind = c.kind /\ q.view = c.view /\ q.arg = c.arg /\ q.row = c.row
      /\ q.meant = c.meant /\ q.live = c.live /\ q.at = "failed" /\ q.got.admin = c.got.admin
  <2> DEFINE n == issued
             T == journey.tabs
  <2>1. c \in CallShapes(n, T)
    BY <1>4
  <2> HIDE DEF n, T, x
  <2>2. /\ p \in CallShapes(n, T)
        /\ p.tab = c.tab /\ p.kind = c.kind /\ p.view = c.view /\ p.arg = c.arg /\ p.row = c.row
        /\ p.meant = c.meant /\ p.live = c.live /\ p.at = "ok" /\ p.got.rows = x /\ p.got.admin = c.got.admin
    BY <1>6, <2>1 DEF CallShapes, AnswerShapes
  <2>3. /\ q \in CallShapes(n, T)
        /\ q.tab = c.tab /\ q.kind = c.kind /\ q.view = c.view /\ q.arg = c.arg /\ q.row = c.row
        /\ q.meant = c.meant /\ q.live = c.live /\ q.at = "failed" /\ q.got = c.got
    BY <2>1 DEF CallShapes
  <2> QED
    BY <2>2, <2>3 DEF n, T
<1> HIDE DEF p, q
<1>8. c.kind \notin {"status", "logout"} \cup AuthCalls \cup Reads
  BY <1>1, OpsAreKinds
<1>9. CallTrue(p) /\ CallTrue(q)
  <2>1. ~c.got.admin
    BY <1>1, <1>4 DEF CallTrue
  <2>2. c.kind \notin {"complete", "login", "letters"}
    BY <1>8 DEF AuthCalls, Reads
  <2>3. CallTrue(p)
    BY <1>4, <1>7, <1>8, <2>1, <2>2 DEF CallTrue
  <2>4. CallTrue(q)
    BY <1>4, <1>7, <1>8, <2>1, <2>2 DEF CallTrue
  <2> QED
    BY <2>3, <2>4
<1>10. Fresh(p, data') /\ Fresh(q, data')
  <2>1. p.got.rows = data'[p.view]
    BY <1>7
  <2>2. p.at # "sent" /\ q.at \notin {"sent", "ok"}
    BY <1>7
  <2> QED
    BY <2>1, <2>2 DEF Fresh
<1>11. faults' \in 0..journey.faults
  BY <1>1, <1>2, FaultShape
<1>12. /\ boot' \in BOOLEAN /\ issued' \in 0..journey.sessions /\ issued <= issued' /\ open' \subseteq 1..issued'
  BY <1>1, <1>4 DEF AInv, Shapes
<1>13. UNCHANGED <<key, tabs, reloads, journey, lapsed, issued>>
  BY <1>1
<1> HIDE DEF v, x, heard, r
<1>14. ASSUME NEW d, NEW h,
              d \in CallShapes(issued, journey.tabs), CallTrue(d), Fresh(d, data'),
              d.tab = c.tab, d.kind = c.kind, d.view = c.view, d.arg = c.arg, d.live = c.live,
              wire' = Outdated(wire \ {c}, v) \cup {d}, behind' = behind \cup Watching(v, h),
              \A t \in h : c.live /\ t = c.tab /\ d.at = "ok"
       PROVE  AInv'
  <2> DEFINE F == [b \in wire |-> IF b = c THEN d ELSE Marked(b, v)]
  <2>1. ASSUME NEW b \in wire
        PROVE  /\ F[b] \in CallShapes(issued', journey.tabs) /\ CallTrue(F[b]) /\ Fresh(F[b], data')
               /\ F[b].tab = b.tab /\ F[b].kind = b.kind /\ F[b].view = b.view
               /\ F[b].arg = b.arg /\ F[b].live = b.live
               /\ b.kind \in Ops /\ b.at = "ok" => F[b].at = "ok"
    <3>1. CASE b = c
      <4>1. F[b] = d /\ b.at # "ok"
        BY <1>1, <3>1
      <4> HIDE DEF F
      <4> QED
        BY <1>13, <1>14, <3>1, <4>1
    <3>2. CASE b # c
      <4> DEFINE n == issued
                 T == journey.tabs
                 e == data'
                 g == data
      <4>1. b \in CallShapes(n, T) /\ CallTrue(b) /\ Fresh(b, g) /\ \A u \in Views \ {v} : e[u] = g[u]
        BY <1>5, WireFacts
      <4>2. F[b] = Marked(b, v) /\ issued' = n
        BY <1>13, <3>2
      <4> HIDE DEF n, T, e, g, F
      <4>3. LET m == Marked(b, v)
            IN /\ m \in CallShapes(n, T) /\ CallTrue(m) /\ Fresh(m, e)
               /\ m.tab = b.tab /\ m.kind = b.kind /\ m.view = b.view
               /\ m.arg = b.arg /\ m.live = b.live /\ m.at = b.at
        BY <4>1, MarkedTrue
      <4> QED
        BY <4>2, <4>3 DEF T, e
    <3> QED
      BY <3>1, <3>2
  <2>2. wire' = {F[b] : b \in wire}
    <3>1. Outdated(wire \ {c}, v) = {Marked(b, v) : b \in wire \ {c}}
      BY OutdatedIs
    <3> QED
      BY <1>14, <3>1
  <2>3. F[c] = d
    OBVIOUS
  <2> HIDE DEF F
  <2>4. behind' \subseteq Tabs
    BY <1>4, <1>14 DEF Watching
  <2>5. ASSUME NEW t \in journey.tabs \ behind', tabs[t].admin
        PROVE  /\ t \notin behind
               /\ \/ data'[tabs[t].view] = data[tabs[t].view]
                  \/ \E b \in Mine(wire, t) : b.kind \in Ops /\ F[b].at = "ok"
    <3>1. t \notin behind /\ (tabs[t].view = v => t \in h)
      BY <1>14, <2>5 DEF Watching
    <3>2. CASE t \in h
      <4>1. c \in Mine(wire, t) /\ F[c].at = "ok"
        BY <1>8, <1>14, <2>3, <3>2 DEF Mine
      <4> QED
        BY <1>1, <3>1, <4>1
    <3>3. CASE t \notin h
      <4>1. tabs[t].view \in Views
        BY WireFacts DEF TabShapes
      <4>2. data'[tabs[t].view] = data[tabs[t].view]
        BY <1>5, <3>1, <3>3, <4>1
      <4> QED
        BY <3>1, <4>2
    <3> QED
      BY <3>2, <3>3
  <2>6. data' \in [Views -> RowsShapes]
    BY <1>5
  <2> QED
    BY <1>3, <1>11, <1>12, <1>13, <2>1, <2>2, <2>4, <2>5, <2>6, ServerStep
<1>15. CASE wire' = Outdated(wire \ {c}, v) \cup {p} /\ behind' = behind \cup Watching(v, heard)
  <2>1. \A t \in heard : c.live /\ t = c.tab /\ p.at = "ok"
    BY <1>7 DEF heard
  <2> QED
    BY <1>7, <1>9, <1>10, <1>14, <1>15, <2>1
<1>16. CASE wire' = Outdated(wire \ {c}, v) \cup {q} /\ behind' = behind \cup Watching(v, {})
  <2>1. \A t \in {} : c.live /\ t = c.tab /\ q.at = "ok"
    OBVIOUS
  <2> QED
    BY <1>7, <1>9, <1>10, <1>14, <1>16, <2>1
<1> QED
  BY <1>2, <1>15, <1>16

-----------------------------------------------------------------------------
(* The invariant.                                                          *)

LEMMA Initially == Init => AInv
<1> SUFFICES ASSUME Init PROVE AInv
  OBVIOUS
<1> DEFINE T == journey.tabs
           F == [t \in T |-> Ask(t, "status", "dashboard", Config, Nothing)]
<1>1. /\ journey \in Journeys /\ boot = journey.boot /\ issued = 0 /\ open = {} /\ key = 0
      /\ tabs = [t \in Tabs |-> Gate]
      /\ wire = {F[t] : t \in T}
      /\ reloads = 0 /\ faults = 0 /\ behind = {} /\ lapsed = {} /\ wanted = [x \in Rows |-> 4] /\ undone = {}
  BY DEF Init
<1>2. /\ T \subseteq Tabs /\ journey.boot \in BOOLEAN /\ journey.rows \subseteq Rows
      /\ journey.sessions \in Nat /\ journey.reloads \in Nat /\ journey.wire \in Nat /\ journey.faults \in Nat
      /\ Cardinality(T) <= journey.wire /\ IsFiniteSet(T)
  BY <1>1, BoundAssumption, RoomAssumption, TabAssumption, FS_Subset
<1>3. ASSUME NEW t \in T
      PROVE  /\ F[t] \in CallShapes(issued, T) /\ F[t].tab = t /\ F[t].kind = "status" /\ F[t].live
             /\ F[t].at = "sent" /\ ~F[t].got.admin
  <2> DEFINE c == Ask(t, "status", "dashboard", Config, Nothing)
  <2>1. "status" \in Kinds /\ "dashboard" \in Views /\ Config \in Cells /\ Nothing \in RowShapes
    BY NothingShape DEF Kinds, Views, Reports, Cells
  <2>2. issued \in Nat /\ key \in 0..issued
    BY <1>1
  <2>3. c \in CallShapes(issued, T)
    BY <2>1, <2>2, AskShape
  <2>4. c.tab = t /\ c.kind = "status" /\ c.live /\ c.at = "sent" /\ ~c.got.admin
    BY AskFields
  <2>5. F[t] = c
    OBVIOUS
  <2> HIDE DEF F, c
  <2> QED
    BY <2>3, <2>4, <2>5
<1> HIDE DEF F
<1>4. IsFiniteSet(wire) /\ Cardinality(wire) <= journey.wire
  <2>1. IsFiniteSet(wire) /\ Cardinality(wire) <= Cardinality(T)
    BY <1>1, <1>2, ReplacedFinite
  <2>2. Cardinality(wire) \in Nat /\ Cardinality(T) \in Nat
    BY <1>2, <2>1, FS_CardinalityType
  <2> QED
    BY <1>2, <2>1, <2>2
<1>5. data \in [Views -> RowsShapes] /\ \A x \in journey.rows : data["plans"][x].has = 4
  <2> DEFINE R(v, x) ==
               CASE v = "users" /\ x \in journey.rows -> [is |-> "active", has |-> 1]
                 [] v = "images" /\ x \in journey.rows -> [is |-> "active", has |-> 0]
                 [] v = "orders" /\ x \in journey.rows -> [is |-> "pending", has |-> 0]
                 [] v = "plans" /\ x \in journey.rows -> [is |-> "visible", has |-> 4]
                 [] v = "queue" /\ x \in journey.rows -> [is |-> "dead", has |-> 0]
                 [] v \in Forms /\ x = Config -> [is |-> "set", has |-> 1]
                 [] OTHER -> Nothing
  <2>1. data = [v \in Views |-> [x \in Cells |-> R(v, x)]]
    BY DEF Init, Cells
  <2>2. /\ [is |-> "active", has |-> 1] \in RowShapes /\ [is |-> "active", has |-> 0] \in RowShapes
        /\ [is |-> "pending", has |-> 0] \in RowShapes /\ [is |-> "visible", has |-> 4] \in RowShapes
        /\ [is |-> "dead", has |-> 0] \in RowShapes /\ [is |-> "set", has |-> 1] \in RowShapes
        /\ Nothing \in RowShapes
    BY NothingShape DEF RowShapes, Marks
  <2>3. ASSUME NEW v, NEW x PROVE R(v, x) \in RowShapes
    BY <2>2
  <2>4. ASSUME NEW x \in journey.rows PROVE R("plans", x) = [is |-> "visible", has |-> 4]
    BY DEF Forms
  <2>5. "plans" \in Views /\ \A x \in journey.rows : x \in Cells
    BY <1>2 DEF Views, Lists, Cells
  <2> HIDE DEF R
  <2>6. data \in [Views -> RowsShapes]
    BY <2>1, <2>3 DEF RowsShapes
  <2>7. ASSUME NEW x \in journey.rows PROVE data["plans"][x].has = 4
    <3>1. data["plans"][x] = R("plans", x)
      BY <2>1, <2>5
    <3> QED
      BY <2>4, <3>1
  <2> QED
    BY <2>6, <2>7
<1>6. /\ Gate \in TabShapes /\ ~Gate.admin
  BY GateShape
<1>7. Shapes
  <2>1. tabs \in [Tabs -> TabShapes]
    BY <1>1, <1>6
  <2>2. wire \subseteq CallShapes(issued, T)
    BY <1>1, <1>3
  <2>3. wanted \in [Rows -> Nat]
    BY <1>1
  <2> QED
    BY <1>1, <1>2, <1>4, <1>5, <2>1, <2>2, <2>3 DEF Shapes
<1>8. \A t \in T : CallTrue(F[t]) /\ Fresh(F[t], data)
  BY <1>3 DEF CallTrue, Fresh, AuthCalls, Reads, Ops, Confirmed, Reloading, Filling
<1>9. CallsInv
  BY <1>1, <1>8 DEF CallsInv
<1>10. TabsInv
  <2> SUFFICES ASSUME NEW t \in T PROVE TabTrue(tabs[t], Mine(wire, t))
    BY DEF TabsInv
  <2>1. Mine(wire, t) = {F[t]}
    BY <1>1, <1>3 DEF Mine
  <2>2. tabs[t] = Gate /\ Alike(Gate, Gate)
    BY <1>1, <1>2 DEF Alike, SameGate, SameView, SameWork
  <2>3. TabTrue(Gate, {F[t]})
    BY <1>3, <2>2, GateTrue
  <2> QED
    BY <2>1, <2>2, <2>3
<1>11. \A t \in T : ~tabs[t].admin
  BY <1>1, <1>2, <1>6
<1>12. RowsInv /\ ConsoleHasSession
  BY <1>1, <1>8, <1>11 DEF RowsInv, ConsoleHasSession
<1>13. QuotaIsWanted
  BY <1>1, <1>2, <1>5 DEF QuotaIsWanted
<1> QED
  BY <1>7, <1>9, <1>10, <1>12, <1>13 DEF AInv

LEMMA ActStep ==
  ASSUME AInv, NEW t \in Tabs, Act(t)
  PROVE  AInv'
<1>1. CASE HandleStorage(t)
  BY <1>1, HandleStorageStep DEF HandleStorage
<1>2. CASE Reload(t) \/ SubmitCurrentStep(t) \/ Logout(t) \/ Refresh(t) \/ \E v \in Views : Navigate(t, v)
  BY <1>2, ReloadStep, SubmitStep, RefreshStep, NavigateStep
<1>3. CASE Cancel(t) \/ Confirm(t) \/ SavePlan(t)
  BY <1>3, CancelStep, ConfirmStep, SavePlanStep
<1>4. CASE \E x \in journey.rows : \/ SetUserStatus(t, x) \/ ModerateImage(t, x) \/ RequeueDeadLetter(t, x)
                                   \/ OpenExpire(t, x) \/ OpenOrderAction(t, x)
                                   \/ OpenPlanDialog(t, x) \/ NewPlan(t, x) \/ SetPlanPublication(t, x)
  <2>1. PICK x \in journey.rows : \/ SetUserStatus(t, x) \/ ModerateImage(t, x) \/ RequeueDeadLetter(t, x)
                                  \/ OpenExpire(t, x) \/ OpenOrderAction(t, x)
                                  \/ OpenPlanDialog(t, x) \/ NewPlan(t, x) \/ SetPlanPublication(t, x)
    BY <1>4
  <2> QED
    BY <2>1, RowButtonStep, RowDialogStep, PlanDialogStep, PublicationStep
<1>5. CASE \E is \in {"visible", "hidden"}, q \in journey.quotas : EditPlan(t, is, q)
  BY <1>5, EditPlanStep
<1>6. CASE CreateInvite(t) \/ ExportBackup(t) \/ ValidateBackup(t)
  BY <1>6, ButtonStep
<1>7. CASE OpenGrant(t) \/ OpenPurge(t)
  BY <1>7, DialogStep
<1>8. CASE (\E n \in 1..2 : EditConfig(t, n)) \/ (\E op \in Filling : SaveConfig(t, op))
  BY <1>8, EditConfigStep, SaveConfigStep
<1> QED
  BY <1>1, <1>2, <1>3, <1>4, <1>5, <1>6, <1>7, <1>8 DEF Act

LEMMA CallStep ==
  ASSUME AInv, NEW c \in wire, Serve(c) \/ Answer(c)
  PROVE  AInv'
<1>1. CASE Serve(c)
  BY <1>1, ServeAuthStep, ServeReadStep, ServeOpStep, RefuseStep DEF Serve
<1>2. CASE Answer(c)
  BY <1>2, StatusStep, StartedStep, AuthenticatedStep, EndStep,
     LoadedStep, LoadFailedStep, OpDoneStep, OpFailedStep DEF Answer
<1> QED
  BY <1>1, <1>2

LEMMA StutterStep ==
  ASSUME AInv, UNCHANGED vars
  PROVE  AInv'
<1>1. UNCHANGED <<boot, issued, open, data, key, tabs, wire, reloads, faults, journey,
                  behind, lapsed, wanted, undone>>
  BY DEF vars, server, bounds, history
<1>2. Shapes'
  BY <1>1 DEF AInv, Shapes
<1>3. CallsInv' /\ TabsInv' /\ RowsInv'
  BY <1>1 DEF AInv, CallsInv, TabsInv, RowsInv
<1>4. ConsoleHasSession' /\ QuotaIsWanted'
  BY <1>1 DEF AInv, ConsoleHasSession, QuotaIsWanted
<1> QED
  BY <1>2, <1>3, <1>4 DEF AInv

LEMMA Step == AInv /\ [Next]_vars => AInv'
<1> SUFFICES ASSUME AInv, [Next]_vars PROVE AInv'
  OBVIOUS
<1>1. CASE \E t \in Tabs : Act(t)
  BY <1>1, ActStep
<1>2. CASE \E c \in wire : Serve(c) \/ Answer(c)
  BY <1>2, CallStep
<1>3. CASE \E k \in open : EndSession(k)
  BY <1>3, EndSessionStep
<1>4. CASE \E x \in journey.rows : PayOrder(x)
  BY <1>4, PayOrderStep
<1>5. CASE UNCHANGED vars
  BY <1>5, StutterStep
<1> QED
  BY <1>1, <1>2, <1>3, <1>4, <1>5 DEF Next

LEMMA Invariant == Spec => []AInv
BY Initially, Step, PTL DEF Spec

-----------------------------------------------------------------------------
(* The theorems.                                                           *)

\* What each tab, each call and the server keep is what the code and its
\* answers put there, and there are no more sessions, calls, reloads and
\* faults than the bounds allow.
THEOREM Types == Spec => []TypeOK
<1>1. AInv => TypeOK
  <2> SUFFICES ASSUME AInv PROVE TypeOK
    OBVIOUS
  <2>1. /\ boot \in BOOLEAN /\ issued \in 0..journey.sessions /\ open \subseteq 1..issued
        /\ key \in 0..issued /\ Cardinality(wire) <= journey.wire
        /\ reloads \in 0..journey.reloads /\ faults \in 0..journey.faults
        /\ behind \subseteq Tabs /\ lapsed \subseteq Tabs /\ undone \subseteq Rows
        /\ tabs \in [Tabs -> TabShapes] /\ wire \subseteq CallShapes(issued, journey.tabs)
        /\ journey.tabs \subseteq Tabs
    BY BoundAssumption DEF AInv, Shapes
  <2>2. ASSUME NEW t \in journey.tabs
        PROVE  LET s == tabs[t]
               IN /\ s.admin \in BOOLEAN /\ s.told \in BOOLEAN /\ s.view \in Views
                  /\ s.loading \in BOOLEAN /\ s.needs \in BOOLEAN /\ s.begun \in BOOLEAN
                  /\ s.submitting \in BOOLEAN
                  /\ \A b \in s.busy : b.op \in Ops /\ b.arg \in Rows \cup {Config}
                  /\ s.dialog.op \in Confirmed \cup {""}
                  /\ DOMAIN s.rows = Rows \cup {Config}
    <3> DEFINE s == tabs[t]
    <3>1. s \in TabShapes
      BY <2>1
    <3> HIDE DEF s
    <3>2. s.busy \subseteq BusyShapes /\ s.dialog \in DialogShapes /\ s.rows \in [Cells -> RowShapes]
      BY <3>1 DEF TabShapes, RowsShapes
    <3>3. \A b \in s.busy : b.op \in Ops /\ b.arg \in Cells
      BY <3>2 DEF BusyShapes
    <3>4. s.dialog.op \in Confirmed \cup {""} /\ DOMAIN s.rows = Cells
      BY <3>2 DEF DialogShapes
    <3>5. /\ s.admin \in BOOLEAN /\ s.told \in BOOLEAN /\ s.view \in Views
          /\ s.loading \in BOOLEAN /\ s.needs \in BOOLEAN /\ s.begun \in BOOLEAN
          /\ s.submitting \in BOOLEAN
      BY <3>1 DEF TabShapes
    <3> QED
      BY <3>3, <3>4, <3>5 DEF Cells, s
  <2>3. ASSUME NEW c \in wire
        PROVE  /\ c.kind \in Kinds /\ c.tab \in journey.tabs /\ c.tok \in 0..issued
               /\ c.at \in {"sent", "ok", "failed", "denied"}
    BY <2>1 DEF CallShapes
  <2> QED
    BY <2>1, <2>2, <2>3 DEF TypeOK
<1> QED
  BY <1>1, Invariant, PTL

\* A console is on the screen only while a session is stored: a sign-out, a
\* session that is found ended and a token that is forgotten take every tab
\* back to its gate, once it has handled the storage event, except a tab that
\* a status answer of the ended session lets in after the event.
THEOREM ConsoleSession == Spec => []ConsoleHasSession
<1>1. AInv => ConsoleHasSession
  BY DEF AInv
<1> QED
  BY <1>1, Invariant, PTL

\* The flags of a view are those of its operations in flight, one operation to
\* a flag: whichever of them fail, are answered late or are left with their
\* view, no button stays off for good and none is on while its operation runs.
THEOREM BusyTrue == Spec => []BusyIsInFlight
<1>1. AInv => BusyIsInFlight
  <2> SUFFICES ASSUME AInv, NEW t \in journey.tabs
               PROVE  /\ tabs[t].busy = {[op |-> c.kind, arg |-> c.arg] : c \in Pending(t, Ops)}
                      /\ \A c, d \in Pending(t, Ops) : FlagOf(c.kind) = FlagOf(d.kind) => c = d
    BY DEF BusyIsInFlight
  <2> DEFINE s == tabs[t]
             M == Mine(wire, t)
             P == Pending(t, Ops)
  <2>1. TabTrue(s, M)
    BY DEF AInv, TabsInv
  <2>2. P = {c \in M : c.kind \in Ops}
    BY DEF Pending, Mine, Ops, Confirmed, Reloading, Filling
  <2> HIDE DEF s, M, P
  <2>3. ASSUME NEW c \in P PROVE [op |-> c.kind, arg |-> c.arg] \in s.busy
    BY <2>1, <2>2 DEF TabTrue, CallFits
  <2>4. ASSUME NEW b \in s.busy PROVE \E c \in P : b = [op |-> c.kind, arg |-> c.arg]
    BY <2>1, <2>2 DEF TabTrue
  <2>5. ASSUME NEW c \in P, NEW d \in P, FlagOf(c.kind) = FlagOf(d.kind) PROVE c = d
    BY <2>1, <2>2, <2>5 DEF TabTrue, Clash
  <2>6. s.busy = {[op |-> c.kind, arg |-> c.arg] : c \in P}
    BY <2>3, <2>4
  <2> QED
    BY <2>5, <2>6 DEF s, P
<1> QED
  BY <1>1, Invariant, PTL

\* The dialog of an operation that was confirmed shows it until its answer:
\* Cancel, another dialog and another view have to wait.
THEOREM SubmittedShown == Spec => []SubmittedIsShown
<1>1. AInv => SubmittedIsShown
  <2> SUFFICES ASSUME AInv, NEW t \in journey.tabs, NEW c \in Pending(t, Confirmed)
               PROVE  tabs[t].dialog.op = c.kind /\ tabs[t].dialog.arg = c.arg
    BY DEF SubmittedIsShown
  <2>1. TabTrue(tabs[t], Mine(wire, t))
    BY DEF AInv, TabsInv
  <2>2. c \in Mine(wire, t) /\ c.kind \in Confirmed
    BY DEF Pending, Mine, Confirmed
  <2> QED
    BY <2>1, <2>2 DEF TabTrue, CallFits
<1> QED
  BY <1>1, Invariant, PTL

\* A gate that waits has its status call in flight, its button is off while
\* exactly one of its calls is, and it asks for the code that binds a second
\* factor only where it has found no administrator.
THEOREM GateAnswers == Spec => []GateIsTrue
<1>1. AInv => GateIsTrue
  <2> SUFFICES ASSUME AInv, NEW t \in journey.tabs, ~tabs[t].admin
               PROVE  /\ tabs[t].loading => Pending(t, {"status"}) # {}
                      /\ tabs[t].submitting = (Cardinality(Pending(t, AuthCalls)) = 1)
                      /\ tabs[t].begun => tabs[t].needs
    BY DEF GateIsTrue
  <2> DEFINE s == tabs[t]
             M == Mine(wire, t)
             P == Pending(t, AuthCalls)
  <2>1. TabTrue(s, M)
    BY DEF AInv, TabsInv
  <2>2. s.submitting \in BOOLEAN
    BY BoundAssumption DEF AInv, Shapes, TabShapes
  <2>3. P = {c \in M : c.kind \in AuthCalls}
    BY DEF Pending, Mine, AuthCalls
  <2>4. \A c \in M : c.kind = "status" => c \in Pending(t, {"status"})
    BY DEF Pending, Mine
  <2> HIDE DEF s, M, P
  <2>5. s.loading => Pending(t, {"status"}) # {}
    BY <2>1, <2>4 DEF TabTrue
  <2>6. ASSUME s.submitting PROVE s.submitting = (Cardinality(P) = 1)
    <3>1. PICK c \in P : TRUE
      BY <2>1, <2>3, <2>6 DEF TabTrue
    <3>2. \A d \in P : d = c
      BY <2>1, <2>3 DEF TabTrue, Clash
    <3>3. P = {c}
      BY <3>2
    <3>4. Cardinality(P) = 1
      BY <3>3, FS_Singleton
    <3> QED
      BY <2>2, <2>6, <3>4
  <2>7. ASSUME ~s.submitting PROVE s.submitting = (Cardinality(P) = 1)
    <3>1. P = {}
      BY <2>1, <2>3, <2>7 DEF TabTrue, CallFits
    <3>2. Cardinality(P) = 0
      BY <3>1, FS_EmptySet
    <3> QED
      BY <2>2, <2>7, <3>2
  <2>8. s.begun => s.needs
    BY <2>1 DEF TabTrue
  <2> QED
    BY <2>5, <2>6, <2>7, <2>8 DEF s, P
<1> QED
  BY <1>1, Invariant, PTL

\* Once all its calls are answered a tab that is not behind shows the rows, or
\* has the form filled with the configuration, that the server holds, in
\* whatever order its reads, its operations and their answers crossed.
THEOREM RowsTrue == Spec => []RowsAreServers
<1>1. AInv => RowsAreServers
  <2> SUFFICES ASSUME AInv, NEW t \in journey.tabs, tabs[t].admin, t \notin behind,
                      Pending(t, Reads \cup Ops) = {}
               PROVE  /\ tabs[t].view \in Lists => tabs[t].rows = data[tabs[t].view]
                      /\ tabs[t].view \in Forms /\ ~tabs[t].edited =>
                           tabs[t].form = data[tabs[t].view][Config].has
    BY DEF RowsAreServers
  <2>1. ShowsTrue(tabs[t], Mine(wire, t), data)
    BY DEF AInv, RowsInv
  <2>2. ~Coming(Mine(wire, t))
    BY DEF Pending, Mine, Coming
  <2> QED
    BY <2>1, <2>2 DEF ShowsTrue
<1> QED
  BY <1>1, Invariant, PTL

\* The quota that was last meant for a plan, in whole GBs, is the plan's:
\* through the form that rounds it, publications that send a row back whole
\* and saves that overtake each other, except after a publication from rows
\* that another write had outdated.
THEOREM QuotaKept == Spec => []QuotaIsWanted
<1>1. AInv => QuotaIsWanted
  BY DEF AInv
<1> QED
  BY <1>1, Invariant, PTL
=============================================================================
