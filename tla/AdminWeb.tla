------------------------------ MODULE AdminWeb ------------------------------
(***************************************************************************)
(* The admin web application: tabs of one browser that share the session   *)
(* token in localStorage, each with a gate (AdminAuthGate) or a console     *)
(* (AdminConsole) on the screen, against the API.                           *)
(*                                                                         *)
(* A console shows one view at a time.  A view reads its rows when it is    *)
(* mounted and after an operation of its own; its operations are guarded    *)
(* by flags of the view, some of them wait in a dialog for a confirmation.  *)
(* Every call takes the token that is stored when it is sent, and every     *)
(* answer 401 ends the session that is stored when it arrives.              *)
(*                                                                         *)
(* The server is external: sessions, the first administrator, and the rows  *)
(* of each view, which users and other administrators change as well.       *)
(***************************************************************************)
EXTENDS Naturals, FiniteSets

CONSTANTS
  Tabs,
  Rows,     \* what a list shows: users, plans, images, orders or dead letters
  Free,     \* the plan that cannot be taken off the shelves ("go")
  Config,   \* the only row of a view that shows a configuration
  Quotas,   \* quotas an administrator types, in quarters of a GB
  Journeys  \* bound: what one behaviour does.  A journey has its tabs, the
            \* views it visits, the rows on them and the quotas that are
            \* typed, whether there is an administrator yet, and how many
            \* sessions, reloads of a tab, calls in flight and faults it may
            \* have; a fault is a call that fails though it could be served,
            \* a session that ends on the server or an order that a payment
            \* settles.

ASSUME RowAssumption == Free \in Rows /\ Config \notin Rows
ASSUME QuotaAssumption == Quotas \subseteq Nat
ASSUME TabAssumption == IsFiniteSet(Tabs)

VARIABLES
  boot,      \* the first administrator exists
  issued,    \* sessions made so far, named 1..issued
  open,      \* those that the server still accepts
  data,      \* data[v][x]: row x of view v on the server
  key,       \* ADMIN_SESSION_KEY in localStorage, 0 for none
  tabs,      \* the state of each tab
  wire,      \* calls in flight
  reloads, faults, journey,
  behind,    \* history: tabs whose rows an answer, late or lost, or a write
             \* of somebody else has put out of step
  lapsed,    \* history: tabs let in by an answer that the end of the session overtook
  wanted,    \* history: the quota that was last meant for each plan
  undone     \* history: plans that a publication with outdated rows has written

server == <<boot, issued, open, data>>
bounds == <<reloads, faults, journey>>
history == <<behind, lapsed, wanted, undone>>
vars == <<server, key, tabs, wire, bounds, history>>

Lists == {"users", "plans", "images", "orders", "queue"}
Forms == {"hotlink", "platform"}
\* Views that show what they read and have no operations on it
Reports == {"dashboard", "security", "records", "storage", "cdn", "audit"}
Views == Lists \cup Forms \cup Reports \cup {"settings", "hidden", "invites", "backup"}

ASSUME BoundAssumption ==
  Journeys \subseteq [views : SUBSET Views, rows : SUBSET Rows, quotas : SUBSET Quotas,
                      tabs : SUBSET Tabs, boot : BOOLEAN, sessions : Nat, reloads : Nat, wire : Nat, faults : Nat]
\* Every tab asks for the status as it is opened.
ASSUME RoomAssumption == \A j \in Journeys : Cardinality(j.tabs) <= j.wire

Nothing == [is |-> "", has |-> 0]
NoRows == [x \in Rows \cup {Config} |-> Nothing]
NoDialog == [op |-> "", arg |-> Config, form |-> Nothing, meant |-> 0]

\* Operations: the flag of the view that each one sets
FlagOf(op) ==
  CASE op \in {"ban", "unban"} -> "userActionID"
    [] op = "expire" -> "expiring"
    [] op = "save" -> "savingPlan"
    [] op \in {"publish", "unpublish"} -> "unpublishingSlug"
    [] op \in {"grant", "invite"} -> "submitting"
    [] op \in {"freeze", "delete"} -> "processingID"
    [] op = "export" -> "exporting"
    [] op = "validate" -> "validating"
    [] op \in {"mark-paid", "cancel", "refund"} -> "submittingAction"
    [] op \in {"hotlink", "ifpay"} -> "saving"
    [] op = "purge" -> "purging"
    [] op = "requeue" -> "requeueID"

Confirmed == {"expire", "save", "grant", "mark-paid", "cancel", "refund", "purge"}
\* Operations after which their view reads its rows again
Reloading == {"ban", "unban", "expire", "save", "publish", "unpublish", "freeze", "delete",
              "mark-paid", "cancel", "refund", "requeue"}
Filling == {"hotlink", "ifpay"}
Ops == Confirmed \cup Reloading \cup Filling \cup {"invite", "export", "validate"}
AuthCalls == {"start", "complete", "login"}
Reads == {"load", "letters"}
Kinds == {"status", "logout"} \cup AuthCalls \cup Reads \cup Ops

NoAnswer == [setup |-> FALSE, admin |-> FALSE, tok |-> 0, rows |-> NoRows]

Ask(t, kind, v, arg, row) ==
  [tab |-> t, kind |-> kind, tok |-> key, view |-> v, arg |-> arg, row |-> row,
   meant |-> 0, hasty |-> FALSE, live |-> TRUE, stale |-> FALSE, at |-> "sent", got |-> NoAnswer]

TypeOK ==
  /\ boot \in BOOLEAN /\ issued \in 0..journey.sessions /\ open \subseteq 1..issued
  /\ key \in 0..issued
  /\ \A t \in journey.tabs :
       LET s == tabs[t]
       IN /\ s.admin \in BOOLEAN /\ s.told \in BOOLEAN /\ s.view \in Views
          /\ s.loading \in BOOLEAN /\ s.needs \in BOOLEAN /\ s.begun \in BOOLEAN
          /\ s.submitting \in BOOLEAN
          /\ \A b \in s.busy : b.op \in Ops /\ b.arg \in Rows \cup {Config}
          /\ s.dialog.op \in Confirmed \cup {""}
          /\ DOMAIN s.rows = Rows \cup {Config}
  /\ \A c \in wire :
       /\ c.kind \in Kinds /\ c.tab \in journey.tabs /\ c.tok \in 0..issued
       /\ c.at \in {"sent", "ok", "failed", "denied"}
  /\ Cardinality(wire) <= journey.wire
  /\ reloads \in 0..journey.reloads /\ faults \in 0..journey.faults
  /\ behind \subseteq Tabs /\ lapsed \subseteq Tabs /\ undone \subseteq Rows

-----------------------------------------------------------------------------
(* Tabs.                                                                   *)

\* AdminAuthGate as it is mounted
Gate == [admin |-> FALSE, told |-> FALSE, loading |-> TRUE, needs |-> FALSE, begun |-> FALSE,
         submitting |-> FALSE, view |-> "dashboard", rows |-> NoRows, busy |-> {},
         dialog |-> NoDialog, form |-> 0, edited |-> FALSE]

\* AdminConsole with view v mounted
Console(v) == [Gate EXCEPT !.admin = TRUE, !.loading = FALSE, !.view = v]

\* The effect of a view that is mounted.  HiddenPlanView and BackupView have none.
Reading(t, v) == {c \in {Ask(t, "load", v, Config, Nothing)} : v \notin {"hidden", "backup"}}

\* Calls of tab t no longer matter to what it shows.  The logout is App's.
Left(t, w) == {IF c.tab = t /\ c.kind # "logout" THEN [c EXCEPT !.live = FALSE] ELSE c : c \in w}

\* Tab t turns to s, with its gate or its view mounted anew.
Mount(t, s, w, extra) ==
  /\ tabs' = [tabs EXCEPT ![t] = s]
  /\ wire' = Left(t, w) \cup extra
  /\ Cardinality(wire') <= journey.wire
  /\ behind' = behind \ {t}

\* Tab t stays as it is mounted and turns to s.
Stay(t, s, w) == tabs' = [tabs EXCEPT ![t] = s] /\ wire' = w /\ Cardinality(wire') <= journey.wire

Asking(t, s, c) == Stay(t, s, wire \cup {c})

Init ==
  /\ journey \in Journeys
  /\ boot = journey.boot /\ issued = 0 /\ open = {} /\ key = 0
  /\ data = [v \in Views |-> [x \in Rows \cup {Config} |->
               CASE v = "users" /\ x \in journey.rows -> [is |-> "active", has |-> 1]
                 [] v = "images" /\ x \in journey.rows -> [is |-> "active", has |-> 0]
                 [] v = "orders" /\ x \in journey.rows -> [is |-> "pending", has |-> 0]
                 [] v = "plans" /\ x \in journey.rows -> [is |-> "visible", has |-> 4]
                 [] v = "queue" /\ x \in journey.rows -> [is |-> "dead", has |-> 0]
                 [] v \in Forms /\ x = Config -> [is |-> "set", has |-> 1]
                 [] OTHER -> Nothing]]
  /\ tabs = [t \in Tabs |-> Gate]
  /\ wire = {Ask(t, "status", "dashboard", Config, Nothing) : t \in journey.tabs}
  /\ reloads = 0 /\ faults = 0
  /\ behind = {} /\ lapsed = {} /\ wanted = [x \in Rows |-> 4] /\ undone = {}

\* The stored token changes from key to k: the other tabs hear of a removal.
Told(ts, t, k) ==
  [u \in Tabs |-> IF u # t /\ u \in journey.tabs /\ k = 0 /\ key # 0
                  THEN [ts[u] EXCEPT !.told = TRUE] ELSE ts[u]]

\* clearAdminSession: the session that is stored now ends, whichever call found it out.
ClearAdminSession(t, c) ==
  /\ key' = 0
  /\ IF tabs[t].admin
     THEN /\ tabs' = Told([tabs EXCEPT ![t] = [Gate EXCEPT !.told = tabs[t].told]], t, 0)
          /\ wire' = Left(t, wire \ {c})
                       \cup {[Ask(t, "status", "dashboard", Config, Nothing) EXCEPT !.tok = 0]}
          /\ behind' = behind \ {t} /\ lapsed' = lapsed \ {t}
     ELSE /\ tabs' = Told(tabs, t, 0)
          /\ wire' = wire \ {c}
          /\ UNCHANGED <<behind, lapsed>>
  /\ Cardinality(wire') <= journey.wire
  /\ UNCHANGED <<server, bounds, wanted, undone>>

\* The storage event of another tab's removal
\* Mutant: it is not listened to.
HandleStorageUnheard(t) ==
  /\ t \in journey.tabs /\ tabs[t].told
  /\ Stay(t, [tabs[t] EXCEPT !.told = FALSE], wire)
  /\ UNCHANGED <<server, key, bounds, history>>

HandleStorage(t) ==
  /\ t \in journey.tabs /\ tabs[t].told
  /\ IF tabs[t].admin
     THEN /\ Mount(t, Gate, wire, {Ask(t, "status", "dashboard", Config, Nothing)})
          /\ lapsed' = lapsed \ {t}
     ELSE /\ Stay(t, [tabs[t] EXCEPT !.told = FALSE], wire)
          /\ UNCHANGED <<behind, lapsed>>
  /\ UNCHANGED <<server, key, bounds, wanted, undone>>

\* The tab is loaded again; calls that have not reached the server, and all answers, are lost.
Reload(t) ==
  /\ t \in journey.tabs /\ reloads < journey.reloads /\ reloads' = reloads + 1
  /\ Mount(t, Gate, {c \in wire : c.tab # t}, {Ask(t, "status", "dashboard", Config, Nothing)})
  /\ lapsed' = lapsed \ {t}
  /\ UNCHANGED <<server, key, faults, journey, wanted, undone>>

-----------------------------------------------------------------------------
(* The server (external).                                                  *)

ByServer == UNCHANGED <<key, tabs, reloads, journey, lapsed>>
Fault == faults < journey.faults /\ faults' = faults + 1

\* What an operation makes of a row
Becomes(c, old) ==
  CASE c.kind = "ban" -> [old EXCEPT !.is = "banned"]
    [] c.kind = "unban" -> [old EXCEPT !.is = "active"]
    [] c.kind = "expire" -> [old EXCEPT !.has = 0]
    [] c.kind = "freeze" -> [old EXCEPT !.is = "frozen"]
    [] c.kind = "delete" -> [old EXCEPT !.is = "deleted"]
    [] c.kind = "mark-paid" -> [old EXCEPT !.is = "paid"]
    [] c.kind = "cancel" -> [old EXCEPT !.is = "cancelled"]
    [] c.kind = "refund" -> [old EXCEPT !.is = "refunded"]
    [] c.kind = "requeue" -> Nothing
    [] c.kind \in {"save", "publish", "unpublish"} \cup Filling -> c.row
    [] OTHER -> old

Accepted(c) ==
  LET is == data[c.view][c.arg].is
  IN CASE c.kind \in {"mark-paid", "cancel"} -> is = "pending"
       [] c.kind = "refund" -> is = "paid"
       [] c.kind = "requeue" -> is = "dead"
       [] OTHER -> TRUE

\* A write of view v: answers read before it are stale, and so are the rows
\* that writes in flight were made from.
Outdated(w, v) ==
  {IF c.view = v /\ <<c.kind, c.at>> \in ((Reads \cup Filling) \X {"ok"}) \cup (Ops \X {"sent"})
   THEN [c EXCEPT !.stale = TRUE] ELSE c : c \in w}

\* Tabs that show view v and will not hear of a write, unless they read again
Watching(v, but) == {t \in journey.tabs : tabs[t].admin /\ tabs[t].view = v /\ t \notin but}

Unauthorized(c) == c.kind \in Reads \cup Ops /\ c.tok \notin open

ServeAuth(c) ==
  /\ c.at = "sent" /\ c.kind \in {"status", "logout"} \cup AuthCalls
  /\ CASE c.kind = "complete" -> ~boot
       [] c.kind = "start" -> ~boot
       [] c.kind = "login" -> boot
       [] OTHER -> TRUE
  /\ LET made == IF c.kind \in {"complete", "login"} THEN {issued + 1} ELSE {}
     IN /\ issued' = issued + Cardinality(made)
        /\ issued' <= journey.sessions
        /\ open' = (open \cup made) \ (IF c.kind = "logout" THEN {c.tok} ELSE {})
        /\ boot' = (boot \/ c.kind = "complete")
        /\ wire' = (wire \ {c}) \cup
             {[c EXCEPT !.at = "ok",
                        !.got = [NoAnswer EXCEPT !.setup = ~boot,
                                                 !.admin = c.kind = "status" /\ c.tok \in open,
                                                 !.tok = IF made = {} THEN 0 ELSE issued + 1]]}
  /\ ByServer /\ UNCHANGED <<data, faults, behind, wanted, undone>>

ServeRead(c) ==
  /\ c.at = "sent" /\ c.kind \in Reads /\ ~Unauthorized(c)
  /\ wire' = (wire \ {c}) \cup {[c EXCEPT !.at = "ok", !.got.rows = data[c.view]]}
  /\ ByServer /\ UNCHANGED <<server, faults, behind, wanted, undone>>

\* An operation is done; its answer is on its way, or lost.
ServeOp(c) ==
  /\ c.at = "sent" /\ c.kind \in Ops /\ ~Unauthorized(c) /\ Accepted(c)
  /\ data' = [data EXCEPT ![c.view][c.arg] = Becomes(c, @)]
  /\ wanted' = IF c.kind = "save" THEN [wanted EXCEPT ![c.arg] = c.meant] ELSE wanted
  /\ undone' = CASE c.kind = "save" -> undone \ {c.arg}
                 [] c.kind \in {"publish", "unpublish"} /\ (c.hasty \/ c.stale) -> undone \cup {c.arg}
                 [] OTHER -> undone
  /\ LET rest == Outdated(wire \ {c}, c.view)
         heard == IF c.live THEN {c.tab} ELSE {}
     IN \/ /\ wire' = rest \cup {[c EXCEPT !.at = "ok", !.stale = FALSE,
                                          !.got.rows = data'[c.view]]}
           /\ behind' = behind \cup Watching(c.view, heard)
           /\ UNCHANGED faults
        \/ /\ Fault
           /\ wire' = rest \cup {[c EXCEPT !.at = "failed", !.stale = FALSE]}
           /\ behind' = behind \cup Watching(c.view, {})
  /\ ByServer /\ UNCHANGED <<boot, issued, open>>

\* 401, another refusal, or no answer
Refuse(c) ==
  /\ c.at = "sent"
  /\ \/ /\ Unauthorized(c)
        /\ wire' = (wire \ {c}) \cup {[c EXCEPT !.at = "denied", !.stale = FALSE]}
        /\ UNCHANGED faults
     \/ /\ IF \/ c.kind \in {"start", "complete"} /\ boot
              \/ c.kind = "login" /\ ~boot
              \/ c.kind \in {"complete", "login"} /\ issued = journey.sessions
              \/ c.kind \in Ops /\ ~Accepted(c)
           THEN UNCHANGED faults ELSE Fault
        /\ wire' = (wire \ {c}) \cup {[c EXCEPT !.at = "failed"]}
  /\ ByServer /\ UNCHANGED <<server, behind, wanted, undone>>

\* A session ends on the server, or an order is paid without an administrator.
EndSession(k) ==
  /\ k \in open /\ Fault
  /\ open' = open \ {k}
  /\ ByServer /\ UNCHANGED <<boot, issued, data, wire, behind, wanted, undone>>

PayOrder(x) ==
  /\ "orders" \in journey.views /\ data["orders"][x].is = "pending" /\ Fault
  /\ data' = [data EXCEPT !["orders"][x].is = "paid"]
  /\ wire' = Outdated(wire, "orders")
  /\ behind' = behind \cup Watching("orders", {})
  /\ ByServer /\ UNCHANGED <<boot, issued, open, wanted, undone>>

-----------------------------------------------------------------------------
(* The gate.                                                               *)

AtGate(t) == t \in journey.tabs /\ ~tabs[t].admin

\* submitCurrentStep
SubmitCurrentStep(t) ==
  /\ AtGate(t) /\ ~tabs[t].loading /\ ~tabs[t].submitting
  /\ LET kind == IF ~tabs[t].needs THEN "login" ELSE IF tabs[t].begun THEN "complete" ELSE "start"
     IN Asking(t, [tabs[t] EXCEPT !.submitting = TRUE], Ask(t, kind, "dashboard", Config, Nothing))
  /\ UNCHANGED <<server, key, bounds, history>>

\* The status effect: it lets in, or forgets a token, by what is stored now.
\* The gate that asked is still there, since it shows no form before.
StatusAnswered(c) ==
  /\ c.kind = "status" /\ c.at \in {"ok", "failed"}
  /\ LET t == c.tab
         seen == [tabs[t] EXCEPT !.loading = FALSE,
                                 !.needs = IF c.at = "ok" THEN c.got.setup ELSE @]
     IN IF c.got.admin
        THEN /\ Mount(t, [Console("dashboard") EXCEPT !.told = tabs[t].told], wire \ {c},
                      Reading(t, "dashboard"))
             /\ lapsed' = IF key = 0 THEN lapsed \cup {t} ELSE lapsed
             /\ UNCHANGED key
        ELSE /\ key' = IF c.at = "ok" THEN 0 ELSE key
             /\ tabs' = Told([tabs EXCEPT ![t] = seen], t, key')
             /\ wire' = wire \ {c}
             /\ UNCHANGED <<behind, lapsed>>
  /\ UNCHANGED <<server, bounds, wanted, undone>>

\* startBootstrap
Started(c) ==
  /\ c.kind = "start" /\ c.at = "ok"
  /\ Stay(c.tab, [tabs[c.tab] EXCEPT !.begun = TRUE, !.submitting = FALSE], wire \ {c})
  /\ UNCHANGED <<server, key, bounds, history>>

\* completeBootstrap, login, handleAuthenticated
Authenticated(c) ==
  /\ c.kind \in {"complete", "login"} /\ c.at = "ok"
  /\ key' = c.got.tok
  /\ tabs' = [tabs EXCEPT ![c.tab] = [Console("dashboard") EXCEPT !.told = tabs[c.tab].told]]
  /\ wire' = Left(c.tab, wire \ {c})
               \cup {[r EXCEPT !.tok = key'] : r \in Reading(c.tab, "dashboard")}
  /\ Cardinality(wire') <= journey.wire
  /\ behind' = behind \ {c.tab}
  /\ UNCHANGED <<server, bounds, lapsed, wanted, undone>>

\* Mutant: without the finally, the button stays off.
AuthFailedSubmitting(c) ==
  /\ c.kind \in AuthCalls /\ c.at = "failed"
  /\ Stay(c.tab, tabs[c.tab], wire \ {c})
  /\ UNCHANGED <<server, key, bounds, history>>

AuthFailed(c) ==
  /\ c.kind \in AuthCalls /\ c.at = "failed"
  /\ Stay(c.tab, [tabs[c.tab] EXCEPT !.submitting = FALSE], wire \ {c})
  /\ UNCHANGED <<server, key, bounds, history>>

Logout(t) ==
  /\ t \in journey.tabs /\ tabs[t].admin /\ tabs[t].dialog = NoDialog
  /\ Asking(t, tabs[t], Ask(t, "logout", "dashboard", Config, Nothing))
  /\ UNCHANGED <<server, key, bounds, history>>

\* finally { clearAdminSession(); setAdmin(null); }
LoggedOut(c) == c.kind = "logout" /\ c.at \in {"ok", "failed"} /\ ClearAdminSession(c.tab, c)

\* adminFetch on a 401
Denied(c) == c.at = "denied" /\ ClearAdminSession(c.tab, c)
-----------------------------------------------------------------------------
(* The console: what its views do.                                         *)

On(t, v) == t \in journey.tabs /\ tabs[t].admin /\ tabs[t].view = v

\* No dialog covers the page and none of the flags is set.
Idle(t, v, flags) ==
  On(t, v) /\ tabs[t].dialog = NoDialog /\ \A b \in tabs[t].busy : FlagOf(b.op) \notin flags

Busy(t, op) == \E b \in tabs[t].busy : FlagOf(b.op) = FlagOf(op)

\* The handler of an operation up to its await
Mutate(t, c) ==
  /\ Asking(t, [tabs[t] EXCEPT !.busy = @ \cup {[op |-> c.kind, arg |-> c.arg]}], c)
  /\ UNCHANGED <<server, key, bounds, history>>

\* Local state of the view only
Set(t, s) == Stay(t, s, wire) /\ UNCHANGED <<server, key, bounds, history>>

Shown(t, x) == tabs[t].rows[x]
Op(t, op, x) == Ask(t, op, tabs[t].view, x, Nothing)
OpenDialog(t, op, x) == Set(t, [tabs[t] EXCEPT !.dialog = [NoDialog EXCEPT !.op = op, !.arg = x]])

Navigate(t, v) ==
  /\ t \in journey.tabs /\ tabs[t].admin /\ tabs[t].dialog = NoDialog
  /\ v \in {"dashboard"} \cup journey.views /\ v # tabs[t].view
  /\ Mount(t, [Console(v) EXCEPT !.told = tabs[t].told], wire, Reading(t, v))
  /\ UNCHANGED <<server, key, bounds, lapsed, wanted, undone>>

\* The search and refresh buttons of ImageModView, AuditLogView, OpenPlatformView and QueueStatusView
Refresh(t) ==
  /\ t \in journey.tabs /\ tabs[t].admin /\ tabs[t].view \in {"images", "audit", "platform", "queue"}
  /\ Asking(t, tabs[t], Ask(t, "load", tabs[t].view, Config, Nothing))
  /\ UNCHANGED <<server, key, bounds, history>>

\* Dialog: Cancel, unless its operation is on its way
\* Mutant: Cancel works while the operation is on its way.
CancelAnyTime(t) ==
  /\ t \in journey.tabs /\ tabs[t].dialog # NoDialog
  /\ Set(t, [tabs[t] EXCEPT !.dialog = NoDialog])

Cancel(t) ==
  /\ t \in journey.tabs /\ tabs[t].dialog # NoDialog /\ ~Busy(t, tabs[t].dialog.op)
  /\ Set(t, [tabs[t] EXCEPT !.dialog = NoDialog])

\* Dialog: the confirm button, but for PlanManageView's
Confirm(t) ==
  /\ t \in journey.tabs
  /\ tabs[t].dialog.op \in Confirmed \ {"save"} /\ ~Busy(t, tabs[t].dialog.op)
  /\ Mutate(t, Op(t, tabs[t].dialog.op, tabs[t].dialog.arg))

\* UserManageView
SetUserStatus(t, x) ==
  /\ Idle(t, "users", {"userActionID"}) /\ Shown(t, x) # Nothing
  /\ Mutate(t, Op(t, IF Shown(t, x).is = "active" THEN "ban" ELSE "unban", x))

\* Mutant: the dialog of another operation opens.
OpenBan(t, x) ==
  Idle(t, "users", {"userActionID", "expiring"}) /\ Shown(t, x).has = 1 /\ OpenDialog(t, "ban", x)

OpenExpire(t, x) ==
  /\ Idle(t, "users", {"userActionID", "expiring"}) /\ Shown(t, x).has = 1
  /\ OpenDialog(t, "expire", x)

\* PlanManageView: the form shows whole GBs, and 0 (no limit) for less than half.
\* Mutant: the next whole GB, also of a whole number.
ToNextGBInput(q) == 4 * ((q + 4) \div 4)
ToGBInput(q) == 4 * ((q + 2) \div 4)

OpenPlanDialog(t, x) ==
  /\ Idle(t, "plans", {"savingPlan", "unpublishingSlug"}) /\ Shown(t, x) # Nothing
  /\ Set(t, [tabs[t] EXCEPT !.dialog =
               [op |-> "save", arg |-> x, meant |-> Shown(t, x).has,
                form |-> [Shown(t, x) EXCEPT !.has = ToGBInput(@)]]])

\* A new plan whose slug is one that exists replaces that plan.
NewPlan(t, x) ==
  /\ Idle(t, "plans", {"savingPlan", "unpublishingSlug"})
  /\ Set(t, [tabs[t] EXCEPT !.dialog =
               [op |-> "save", arg |-> x, meant |-> 4, form |-> [is |-> "visible", has |-> 4]]])

EditPlan(t, is, q) ==
  /\ On(t, "plans") /\ tabs[t].dialog.op = "save"
  /\ LET old == tabs[t].dialog.form
     IN \/ is # old.is /\ Set(t, [tabs[t] EXCEPT !.dialog.form.is = is])
        \/ q # old.has /\ Set(t, [tabs[t] EXCEPT !.dialog.form.has = q, !.dialog.meant = q])

\* A quota that is left as the form shows it means the quota of the row.
SavePlan(t) ==
  /\ On(t, "plans") /\ tabs[t].dialog.op = "save" /\ ~Busy(t, "save")
  /\ LET d == tabs[t].dialog
     IN Mutate(t, [Op(t, "save", d.arg) EXCEPT !.row = d.form, !.meant = d.meant])

\* The row goes back to the server as it is shown.
SetPlanPublication(t, x) ==
  /\ Idle(t, "plans", {"unpublishingSlug"}) /\ Shown(t, x) # Nothing
  /\ LET publish == Shown(t, x).is # "visible"
     IN /\ publish \/ x # Free
        /\ Mutate(t, [Op(t, IF publish THEN "publish" ELSE "unpublish", x) EXCEPT
                        !.row = [Shown(t, x) EXCEPT !.is = IF publish THEN "visible" ELSE "hidden"],
                        !.hasty = t \in behind \/ \E c \in wire : c.tab = t /\ c.live /\ c.kind = "load"])

\* HiddenPlanView
OpenGrant(t) == Idle(t, "hidden", {}) /\ OpenDialog(t, "grant", Config)

\* InviteCampaignView
CreateInvite(t) == Idle(t, "invites", {"submitting"}) /\ Mutate(t, Op(t, "invite", Config))

\* ImageModView: both buttons on every row, whatever its status
ModerateImage(t, x) ==
  /\ Idle(t, "images", {"processingID"}) /\ Shown(t, x) # Nothing
  /\ \E op \in {"freeze", "delete"} : Mutate(t, Op(t, op, x))

\* admin BackupView: one flag each
ExportBackup(t) == Idle(t, "backup", {"exporting"}) /\ Mutate(t, Op(t, "export", Config))
ValidateBackup(t) == Idle(t, "backup", {"validating"}) /\ Mutate(t, Op(t, "validate", Config))

\* OrdersView
OpenOrderAction(t, x) ==
  /\ Idle(t, "orders", {})
  /\ \E op \in CASE Shown(t, x).is = "pending" -> {"mark-paid", "cancel"}
                 [] Shown(t, x).is = "paid" -> {"refund"}
                 [] OTHER -> {} : OpenDialog(t, op, x)

\* HotlinkConfigView and OpenPlatformView: a form that the read fills
EditConfig(t, n) ==
  /\ t \in journey.tabs /\ tabs[t].admin /\ tabs[t].view \in Forms /\ n # tabs[t].form
  /\ Set(t, [tabs[t] EXCEPT !.form = n, !.edited = TRUE])

SaveConfig(t, op) ==
  /\ Idle(t, IF op = "hotlink" THEN "hotlink" ELSE "platform", {"saving"})
  /\ Mutate(t, [Op(t, op, Config) EXCEPT !.row = [is |-> "set", has |-> tabs[t].form]])

\* SystemSettingsView
OpenPurge(t) == Idle(t, "settings", {}) /\ OpenDialog(t, "purge", Config)

\* QueueStatusView
RequeueDeadLetter(t, x) ==
  /\ Idle(t, "queue", {"requeueID"}) /\ Shown(t, x).is = "dead"
  /\ Mutate(t, Op(t, "requeue", x))

-----------------------------------------------------------------------------
(* The console: answers.                                                   *)

Fill(s, rows) == [s EXCEPT !.form = rows[Config].has, !.edited = FALSE]

\* loadUsers, loadPlans, ...: the answer that comes last is the one shown.
\* QueueStatusView asks for the dead letters once it has the status.
Loaded(c) ==
  /\ c.kind \in Reads /\ c.at = "ok"
  /\ LET s == tabs[c.tab]
         next == IF c.view \in Forms THEN Fill(s, c.got.rows) ELSE [s EXCEPT !.rows = c.got.rows]
         more == {m \in {[Ask(c.tab, "letters", "queue", Config, Nothing) EXCEPT !.live = c.live]} :
                    c.view = "queue" /\ c.kind = "load"}
         shown == c.live /\ more = {}
     IN /\ Stay(c.tab, IF shown THEN next ELSE s, (wire \ {c}) \cup more)
        /\ behind' = IF ~shown THEN behind
                     ELSE IF c.stale THEN behind \cup {c.tab} ELSE behind \ {c.tab}
  /\ UNCHANGED <<server, key, bounds, lapsed, wanted, undone>>

\* A list is emptied; a form stays as it is.
LoadFailed(c) ==
  /\ c.kind \in Reads /\ c.at = "failed"
  /\ LET s == tabs[c.tab]
     IN Stay(c.tab, IF c.live /\ c.view \notin Forms \cup {"invites"} THEN [s EXCEPT !.rows = NoRows] ELSE s,
             wire \ {c})
  /\ behind' = IF c.live THEN behind \cup {c.tab} ELSE behind
  /\ UNCHANGED <<server, key, bounds, lapsed, wanted, undone>>

\* finally: the flag of the operation goes off.
Off(s, c) == [s EXCEPT !.busy = @ \ {[op |-> c.kind, arg |-> c.arg]}]

\* Mutant: the queue goes on showing a letter that was put back.
ReadAgainButRequeue(c) ==
  {r \in {[Ask(c.tab, "load", c.view, Config, Nothing) EXCEPT !.live = c.live]} :
     c.kind \in Reloading \ {"requeue"}}

\* The operation is followed by a read of the view.
ReadAgain(c) ==
  {r \in {[Ask(c.tab, "load", c.view, Config, Nothing) EXCEPT !.live = c.live]} : c.kind \in Reloading}

OpDone(c) ==
  /\ c.kind \in Ops /\ c.at = "ok"
  /\ LET s == tabs[c.tab]
         off == Off(s, c)
         closed == IF c.kind \in Confirmed THEN [off EXCEPT !.dialog = NoDialog] ELSE off
         next == IF c.kind \in Filling THEN Fill(closed, c.got.rows) ELSE closed
     IN Stay(c.tab, IF c.live THEN next ELSE s, (wire \ {c}) \cup ReadAgain(c))
  /\ behind' = IF c.live /\ c.kind \in Filling
               THEN IF c.stale THEN behind \cup {c.tab} ELSE behind \ {c.tab}
               ELSE behind
  /\ UNCHANGED <<server, key, bounds, lapsed, wanted, undone>>

\* The dialog stays open for another try.
\* Mutant: without the finally, the flag stays on.
OpFailedBusy(c) ==
  /\ c.kind \in Ops /\ c.at = "failed"
  /\ Stay(c.tab, tabs[c.tab], wire \ {c})
  /\ UNCHANGED <<server, key, bounds, history>>

OpFailed(c) ==
  /\ c.kind \in Ops /\ c.at = "failed"
  /\ Stay(c.tab, IF c.live THEN Off(tabs[c.tab], c) ELSE tabs[c.tab], wire \ {c})
  /\ UNCHANGED <<server, key, bounds, history>>

-----------------------------------------------------------------------------
Serve(c) == ServeAuth(c) \/ ServeRead(c) \/ ServeOp(c) \/ Refuse(c)

Answer(c) ==
  \/ StatusAnswered(c) \/ Started(c) \/ Authenticated(c) \/ AuthFailed(c)
  \/ LoggedOut(c) \/ Denied(c)
  \/ Loaded(c) \/ LoadFailed(c) \/ OpDone(c) \/ OpFailed(c)

Act(t) ==
  \/ HandleStorage(t) \/ Reload(t) \/ SubmitCurrentStep(t) \/ Logout(t)
  \/ \E v \in Views : Navigate(t, v)
  \/ Refresh(t) \/ Cancel(t) \/ Confirm(t)
  \/ \E x \in journey.rows : \/ SetUserStatus(t, x) \/ OpenExpire(t, x)
                     \/ OpenPlanDialog(t, x) \/ NewPlan(t, x) \/ SetPlanPublication(t, x)
                     \/ ModerateImage(t, x) \/ OpenOrderAction(t, x) \/ RequeueDeadLetter(t, x)
  \/ \E is \in {"visible", "hidden"}, q \in journey.quotas : EditPlan(t, is, q)
  \/ SavePlan(t) \/ OpenGrant(t) \/ CreateInvite(t) \/ ExportBackup(t) \/ ValidateBackup(t)
  \/ \E n \in 1..2 : EditConfig(t, n)
  \/ \E op \in Filling : SaveConfig(t, op)
  \/ OpenPurge(t)

Next ==
  \/ \E t \in Tabs : Act(t)
  \/ \E c \in wire : Serve(c) \/ Answer(c)
  \/ \E k \in open : EndSession(k)
  \/ \E x \in journey.rows : PayOrder(x)

Spec == Init /\ [][Next]_vars

-----------------------------------------------------------------------------
(* Properties.                                                             *)

\* A console is on the screen only while a session is stored, from the moment
\* the tab has handled the removal by another: whichever tab signs out, finds
\* the session ended or forgets a token, the others follow.  A tab that the
\* status answer of an ended session lets in stays out of it.
ConsoleHasSession ==
  \A t \in journey.tabs : tabs[t].admin /\ ~tabs[t].told /\ t \notin lapsed => key # 0

Pending(t, kinds) == {c \in wire : c.tab = t /\ c.live /\ c.kind \in kinds}

\* A view's flags are those of its operations in flight, at most one to a
\* flag: no button stays off for good, none is on while its operation runs.
BusyIsInFlight ==
  \A t \in journey.tabs :
    /\ tabs[t].busy = {[op |-> c.kind, arg |-> c.arg] : c \in Pending(t, Ops)}
    /\ \A c, d \in Pending(t, Ops) : FlagOf(c.kind) = FlagOf(d.kind) => c = d

\* While an operation that was confirmed is on its way its dialog still shows
\* it: what the administrator reads is what is being done.
SubmittedIsShown ==
  \A t \in journey.tabs : \A c \in Pending(t, Confirmed) :
    tabs[t].dialog.op = c.kind /\ tabs[t].dialog.arg = c.arg

\* The gate waits only for a call in flight, of which it has one at a time
\* and shows it, and it asks for the code of a second factor that is to be
\* bound only where it has found no administrator.
GateIsTrue ==
  \A t \in journey.tabs : ~tabs[t].admin =>
    /\ tabs[t].loading => Pending(t, {"status"}) # {}
    /\ tabs[t].submitting = (Cardinality(Pending(t, AuthCalls)) = 1)
    /\ tabs[t].begun => tabs[t].needs

\* Once all is answered a list shows the server's rows, and a form that is
\* not being edited the server's configuration, if no answer was lost or
\* overtaken and nobody else has written.
RowsAreServers ==
  \A t \in journey.tabs :
    LET s == tabs[t]
    IN s.admin /\ t \notin behind /\ Pending(t, Reads \cup Ops) = {} =>
         /\ s.view \in Lists => s.rows = data[s.view]
         /\ s.view \in Forms /\ ~s.edited => s.form = data[s.view][Config].has

\* A plan keeps the quota that an administrator last meant for it, if that is
\* a number of whole GBs: through forms that round it, rows that are sent back
\* whole to publish it, and anything but a publication from outdated rows.
QuotaIsWanted ==
  \A x \in journey.rows \ undone : wanted[x] % 4 = 0 => data["plans"][x].has = wanted[x]
=============================================================================
