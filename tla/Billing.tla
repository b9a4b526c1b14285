------------------------------- MODULE Billing -------------------------------
(***************************************************************************)
(* Orders, subscriptions and IF-Pay.                                       *)
(*                                                                         *)
(* A checkout creates an order, asks IF-Pay for a payment without holding  *)
(* the lock, and comes back to record the outcome; meanwhile IF-Pay's      *)
(* webhooks, the administrators and the clock move the same order and the  *)
(* same user's subscription.                                               *)
(*                                                                         *)
(* Every locked section of a handler is one action, together with its      *)
(* save and, when the save fails, its rollback: what overlapping rollbacks *)
(* do to each other is the subject of StatePersistence.  A save that       *)
(* merely fails undoes its section, which is then no step at all, except   *)
(* in the two sections that follow a payment request.  The process runs     *)
(* with DATABASE_URL set.                                                  *)
(***************************************************************************)
EXTENDS Naturals, FiniteSets

CONSTANTS
  Users,
  Orders,     \* order ids, one per checkout
  Owner,      \* Owner[o]: the user checking out o
  PlanOf,     \* PlanOf[o]: the plan o buys
  Plans,      \* plan slugs
  EventTypes, \* types of event that IF-Pay emits
  Copies      \* IF-Pay may report an occurrence once in each of these ways

NoPlan == ""

OrderStatuses == {"none", "pending", "paid", "failed", "cancelled", "refunded"}

\* Each under an event id of its own: "named", with the order id in its
\* payload, or "bare", with the payment id alone.
CopyKinds == {"named", "bare"}
Events == Orders \X EventTypes \X Copies

\* Where a subscription came from: an order, or one of these.  The code does
\* not record it; no guard reads it.
Grants == {"register", "admin", "invite"}

ASSUME OrderAssumption ==
  /\ Owner \in [Orders -> Users]
  /\ PlanOf \in [Orders -> Plans]
  /\ Orders \cap Grants = {}
ASSUME PlanAssumption == "go" \in Plans /\ NoPlan \notin Plans
ASSUME EventAssumption ==
  /\ EventTypes \subseteq {"payment.succeeded", "payment.failed", "payment.cancelled", "payment.refunded"}
  /\ Copies \subseteq CopyKinds

VARIABLES
  mem,      \* the billing part of memoryState
  db,       \* the same in PostgreSQL
  pc,       \* pc[o]: the checkout handler of o
  gateway,  \* gateway[o]: IF-Pay's view of the payment of o
  emitted   \* webhook events IF-Pay is delivering, again and again

vars == <<mem, db, pc, gateway, emitted>>

Subscriptions ==
  [plan : Plans, status : {"active", "past_due", "deleted"},
   term : {"running", "retained", "over"}, from : Orders \cup Grants]

States ==
  [status : [Orders -> OrderStatuses],  \* "none": no such order
   pay : SUBSET Orders,                 \* orders with an IFPayPaymentID
   sub : [Users -> Subscriptions],
   plan : [Users -> Plans \cup {NoPlan}],
   seen : SUBSET Events,                \* state.webhooks
   vouched : SUBSET Orders,             \* history: marked paid by an administrator
   granted : [Orders -> Nat],           \* history: subscriptions issued for an order
   overrun : SUBSET Orders]             \* history: closed or paid when their payment
                                        \* request failed

TypeOK ==
  /\ mem \in States
  /\ db \in States
  /\ pc \in [Orders -> {"idle", "paying", "done", "errored", "refused", "dead"}]
  /\ gateway \in [Orders -> {"none", "created", "failed", "cancelled", "succeeded", "refunded"}]
  /\ emitted \in SUBSET Events

\* Mutant: the arguments are swapped.
NewSubscriptionSwapped(p, from) ==
  [plan |-> from, status |-> "active", term |-> "running", from |-> p]

\* domain.NewSubscription
NewSubscription(p, from) ==
  [plan |-> p, status |-> "active", term |-> "running", from |-> from]

\* Every user has registered and has the 30 days of the go plan.
Init ==
  /\ mem = [status |-> [o \in Orders |-> "none"], pay |-> {},
            sub |-> [u \in Users |-> NewSubscription("go", "register")],
            plan |-> [u \in Users |-> "go"],
            seen |-> {}, vouched |-> {}, granted |-> [o \in Orders |-> 0], overrun |-> {}]
  /\ db = mem
  /\ pc = [o \in Orders |-> "idle"]
  /\ gateway = [o \in Orders |-> "none"]
  /\ emitted = {}

-----------------------------------------------------------------------------
(* Saving.                                                                 *)

\* Save writes the empty string for a payment id that is not there yet, and
\* idx_orders_ifpay_payment is unique over everything but NULL.
Saveable(s) ==
  \A o, q \in Orders :
    s.status[o] # "none" /\ s.status[q] # "none" /\ {o, q} \cap s.pay = {} => o = q

\* persistOrRollback: everything or, where the database refuses, nothing
Commit(s) == Saveable(s) /\ mem' = s /\ db' = s

-----------------------------------------------------------------------------
(* The order operations, each under the lock of its caller.                *)

\* The user's subscription, and the plan shown for the user, in one section
SetSubscription(s, u, sub, plan) == [s EXCEPT !.sub[u] = sub, !.plan[u] = plan]

\* The user's subscription becomes a new one.
Subscribe(s, u, p, from) == SetSubscription(s, u, NewSubscription(p, from), p)

SetStatus(s, o, status) == [s EXCEPT !.status[o] = status]

\* Mutant: only a pending order is paid.
CanActivatePending(s, o) == s.status[o] \in {"pending", "paid"}

CanActivate(s, o) == s.status[o] \notin {"none", "cancelled", "refunded"}

\* Mutant: a second success issues a second subscription.
ActivateOrderAgain(s, o) ==
  [Subscribe(s, Owner[o], PlanOf[o], o) EXCEPT !.status[o] = "paid", !.granted[o] = @ + 1]

\* A second success of a paid order issues nothing.  (No code removes a
\* user's subscription from the map, so hasExistingSub holds.)
ActivateOrder(s, o) ==
  IF s.status[o] = "paid" THEN s
  ELSE [Subscribe(s, Owner[o], PlanOf[o], o) EXCEPT
          !.status[o] = "paid", !.granted[o] = @ + 1]

\* Mutants: a late failure fails a paid, or a cancelled, order.
CanFailPaid(s, o) == s.status[o] \notin {"none", "cancelled", "refunded"}
CanFailCancelled(s, o) == s.status[o] \notin {"none", "paid", "refunded"}

CanFail(s, o) == s.status[o] \notin {"none", "paid", "cancelled", "refunded"}
FailOrder(s, o) == SetStatus(s, o, "failed")

CanCancel(s, o) == s.status[o] \notin {"none", "paid", "refunded"}
CancelOrder(s, o) == SetStatus(s, o, "cancelled")

\* EndsAt lies in the past; RetentionEndsAt lies ahead or does not.
Withdrawn(sub, status, term) == [sub EXCEPT !.status = status, !.term = term]

CanRefund(s, o) == s.status[o] = "paid"

\* Mutants: the refund forgets the user's plan, or the subscription's dates.
RefundKeepsPlan(s, o) ==
  LET refunded == SetStatus(s, o, "refunded")
      u        == Owner[o]
  IN IF s.sub[u].plan = PlanOf[o]
     THEN [refunded EXCEPT !.sub[u] = Withdrawn(@, "past_due", "retained")]
     ELSE refunded
RefundKeepsTerm(s, o) ==
  LET refunded == SetStatus(s, o, "refunded")
      current  == s.sub[Owner[o]]
  IN IF current.plan = PlanOf[o]
     THEN SetSubscription(refunded, Owner[o], Withdrawn(current, "past_due", current.term), NoPlan)
     ELSE refunded

\* The current subscription is withdrawn when its plan is the order's.
RefundOrder(s, o) ==
  LET refunded == SetStatus(s, o, "refunded")
      current  == s.sub[Owner[o]]
  IN IF current.plan = PlanOf[o]
     THEN SetSubscription(refunded, Owner[o], Withdrawn(current, "past_due", "retained"), NoPlan)
     ELSE refunded

\* subscription.EffectiveStatus and CanUpload
EffectiveStatus(s, u) ==
  CASE s.sub[u].status = "deleted" \/ s.sub[u].term = "over" -> "deleted"
    [] s.sub[u].status # "deleted" /\ s.sub[u].term = "running" -> "active"
    [] OTHER -> "retained"

CanUpload(s, u) == EffectiveStatus(s, u) = "active"

-----------------------------------------------------------------------------
(* Checkout: createIFPayCheckout up to its call of CreatePayment, and the  *)
(* two ways it goes on.                                                    *)

\* Mutant: the order is not saved before its payment is asked for.
CheckoutStartUnsaved(o) ==
  /\ pc[o] = "idle"
  /\ mem' = SetStatus(mem, o, "pending")
  /\ pc' = [pc EXCEPT ![o] = "paying"]
  /\ UNCHANGED <<db, gateway, emitted>>

CheckoutStart(o) ==
  LET s == SetStatus(mem, o, "pending")
  IN /\ pc[o] = "idle"
     /\ \/ Commit(s) /\ pc' = [pc EXCEPT ![o] = "paying"]
        \/ ~Saveable(s) /\ UNCHANGED <<mem, db>> /\ pc' = [pc EXCEPT ![o] = "refused"]
     /\ UNCHANGED <<gateway, emitted>>

\* CreatePayment returned a payment.  This save is not rolled back when it
\* fails: memory then knows a payment id the database does not.
CheckoutAttach(o) ==
  LET s == [mem EXCEPT !.pay = @ \cup {o}]
  IN /\ pc[o] = "paying"
     /\ gateway[o] # "none"
     /\ mem' = s
     /\ db' = s \/ UNCHANGED db
     /\ pc' = [pc EXCEPT ![o] = "done"]
     /\ UNCHANGED <<gateway, emitted>>

\* CreatePayment returned an error, which says nothing about what IF-Pay did.
\* The order fails whatever it has become: CanFail is not asked.
CheckoutError(o) ==
  LET failed == FailOrder(mem, o)
      s      == IF CanFail(mem, o) THEN failed ELSE [failed EXCEPT !.overrun = @ \cup {o}]
  IN /\ pc[o] = "paying"
     /\ Commit(s) \/ UNCHANGED <<mem, db>>
     /\ pc' = [pc EXCEPT ![o] = "errored"]
     /\ UNCHANGED <<gateway, emitted>>

-----------------------------------------------------------------------------
(* IF-Pay, as the code uses it.                                            *)

\* The payment request arrives, possibly after the client has given up.
GatewayCreates(o) ==
  /\ pc[o] \in {"paying", "errored", "dead"}
  /\ gateway[o] = "none"
  /\ gateway' = [gateway EXCEPT ![o] = "created"]
  /\ UNCHANGED <<mem, db, pc, emitted>>

Occurs(o, from, to, type) ==
  /\ type \in EventTypes
  /\ gateway[o] \in from
  /\ gateway' = [gateway EXCEPT ![o] = to]
  /\ emitted' = emitted \cup ({o} \X {type} \X Copies)
  /\ UNCHANGED <<mem, db, pc>>

\* A failed attempt may be followed by a successful one.
GatewaySettles(o) ==
  \/ Occurs(o, {"created", "failed"}, "succeeded", "payment.succeeded")
  \/ Occurs(o, {"created"}, "failed", "payment.failed")
  \/ Occurs(o, {"created"}, "cancelled", "payment.cancelled")
  \/ Occurs(o, {"succeeded"}, "refunded", "payment.refunded")

\* Mutant: orders are found by their payment id alone.
MatchedByPayment(s, e) == s.status[e[1]] # "none" /\ e[1] \in s.pay

\* findWebhookOrderLocked: by the order id in the payload, else by payment id
Matched(s, e) == s.status[e[1]] # "none" /\ (e[3] = "named" \/ e[1] \in s.pay)

\* Mutant: an event that nothing else handles counts as a payment.
HandledByDefault(s, o, type) ==
  CASE type = "payment.failed" /\ CanFail(s, o) -> FailOrder(s, o)
    [] type = "payment.cancelled" /\ CanCancel(s, o) -> CancelOrder(s, o)
    [] type = "payment.refunded" /\ CanRefund(s, o) -> RefundOrder(s, o)
    [] OTHER -> ActivateOrder(s, o)

\* What a matched event does to its order; an operation that refuses leaves
\* only an audit entry.
Handled(s, o, type) ==
  CASE type = "payment.succeeded" /\ CanActivate(s, o) -> ActivateOrder(s, o)
    [] type = "payment.failed" /\ CanFail(s, o) -> FailOrder(s, o)
    [] type = "payment.cancelled" /\ CanCancel(s, o) -> CancelOrder(s, o)
    [] type = "payment.refunded" /\ CanRefund(s, o) -> RefundOrder(s, o)
    [] OTHER -> s

\* ifpayWebhook.  An event seen before is answered without a change; one that
\* matches no order is consumed all the same.
Webhook(e) ==
  LET noted == [mem EXCEPT !.seen = @ \cup {e}]
  IN /\ e \in emitted
     /\ e \notin mem.seen
     /\ Commit(IF Matched(mem, e) THEN Handled(noted, e[1], e[2]) ELSE noted)
     /\ UNCHANGED <<pc, gateway, emitted>>

-----------------------------------------------------------------------------
(* Administrators, invitations and the clock.                              *)

Others == UNCHANGED <<pc, gateway, emitted>>

AdminMarkOrderPaid(o) ==
  /\ CanActivate(mem, o)
  /\ Commit([ActivateOrder(mem, o) EXCEPT !.vouched = @ \cup {o}])
  /\ Others

AdminCancelOrder(o) == CanCancel(mem, o) /\ Commit(CancelOrder(mem, o)) /\ Others

AdminRefundOrder(o) == CanRefund(mem, o) /\ Commit(RefundOrder(mem, o)) /\ Others

AdminGrantPlan(u, p) == Commit(Subscribe(mem, u, p, "admin")) /\ Others

\* redeemInvite, for a code whose limits admit the user
RedeemInvite(u, p) == Commit(Subscribe(mem, u, p, "invite")) /\ Others

AdminExpireSubscription(u, deleteNow) ==
  /\ Commit(SetSubscription(mem, u,
       IF deleteNow THEN Withdrawn(mem.sub[u], "deleted", "over")
                    ELSE Withdrawn(mem.sub[u], "past_due", "retained"), NoPlan))
  /\ Others

Expired(s) == {u \in Users : EffectiveStatus(s, u) = "deleted"}

\* adminPurgeExpired (its images and objects are not billing's)
AdminPurgeExpired ==
  /\ Commit([mem EXCEPT
       !.sub = [u \in Users |-> IF u \in Expired(mem)
                                THEN [mem.sub[u] EXCEPT !.status = "deleted"]
                                ELSE mem.sub[u]],
       !.plan = [u \in Users |-> IF u \in Expired(mem) THEN NoPlan ELSE mem.plan[u]]])
  /\ Others

Older(sub) == [sub EXCEPT !.term = IF @ = "running" THEN "retained" ELSE "over"]

Aged(s, u) == [s EXCEPT !.sub[u] = Older(@)]

\* now passes EndsAt, or RetentionEndsAt: the stored dates stay what they are,
\* so memory and database age together
TermPasses(u) ==
  /\ mem.sub[u].term # "over"
  /\ mem' = Aged(mem, u)
  /\ db' = Aged(db, u)
  /\ Others

\* The process dies and starts again from the database; checkouts in progress
\* are gone.
Restart ==
  /\ mem' = db
  /\ pc' = [o \in Orders |-> IF pc[o] = "paying" THEN "dead" ELSE pc[o]]
  /\ UNCHANGED <<db, gateway, emitted>>

OrderStep(o) ==
  \/ CheckoutStart(o) \/ CheckoutAttach(o) \/ CheckoutError(o)
  \/ GatewayCreates(o) \/ GatewaySettles(o)
  \/ AdminMarkOrderPaid(o) \/ AdminCancelOrder(o) \/ AdminRefundOrder(o)

UserStep(u) ==
  \/ \E p \in Plans : AdminGrantPlan(u, p) \/ RedeemInvite(u, p)
  \/ \E deleteNow \in BOOLEAN : AdminExpireSubscription(u, deleteNow)
  \/ TermPasses(u)

Next ==
  \/ \E o \in Orders : OrderStep(o)
  \/ \E e \in Events : Webhook(e)
  \/ \E u \in Users : UserStep(u)
  \/ AdminPurgeExpired
  \/ Restart

Spec == Init /\ [][Next]_vars

\* IF-Pay repeats an event until it is answered with 200.
LiveSpec == Spec /\ \A e \in Events : WF_vars(Webhook(e))

-----------------------------------------------------------------------------
(* Properties.                                                             *)

\* An order is paid (or was, before its refund) only if IF-Pay took the money
\* or an administrator vouched for it: no order of events, duplicates,
\* timeouts and restarts makes one up.
PaidNeedsMoney ==
  \A o \in Orders : mem.status[o] \in {"paid", "refunded"} =>
    o \in mem.vouched \/ gateway[o] \in {"succeeded", "refunded"}

\* The plan shown for a user is the plan of the current subscription, and
\* none once it was withdrawn, by whichever of the seven operations.
PlanFollowsSubscription ==
  \A u \in Users :
    mem.plan[u] = IF mem.sub[u].status = "active" THEN mem.sub[u].plan ELSE NoPlan

\* A subscription that an order brought and that still allows uploads belongs
\* to a paid order, but for orders that were overrun: refunds stop uploads,
\* failed or cancelled orders never allow them.
UploadsArePaidFor ==
  \A u \in Users, o \in Orders \ mem.overrun :
    mem.sub[u].from = o /\ CanUpload(mem, u) => mem.status[o] = "paid"

\* Paying, marking paid and repeated events together issue one subscription
\* for an order, and at most one more when its payment was overrun.
OneGrantPerOrder ==
  \A o \in Orders : mem.granted[o] <= IF o \in mem.overrun THEN 2 ELSE 1

\* A success that named its order and that IF-Pay was told is received has
\* made the order paid, unless the order had been cancelled; a later refund
\* may follow.
ReceivedSuccessIsHonoured ==
  \A e \in db.seen : e[2] = "payment.succeeded" /\ e[3] = "named" =>
    mem.status[e[1]] \in {"paid", "refunded", "cancelled"} \/ e[1] \in mem.overrun

\* A paid order can only be refunded, but for the moment it is overrun.
PaidStaysPaid ==
  [][\A o \in Orders \ (mem'.overrun \ mem.overrun) :
       mem.status[o] = "paid" => mem'.status[o] \in {"paid", "refunded"}]_vars

\* Cancelled and refunded orders stay so, but for the moment they are overrun:
\* a late success revives neither.
ClosedStaysClosed ==
  [][\A o \in Orders \ (mem'.overrun \ mem.overrun) :
       mem.status[o] \in {"cancelled", "refunded"} => mem'.status[o] = mem.status[o]]_vars

\* Money that IF-Pay took is noticed: the order becomes paid, or was closed,
\* or is overrun.
MoneyIsNoticed ==
  \A o \in Orders : gateway[o] = "succeeded" ~>
    mem.status[o] \in {"paid", "refunded", "cancelled"} \/ o \in mem.overrun

\* Of the events that IF-Pay is delivering, those that would find no order are
\* all about one payment, whatever requests failed or were cut short, whatever
\* ids were not saved and lost by a restart: while a payment is not known to
\* its order, no other is asked for.
UnmatchedAreOfOneOrder ==
  \A e, f \in emitted : ~Matched(mem, e) /\ ~Matched(mem, f) => e[1] = f[1]

\* Every order that is paid stays paid until it is refunded.
EveryPaidStaysPaid ==
  [][\A o \in Orders : mem.status[o] = "paid" => mem'.status[o] \in {"paid", "refunded"}]_vars
=============================================================================
