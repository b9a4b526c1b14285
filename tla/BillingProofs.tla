--------------------------- MODULE BillingProofs ---------------------------
(* Theorems about Billing, for any users, orders, plans and event copies.  *)
EXTENDS Billing, TLAPS

-----------------------------------------------------------------------------
(* What the operations return.                                             *)

LEMMA WithdrawnType ==
  ASSUME NEW sub \in Subscriptions,
         NEW status \in {"past_due", "deleted"}, NEW term \in {"retained", "over"}
  PROVE  Withdrawn(sub, status, term) \in Subscriptions
  BY DEF Withdrawn, Subscriptions

LEMMA SetSubscriptionType ==
  ASSUME NEW s \in States, NEW u \in Users,
         NEW sub \in Subscriptions, NEW p \in Plans \cup {NoPlan}
  PROVE  SetSubscription(s, u, sub, p) \in States
  BY DEF SetSubscription, States

LEMMA SubscribeType ==
  ASSUME NEW s \in States, NEW u \in Users, NEW p \in Plans, NEW from \in Orders \cup Grants
  PROVE  Subscribe(s, u, p, from) \in States
<1>1. NewSubscription(p, from) \in Subscriptions
  BY DEF NewSubscription, Subscriptions
<1> QED
  BY <1>1, SetSubscriptionType DEF Subscribe

LEMMA SetStatusType ==
  ASSUME NEW s \in States, NEW o \in Orders, NEW status \in OrderStatuses
  PROVE  SetStatus(s, o, status) \in States
  BY DEF SetStatus, States

LEMMA OrderOperationTypes ==
  ASSUME NEW s \in States, NEW o \in Orders
  PROVE  /\ ActivateOrder(s, o) \in States
         /\ FailOrder(s, o) \in States
         /\ CancelOrder(s, o) \in States
         /\ RefundOrder(s, o) \in States
<1> USE OrderAssumption, PlanAssumption
<1>1. ActivateOrder(s, o) \in States
  <2>1. ASSUME NEW t \in States
        PROVE  [t EXCEPT !.status[o] = "paid", !.granted[o] = @ + 1] \in States
    <3>1. \A n \in Nat : n + 1 \in Nat
      OBVIOUS
    <3>2. [t.granted EXCEPT ![o] = @ + 1] \in [Orders -> Nat]
      BY <3>1 DEF States
    <3>3. [t.status EXCEPT ![o] = "paid"] \in [Orders -> OrderStatuses]
      BY DEF States, OrderStatuses
    <3> QED
      BY <3>2, <3>3 DEF States
  <2>2. Subscribe(s, Owner[o], PlanOf[o], o) \in States
    BY SubscribeType
  <2> QED
    BY <2>1, <2>2 DEF ActivateOrder
<1>2. FailOrder(s, o) \in States /\ CancelOrder(s, o) \in States
  BY SetStatusType DEF FailOrder, CancelOrder, OrderStatuses
<1>3. RefundOrder(s, o) \in States
  <2>1. SetStatus(s, o, "refunded") \in States
    BY SetStatusType DEF OrderStatuses
  <2>2. s.sub[Owner[o]] \in Subscriptions
    BY DEF States
  <2>3. Withdrawn(s.sub[Owner[o]], "past_due", "retained") \in Subscriptions
    BY <2>2, WithdrawnType
  <2> QED
    BY <2>1, <2>3, SetSubscriptionType DEF RefundOrder
<1> QED
  BY <1>1, <1>2, <1>3

LEMMA HandledType ==
  ASSUME NEW s \in States, NEW o \in Orders, NEW t \in EventTypes
  PROVE  Handled(s, o, t) \in States
  BY OrderOperationTypes DEF Handled

LEMMA AgedType ==
  ASSUME NEW s \in States, NEW u \in Users
  PROVE  Aged(s, u) \in States
<1>1. \A sub \in Subscriptions : Older(sub) \in Subscriptions
  BY DEF Older, Subscriptions
<1> QED
  BY <1>1 DEF Aged, States

LEMMA TypeStep == TypeOK /\ [Next]_vars => TypeOK'
<1> SUFFICES ASSUME TypeOK, [Next]_vars PROVE TypeOK'
  OBVIOUS
<1> USE OrderAssumption, PlanAssumption DEF TypeOK
<1>1. ASSUME NEW s \in States, Commit(s), Others PROVE TypeOK'
  BY <1>1 DEF Commit, Others
<1>2. ASSUME NEW o \in Orders, CheckoutStart(o) PROVE TypeOK'
  <2>1. SetStatus(mem, o, "pending") \in States
    BY SetStatusType DEF OrderStatuses
  <2> QED
    BY <1>2, <2>1 DEF CheckoutStart, Commit
<1>3. ASSUME NEW o \in Orders, CheckoutAttach(o) PROVE TypeOK'
  <2>1. [mem EXCEPT !.pay = @ \cup {o}] \in States
    BY DEF States
  <2> QED
    BY <1>3, <2>1 DEF CheckoutAttach
<1>4. ASSUME NEW o \in Orders, CheckoutError(o) PROVE TypeOK'
  <2>1. FailOrder(mem, o) \in States
    BY OrderOperationTypes
  <2>2. \A s \in States : [s EXCEPT !.overrun = @ \cup {o}] \in States
    BY DEF States
  <2> QED
    BY <1>4, <2>1, <2>2 DEF CheckoutError, Commit
<1>5. ASSUME NEW o \in Orders, GatewayCreates(o) PROVE TypeOK'
  BY <1>5 DEF GatewayCreates
<1>6. ASSUME NEW o \in Orders, GatewaySettles(o) PROVE TypeOK'
  BY <1>6 DEF GatewaySettles, Occurs, Events
<1>7. ASSUME NEW o \in Orders, AdminMarkOrderPaid(o) PROVE TypeOK'
  <2>1. \A s \in States : [s EXCEPT !.vouched = @ \cup {o}] \in States
    BY DEF States
  <2> QED
    BY <1>1, <1>7, <2>1, OrderOperationTypes DEF AdminMarkOrderPaid
<1>8. ASSUME NEW o \in Orders, AdminCancelOrder(o) \/ AdminRefundOrder(o) PROVE TypeOK'
  BY <1>1, <1>8, OrderOperationTypes DEF AdminCancelOrder, AdminRefundOrder
<1>9. ASSUME NEW u \in Users, NEW p \in Plans, AdminGrantPlan(u, p) \/ RedeemInvite(u, p)
      PROVE  TypeOK'
  BY <1>1, <1>9, SubscribeType DEF AdminGrantPlan, RedeemInvite, Grants
<1>10. ASSUME NEW u \in Users, NEW d \in BOOLEAN, AdminExpireSubscription(u, d) PROVE TypeOK'
  <2>1. mem.sub[u] \in Subscriptions
    BY DEF States
  <2> QED
    BY <1>1, <1>10, <2>1, WithdrawnType, SetSubscriptionType DEF AdminExpireSubscription
<1>11. ASSUME NEW u \in Users, TermPasses(u) PROVE TypeOK'
  BY <1>11, AgedType DEF TermPasses, Others
<1>12. CASE AdminPurgeExpired
  <2> DEFINE purged == [u \in Users |-> IF u \in Expired(mem)
                          THEN [mem.sub[u] EXCEPT !.status = "deleted"] ELSE mem.sub[u]]
             plans == [u \in Users |-> IF u \in Expired(mem) THEN NoPlan ELSE mem.plan[u]]
  <2>a. \A sub \in Subscriptions : [sub EXCEPT !.status = "deleted"] \in Subscriptions
    BY DEF Subscriptions
  <2>b. mem.sub \in [Users -> Subscriptions] /\ mem.plan \in [Users -> Plans \cup {NoPlan}]
    BY DEF States
  <2>1. purged \in [Users -> Subscriptions] /\ plans \in [Users -> Plans \cup {NoPlan}]
    BY <2>a, <2>b
  <2>2. [mem EXCEPT !.sub = purged, !.plan = plans] \in States
    BY <2>1 DEF States
  <2> QED
    BY <1>1, <1>12, <2>2 DEF AdminPurgeExpired
<1>13. ASSUME NEW e \in Events, Webhook(e) PROVE TypeOK'
  <2>1. e[1] \in Orders /\ e[2] \in EventTypes
    BY DEF Events
  <2>2. [mem EXCEPT !.seen = @ \cup {e}] \in States
    BY DEF States
  <2> QED
    BY <1>13, <2>1, <2>2, HandledType DEF Webhook, Commit
<1>14. CASE Restart
  BY <1>14 DEF Restart
<1>15. CASE UNCHANGED vars
  BY <1>15 DEF vars
<1> QED
  BY <1>2, <1>3, <1>4, <1>5, <1>6, <1>7, <1>8, <1>9, <1>10, <1>11, <1>12, <1>13, <1>14, <1>15
     DEF Next, OrderStep, UserStep

\* Type correctness of memory, database, checkouts and IF-Pay.
THEOREM TypeCorrect == Spec => []TypeOK
<1>1. Init => TypeOK
  BY OrderAssumption, PlanAssumption
     DEF Init, TypeOK, States, Subscriptions, NewSubscription, OrderStatuses, Grants
<1> QED
  BY <1>1, TypeStep, PTL DEF Spec

-----------------------------------------------------------------------------
(* What the operations change: one fact per field of the state.            *)

LEMMA SetStatusFields ==
  ASSUME NEW s \in States, NEW o \in Orders, NEW status \in OrderStatuses
  PROVE  LET t == SetStatus(s, o, status)
         IN /\ t.status = [s.status EXCEPT ![o] = status]
            /\ t.pay = s.pay /\ t.sub = s.sub /\ t.plan = s.plan
            /\ t.vouched = s.vouched /\ t.overrun = s.overrun /\ t.granted = s.granted
  BY DEF SetStatus, States

LEMMA SetSubscriptionFields ==
  ASSUME NEW s \in States, NEW u \in Users, NEW sub, NEW p
  PROVE  LET t == SetSubscription(s, u, sub, p)
         IN /\ t.sub = [s.sub EXCEPT ![u] = sub]
            /\ t.plan = [s.plan EXCEPT ![u] = p]
            /\ t.status = s.status /\ t.pay = s.pay
            /\ t.vouched = s.vouched /\ t.overrun = s.overrun /\ t.granted = s.granted
  BY DEF SetSubscription, States

LEMMA ActivateFields ==
  ASSUME NEW s \in States, NEW o \in Orders
  PROVE  LET t == ActivateOrder(s, o)
             new == NewSubscription(PlanOf[o], o)
         IN \/ s.status[o] = "paid" /\ t = s
            \/ /\ s.status[o] # "paid"
               /\ t.status = [s.status EXCEPT ![o] = "paid"]
               /\ t.granted = [s.granted EXCEPT ![o] = @ + 1]
               /\ t.sub = [s.sub EXCEPT ![Owner[o]] = new]
               /\ t.plan = [s.plan EXCEPT ![Owner[o]] = PlanOf[o]]
               /\ t.pay = s.pay /\ t.vouched = s.vouched /\ t.overrun = s.overrun
<1> DEFINE new == NewSubscription(PlanOf[o], o)
           r == Subscribe(s, Owner[o], PlanOf[o], o)
<1>1. Owner[o] \in Users /\ PlanOf[o] \in Plans
  BY OrderAssumption
<1>2. r \in States
  BY <1>1, SubscribeType
<1>3. /\ r.sub = [s.sub EXCEPT ![Owner[o]] = new]
      /\ r.plan = [s.plan EXCEPT ![Owner[o]] = PlanOf[o]]
      /\ r.status = s.status /\ r.pay = s.pay
      /\ r.vouched = s.vouched /\ r.overrun = s.overrun /\ r.granted = s.granted
  BY <1>1, SetSubscriptionFields DEF Subscribe
<1>4. ActivateOrder(s, o) =
        IF s.status[o] = "paid" THEN s
        ELSE [r EXCEPT !.status[o] = "paid", !.granted[o] = @ + 1]
  BY DEF ActivateOrder
<1> HIDE DEF r
<1>5. LET t == [r EXCEPT !.status[o] = "paid", !.granted[o] = @ + 1]
      IN /\ t.status = [r.status EXCEPT ![o] = "paid"]
         /\ t.granted = [r.granted EXCEPT ![o] = @ + 1]
         /\ t.sub = r.sub /\ t.plan = r.plan /\ t.pay = r.pay /\ t.vouched = r.vouched /\ t.overrun = r.overrun
  BY <1>2 DEF States
<1> HIDE DEF new
<1> QED
  BY <1>3, <1>4, <1>5 DEF new

LEMMA RefundFields ==
  ASSUME NEW s \in States, NEW o \in Orders
  PROVE  LET t == RefundOrder(s, o)
             u == Owner[o]
         IN /\ t.status = [s.status EXCEPT ![o] = "refunded"]
            /\ t.pay = s.pay /\ t.vouched = s.vouched /\ t.overrun = s.overrun /\ t.granted = s.granted
            /\ \/ s.sub[u].plan # PlanOf[o] /\ t.sub = s.sub /\ t.plan = s.plan
               \/ /\ s.sub[u].plan = PlanOf[o]
                  /\ t.sub = [s.sub EXCEPT ![u] = Withdrawn(s.sub[u], "past_due", "retained")]
                  /\ t.plan = [s.plan EXCEPT ![u] = NoPlan]
<1> DEFINE r == SetStatus(s, o, "refunded")
<1>1. r \in States /\ Owner[o] \in Users
  BY SetStatusType, OrderAssumption DEF OrderStatuses
<1>2. /\ r.status = [s.status EXCEPT ![o] = "refunded"]
      /\ r.pay = s.pay /\ r.sub = s.sub /\ r.plan = s.plan
      /\ r.vouched = s.vouched /\ r.overrun = s.overrun /\ r.granted = s.granted
  BY SetStatusFields DEF OrderStatuses
<1>3. RefundOrder(s, o) =
        IF s.sub[Owner[o]].plan = PlanOf[o]
        THEN SetSubscription(r, Owner[o], Withdrawn(s.sub[Owner[o]], "past_due", "retained"), NoPlan)
        ELSE r
  BY DEF RefundOrder
<1> HIDE DEF r
<1> QED
  BY <1>1, <1>2, <1>3, SetSubscriptionFields

LEMMA WithdrawnFields ==
  ASSUME NEW sub \in Subscriptions, NEW status, NEW term
  PROVE  LET w == Withdrawn(sub, status, term)
         IN /\ w.status = status /\ w.term = term
            /\ w.plan = sub.plan /\ w.from = sub.from
  BY DEF Withdrawn, Subscriptions

LEMMA NewFields ==
  ASSUME NEW p, NEW from
  PROVE  LET n == NewSubscription(p, from)
         IN n.plan = p /\ n.status = "active" /\ n.term = "running" /\ n.from = from
  BY DEF NewSubscription

LEMMA AgedFields ==
  ASSUME NEW s \in States, NEW u \in Users
  PROVE  LET t == Aged(s, u)
         IN /\ t.sub = [s.sub EXCEPT ![u] = Older(@)]
            /\ t.status = s.status /\ t.pay = s.pay /\ t.plan = s.plan
            /\ t.vouched = s.vouched /\ t.overrun = s.overrun /\ t.granted = s.granted
  BY DEF Aged, States

-----------------------------------------------------------------------------
(* The inductive invariant.                                                *)

Took == {"paid", "refunded"}

PlanAgrees(s) ==
  \A u \in Users :
    s.plan[u] = IF s.sub[u].status = "active" THEN s.sub[u].plan ELSE NoPlan

\* One subscription for an order that was paid, none for the others; an
\* overrun may leave one behind
Counted(s) ==
  \A o \in Orders :
    /\ s.status[o] \notin Took => s.granted[o] <= IF o \in s.overrun THEN 1 ELSE 0
    /\ s.status[o] \in Took => s.granted[o] <= IF o \in s.overrun THEN 2 ELSE 1

\* What is known of a subscription that an order brought: a refund finds it
\* by its plan.
Brought(s) ==
  \A u \in Users, o \in Orders \ s.overrun : s.sub[u].from = o =>
    /\ Owner[o] = u
    /\ s.sub[u].plan = PlanOf[o]
    /\ s.sub[u].status # "deleted" /\ s.sub[u].term = "running" => s.status[o] = "paid"

Consistent(s) ==
  /\ PlanAgrees(s)
  /\ Counted(s)
  /\ Brought(s)

\* Memory and database differ in payment ids only.
Agree ==
  /\ db.status = mem.status /\ db.sub = mem.sub /\ db.plan = mem.plan
  /\ db.vouched = mem.vouched /\ db.granted = mem.granted /\ db.overrun = mem.overrun
  /\ db.pay \subseteq mem.pay

OverrunOnce == \A o \in mem.overrun : pc[o] = "errored"

IdleHasNoOrder == \A o \in Orders : pc[o] = "idle" => mem.status[o] = "none"

SuccessIsReal ==
  \A e \in emitted : e[2] = "payment.succeeded" => gateway[e[1]] \in {"succeeded", "refunded"}

IInv ==
  /\ TypeOK
  /\ Agree
  /\ Consistent(mem)
  /\ Saveable(db)
  /\ IdleHasNoOrder
  /\ OverrunOnce
  /\ PaidNeedsMoney
  /\ SuccessIsReal

\* What the statuses of orders may do
Progress(s, t) ==
  \A o \in Orders \ (t.overrun \ s.overrun) :
    /\ s.status[o] = "paid" => t.status[o] \in Took
    /\ s.status[o] \in {"cancelled", "refunded"} => t.status[o] = s.status[o]

\* t is a sound successor of s that takes money for the orders in new.
Sound(s, t, new) ==
  /\ Consistent(t)
  /\ Progress(s, t)
  /\ \A o \in Orders : s.status[o] = "none" => t.status[o] = "none"
  /\ \A o \in Orders : t.status[o] \in Took => s.status[o] \in Took \/ o \in new
  /\ s.vouched \subseteq t.vouched
  /\ t.overrun = s.overrun

-----------------------------------------------------------------------------
(* Every operation is sound.                                               *)

\* Payment ids and history change nothing that matters here.
LEMMA SameIsSound ==
  ASSUME NEW s \in States, NEW t \in States, Consistent(s),
         t.status = s.status, t.sub = s.sub, t.plan = s.plan, t.granted = s.granted, t.overrun = s.overrun,
         s.vouched \subseteq t.vouched
  PROVE  Sound(s, t, {})
<1>1. PlanAgrees(t)
  BY DEF PlanAgrees, Consistent
<1>2. Counted(t) /\ Brought(t)
  BY DEF Counted, Brought, Consistent
<1>3. Progress(s, t)
  BY DEF Progress, Took
<1> QED
  BY <1>1, <1>2, <1>3 DEF Sound, Consistent

LEMMA SetStatusIsSound ==
  ASSUME NEW s \in States, NEW o \in Orders, NEW status \in OrderStatuses \ Took,
         Consistent(s), s.status[o] # "none",
         s.status[o] \notin Took,
         s.status[o] = "cancelled" => status = "cancelled"
  PROVE  Sound(s, SetStatus(s, o, status), {})
<1> DEFINE t == SetStatus(s, o, status)
<1>1. /\ t.status = [s.status EXCEPT ![o] = status]
      /\ t.sub = s.sub /\ t.plan = s.plan /\ t.vouched = s.vouched /\ t.overrun = s.overrun /\ t.granted = s.granted
  BY SetStatusFields
<1>2. s.status \in [Orders -> OrderStatuses]
  BY DEF States
<1> HIDE DEF t
<1>3. PlanAgrees(t)
  BY <1>1 DEF PlanAgrees, Consistent
<1>4. Counted(t) /\ Brought(t)
  BY <1>1, <1>2 DEF Counted, Brought, Consistent, Took
<1>5. Progress(s, t)
  BY <1>1, <1>2 DEF Progress, Took
<1> QED
  BY <1>1, <1>2, <1>3, <1>4, <1>5 DEF Sound, Consistent, Took, t

LEMMA ActivateIsSound ==
  ASSUME NEW s \in States, NEW o \in Orders, Consistent(s), CanActivate(s, o)
  PROVE  Sound(s, ActivateOrder(s, o), {o})
<1> DEFINE t == ActivateOrder(s, o)
           sub == NewSubscription(PlanOf[o], o)
<1>1. CASE s.status[o] = "paid" /\ t = s
  BY <1>1, SameIsSound DEF Sound
<1>2. CASE /\ s.status[o] # "paid"
           /\ t.status = [s.status EXCEPT ![o] = "paid"]
           /\ t.granted = [s.granted EXCEPT ![o] = @ + 1]
           /\ t.sub = [s.sub EXCEPT ![Owner[o]] = sub]
           /\ t.plan = [s.plan EXCEPT ![Owner[o]] = PlanOf[o]]
           /\ t.pay = s.pay /\ t.vouched = s.vouched /\ t.overrun = s.overrun
  <2> HIDE DEF t
  <2>1. /\ s.status \in [Orders -> OrderStatuses] /\ s.granted \in [Orders -> Nat]
        /\ s.sub \in [Users -> Subscriptions] /\ s.plan \in [Users -> Plans \cup {NoPlan}]
        /\ Owner[o] \in Users
    BY OrderAssumption DEF States
  <2>2. sub.plan = PlanOf[o] /\ sub.status = "active" /\ sub.term = "running" /\ sub.from = o
    BY NewFields
  <2> HIDE DEF sub
  <2>3. PlanAgrees(t)
    BY <1>2, <2>1, <2>2 DEF PlanAgrees, Consistent
  <2>4. s.status[o] \notin Took
    BY <1>2 DEF CanActivate, Took
  <2>5. Counted(t)
    BY <1>2, <2>1, <2>4 DEF Counted, Consistent, Took
  <2>6. Brought(t)
    <3> SUFFICES ASSUME NEW u \in Users, NEW q \in Orders \ t.overrun, t.sub[u].from = q
                 PROVE  /\ Owner[q] = u
                        /\ t.sub[u].plan = PlanOf[q]
                        /\ t.sub[u].status # "deleted" /\ t.sub[u].term = "running"
                             => t.status[q] = "paid"
      BY DEF Brought
    <3>1. CASE u = Owner[o]
      BY <1>2, <2>1, <2>2, <3>1
    <3>2. CASE u # Owner[o]
      BY <1>2, <2>1, <3>2 DEF Consistent, Brought
    <3> QED
      BY <3>1, <3>2
  <2>7. Progress(s, t)
    BY <1>2, <2>1 DEF Progress, CanActivate, Took
  <2> QED
    BY <1>2, <2>1, <2>3, <2>5, <2>6, <2>7 DEF Sound, Consistent, CanActivate, Took, t
<1> QED
  BY <1>1, <1>2, ActivateFields

LEMMA RefundIsSound ==
  ASSUME NEW s \in States, NEW o \in Orders, Consistent(s), CanRefund(s, o)
  PROVE  Sound(s, RefundOrder(s, o), {})
<1> DEFINE t == RefundOrder(s, o)
           w == Withdrawn(s.sub[Owner[o]], "past_due", "retained")
<1>1. /\ t.status = [s.status EXCEPT ![o] = "refunded"]
      /\ t.vouched = s.vouched /\ t.overrun = s.overrun /\ t.granted = s.granted
      /\ \/ s.sub[Owner[o]].plan # PlanOf[o] /\ t.sub = s.sub /\ t.plan = s.plan
         \/ /\ s.sub[Owner[o]].plan = PlanOf[o]
            /\ t.sub = [s.sub EXCEPT ![Owner[o]] = w]
            /\ t.plan = [s.plan EXCEPT ![Owner[o]] = NoPlan]
  BY RefundFields
<1>2. /\ s.status \in [Orders -> OrderStatuses]
      /\ s.sub \in [Users -> Subscriptions] /\ s.plan \in [Users -> Plans \cup {NoPlan}]
      /\ Owner[o] \in Users /\ s.status[o] = "paid"
  BY OrderAssumption DEF States, CanRefund
<1>3. /\ w.status = "past_due" /\ w.term = "retained"
      /\ w.plan = s.sub[Owner[o]].plan /\ w.from = s.sub[Owner[o]].from
  BY <1>2, WithdrawnFields
<1> HIDE DEF t, w
<1>4. PlanAgrees(t)
  BY <1>1, <1>2, <1>3 DEF PlanAgrees, Consistent
<1>5. Counted(t)
  BY <1>1, <1>2 DEF Counted, Consistent, Took
<1>6. Brought(t)
  <2> SUFFICES ASSUME NEW u \in Users, NEW q \in Orders \ t.overrun, t.sub[u].from = q
               PROVE  /\ Owner[q] = u
                      /\ t.sub[u].plan = PlanOf[q]
                      /\ t.sub[u].status # "deleted" /\ t.sub[u].term = "running"
                           => t.status[q] = "paid"
    BY DEF Brought
  <2>1. s.sub[u].from = q /\ t.sub[u].plan = s.sub[u].plan
    BY <1>1, <1>2, <1>3
  <2>2. /\ Owner[q] = u /\ s.sub[u].plan = PlanOf[q]
        /\ s.sub[u].status # "deleted" /\ s.sub[u].term = "running" => s.status[q] = "paid"
    BY <1>1, <2>1 DEF Consistent, Brought
  <2>3. CASE q = o
    BY <1>1, <1>2, <1>3, <2>1, <2>2, <2>3
  <2>4. CASE q # o
    BY <1>1, <1>2, <1>3, <2>1, <2>2, <2>4
  <2> QED
    BY <2>3, <2>4
<1>7. Progress(s, t)
  BY <1>1, <1>2 DEF Progress, Took
<1> QED
  BY <1>1, <1>2, <1>4, <1>5, <1>6, <1>7 DEF Sound, Consistent, Took, t

\* A subscription that no order brought, or an earlier one withdrawn
LEMMA SetSubscriptionIsSound ==
  ASSUME NEW s \in States, NEW u \in Users, NEW sub \in Subscriptions,
         NEW p \in Plans \cup {NoPlan}, Consistent(s),
         p = IF sub.status = "active" THEN sub.plan ELSE NoPlan,
         \/ sub.from \notin Orders
         \/ sub.from = s.sub[u].from /\ sub.plan = s.sub[u].plan /\ sub.term # "running"
  PROVE  Sound(s, SetSubscription(s, u, sub, p), {})
<1> DEFINE t == SetSubscription(s, u, sub, p)
<1>1. /\ t.sub = [s.sub EXCEPT ![u] = sub] /\ t.plan = [s.plan EXCEPT ![u] = p]
      /\ t.status = s.status /\ t.vouched = s.vouched /\ t.overrun = s.overrun /\ t.granted = s.granted
  BY SetSubscriptionFields
<1>2. s.sub \in [Users -> Subscriptions] /\ s.plan \in [Users -> Plans \cup {NoPlan}]
  BY DEF States
<1> HIDE DEF t
<1>3. PlanAgrees(t)
  BY <1>1, <1>2 DEF PlanAgrees, Consistent
<1>4. Counted(t) /\ Brought(t)
  BY <1>1, <1>2 DEF Counted, Brought, Consistent
<1>5. Progress(s, t)
  BY <1>1 DEF Progress, Took
<1> QED
  BY <1>1, <1>3, <1>4, <1>5 DEF Sound, Consistent, t

LEMMA AgedIsSound ==
  ASSUME NEW s \in States, NEW u \in Users, Consistent(s)
  PROVE  Sound(s, Aged(s, u), {})
<1> DEFINE t == Aged(s, u)
<1>1. /\ t.sub = [s.sub EXCEPT ![u] = Older(@)]
      /\ t.status = s.status /\ t.plan = s.plan /\ t.vouched = s.vouched /\ t.overrun = s.overrun /\ t.granted = s.granted
  BY AgedFields
<1>2. s.sub \in [Users -> Subscriptions]
  BY DEF States
<1>3. \A sub \in Subscriptions :
        /\ Older(sub).status = sub.status /\ Older(sub).plan = sub.plan
        /\ Older(sub).from = sub.from /\ Older(sub).term # "running"
  BY DEF Older, Subscriptions
<1> HIDE DEF t
<1>4. PlanAgrees(t)
  BY <1>1, <1>2, <1>3 DEF PlanAgrees, Consistent
<1>5. Counted(t) /\ Brought(t)
  BY <1>1, <1>2, <1>3 DEF Counted, Brought, Consistent
<1>6. Progress(s, t)
  BY <1>1 DEF Progress, Took
<1> QED
  BY <1>1, <1>4, <1>5, <1>6 DEF Sound, Consistent, t

\* A sound step is followed by bookkeeping, or preceded by it.
LEMMA SoundAfterNote ==
  ASSUME NEW s, NEW n, NEW t, NEW new,
         n.status = s.status, n.vouched = s.vouched /\ n.overrun = s.overrun, Sound(n, t, new)
  PROVE  Sound(s, t, new)
  BY DEF Sound, Progress

LEMMA SoundBeforeNote ==
  ASSUME NEW s \in States, NEW t \in States, NEW r \in States, NEW new, Sound(s, t, new),
         r.status = t.status, r.sub = t.sub, r.plan = t.plan, r.granted = t.granted, r.overrun = t.overrun,
         t.vouched \subseteq r.vouched
  PROVE  Sound(s, r, new)
<1>1. Sound(t, r, {})
  BY SameIsSound DEF Sound
<1> QED
  BY <1>1 DEF Sound, Progress

LEMMA PurgeIsSound ==
  ASSUME NEW s \in States, NEW t \in States, Consistent(s),
         t.status = s.status, t.vouched = s.vouched /\ t.overrun = s.overrun, t.granted = s.granted,
         t.sub = [u \in Users |-> IF u \in Expired(s) THEN [s.sub[u] EXCEPT !.status = "deleted"]
                                                     ELSE s.sub[u]],
         t.plan = [u \in Users |-> IF u \in Expired(s) THEN NoPlan ELSE s.plan[u]]
  PROVE  Sound(s, t, {})
<1>1. \A sub \in Subscriptions :
        LET d == [sub EXCEPT !.status = "deleted"]
        IN d.status = "deleted" /\ d.plan = sub.plan /\ d.from = sub.from /\ d.term = sub.term
  BY DEF Subscriptions
<1>2. s.sub \in [Users -> Subscriptions]
  BY DEF States
<1>3. PlanAgrees(t)
  BY <1>1, <1>2 DEF PlanAgrees, Consistent
<1>4. Counted(t) /\ Brought(t)
  <2>1. Counted(t)
    BY DEF Counted, Consistent
  <2>2. Brought(t)
    BY <1>1, <1>2 DEF Brought, Consistent
  <2> QED
    BY <2>1, <2>2
<1>5. Progress(s, t)
  BY DEF Progress, Took
<1> QED
  BY <1>3, <1>4, <1>5 DEF Sound, Consistent

\* What a webhook event does: only a success takes money.
LEMMA HandledIsSound ==
  ASSUME NEW s \in States, NEW o \in Orders, NEW type \in EventTypes,
         Consistent(s), s.status[o] # "none"
  PROVE  Sound(s, Handled(s, o, type), IF type = "payment.succeeded" THEN {o} ELSE {})
<1>1. CASE type = "payment.succeeded" /\ CanActivate(s, o)
  BY <1>1, ActivateIsSound DEF Handled
<1>2. CASE type = "payment.failed" /\ CanFail(s, o)
  <2>1. Sound(s, SetStatus(s, o, "failed"), {})
    BY <1>2, SetStatusIsSound DEF CanFail, OrderStatuses, Took
  <2> QED
    BY <1>2, <2>1 DEF Handled, FailOrder
<1>3. CASE type = "payment.cancelled" /\ CanCancel(s, o)
  <2>1. Sound(s, SetStatus(s, o, "cancelled"), {})
    BY <1>3, SetStatusIsSound DEF CanCancel, OrderStatuses, Took
  <2> QED
    BY <1>3, <2>1 DEF Handled, CancelOrder
<1>4. CASE type = "payment.refunded" /\ CanRefund(s, o)
  BY <1>4, RefundIsSound DEF Handled
<1>5. CASE /\ ~(type = "payment.succeeded" /\ CanActivate(s, o))
           /\ ~(type = "payment.failed" /\ CanFail(s, o))
           /\ ~(type = "payment.cancelled" /\ CanCancel(s, o))
           /\ ~(type = "payment.refunded" /\ CanRefund(s, o))
  <2>1. Handled(s, o, type) = s
    BY <1>5 DEF Handled
  <2>2. Sound(s, s, {})
    BY SameIsSound
  <2> QED
    BY <2>1, <2>2 DEF Sound
<1> QED
  BY <1>1, <1>2, <1>3, <1>4, <1>5

-----------------------------------------------------------------------------
(* The invariant is inductive, and steps are Progress.                     *)

LEMMA Initially == Init => IInv
<1> SUFFICES ASSUME Init PROVE IInv
  OBVIOUS
<1>1. TypeOK
  BY OrderAssumption, PlanAssumption
     DEF Init, TypeOK, States, Subscriptions, NewSubscription, OrderStatuses, Grants
<1>2. \A u \in Users : mem.sub[u] = NewSubscription("go", "register") /\ mem.plan[u] = "go"
  BY DEF Init
<1>3. \A o \in Orders : mem.status[o] = "none" /\ mem.granted[o] = 0
  BY DEF Init
<1>4. PlanAgrees(mem)
  BY <1>2, NewFields DEF PlanAgrees
<1>5. Counted(mem)
  BY <1>3 DEF Counted, Took
<1>6. Brought(mem)
  BY <1>2, NewFields, OrderAssumption DEF Brought, Grants
<1>7. db = mem /\ emitted = {} /\ mem.overrun = {}
  BY DEF Init
<1> QED
  BY <1>1, <1>3, <1>4, <1>5, <1>6, <1>7
     DEF IInv, Agree, Consistent, Saveable, IdleHasNoOrder, OverrunOnce, PaidNeedsMoney,
         SuccessIsReal

\* A handler that commits a sound successor, at no checkout's expense
LEMMA CommitKeeps ==
  ASSUME IInv, TypeOK', NEW s \in States, NEW new \in SUBSET Orders,
         Commit(s), Others, Sound(mem, s, new),
         \A o \in new : o \in s.vouched \/ gateway[o] \in {"succeeded", "refunded"}
  PROVE  IInv' /\ Progress(mem, mem')
<1>1. mem' = s /\ db' = s /\ Saveable(s) /\ pc' = pc /\ gateway' = gateway /\ emitted' = emitted
  BY DEF Commit, Others
<1>2. Agree' /\ Consistent(mem)' /\ Saveable(db)' /\ SuccessIsReal'
  BY <1>1 DEF IInv, Agree, Sound, Consistent, PlanAgrees, Counted, Brought, Saveable, SuccessIsReal
<1>3. IdleHasNoOrder' /\ OverrunOnce'
  BY <1>1 DEF IInv, IdleHasNoOrder, OverrunOnce, Sound
<1>4. PaidNeedsMoney'
  BY <1>1 DEF IInv, PaidNeedsMoney, Sound, Took
<1> QED
  BY <1>1, <1>2, <1>3, <1>4 DEF IInv, Sound

LEMMA CheckoutKeeps ==
  ASSUME IInv, TypeOK', NEW o \in Orders,
         CheckoutStart(o) \/ CheckoutAttach(o) \/ CheckoutError(o)
  PROVE  IInv' /\ Progress(mem, mem')
<1> USE DEF IInv
<1>t. mem \in States /\ db \in States /\ pc \in [Orders -> {"idle", "paying", "done", "errored", "refused", "dead"}]
  BY DEF TypeOK
<1>u. UNCHANGED <<gateway, emitted>>
  BY DEF CheckoutStart, CheckoutAttach, CheckoutError
<1>s. SuccessIsReal'
  BY <1>u DEF SuccessIsReal
<1>v. mem.overrun \subseteq Orders
  BY <1>t DEF States
<1>1. ASSUME UNCHANGED <<mem, db>>,
             \A q \in Orders : pc'[q] = "idle" => pc[q] = "idle",
             \A q \in Orders : pc[q] = "errored" => pc'[q] = "errored"
      PROVE  IInv' /\ Progress(mem, mem')
  <2>1. Agree' /\ Consistent(mem)' /\ Saveable(db)' /\ PaidNeedsMoney' /\ IdleHasNoOrder'
    BY <1>1, <1>u DEF Agree, Consistent, PlanAgrees, Counted, Brought, Saveable,
                      PaidNeedsMoney, IdleHasNoOrder
  <2>3. OverrunOnce'
    BY <1>1, <1>v DEF OverrunOnce
  <2>2. Progress(mem, mem')
    BY <1>1 DEF Progress, Took
  <2> QED
    BY <2>1, <2>2, <2>3, <1>s
<1>2. CASE CheckoutStart(o)
  <2> DEFINE s == SetStatus(mem, o, "pending")
  <2>1. mem.status[o] = "none" /\ mem.status \in [Orders -> OrderStatuses]
    BY <1>2, <1>t DEF CheckoutStart, IdleHasNoOrder, States
  <2>2. /\ s.status = [mem.status EXCEPT ![o] = "pending"]
        /\ s.sub = mem.sub /\ s.plan = mem.plan
        /\ s.vouched = mem.vouched /\ s.overrun = mem.overrun /\ s.granted = mem.granted
    BY <1>t, SetStatusFields DEF OrderStatuses
  <2> HIDE DEF s
  <2>3. CASE Commit(s) /\ pc' = [pc EXCEPT ![o] = "paying"]
    <3>1. mem' = s /\ db' = s /\ Saveable(s)
      BY <2>3 DEF Commit
    <3>2. PlanAgrees(mem)'
      BY <2>2, <3>1 DEF PlanAgrees, Consistent
    <3>3. Counted(mem)' /\ Brought(mem)'
      BY <2>1, <2>2, <3>1 DEF Counted, Brought, Consistent, Took
    <3>4. Agree' /\ Saveable(db)'
      BY <3>1 DEF Agree, Saveable
    <3>5. IdleHasNoOrder'
      BY <1>t, <2>1, <2>2, <2>3, <3>1 DEF IdleHasNoOrder
    <3>8. OverrunOnce'
      BY <1>2, <1>t, <1>v, <2>2, <2>3, <3>1 DEF CheckoutStart, OverrunOnce
    <3>6. PaidNeedsMoney'
      BY <1>u, <2>1, <2>2, <3>1 DEF PaidNeedsMoney
    <3>7. Progress(mem, mem')
      BY <2>1, <2>2, <3>1 DEF Progress, Took
    <3> QED
      BY <1>s, <3>2, <3>3, <3>4, <3>5, <3>6, <3>7, <3>8 DEF Consistent
  <2>4. CASE UNCHANGED <<mem, db>> /\ pc' = [pc EXCEPT ![o] = "refused"]
    <3>1. /\ \A q \in Orders : pc'[q] = "idle" => pc[q] = "idle"
          /\ \A q \in Orders : pc[q] = "errored" => pc'[q] = "errored"
      BY <1>2, <1>t, <2>4 DEF CheckoutStart
    <3> QED
      BY <1>1, <2>4, <3>1
  <2> QED
    BY <1>2, <2>3, <2>4 DEF CheckoutStart, s
<1>3. CASE CheckoutAttach(o)
  <2> DEFINE s == [mem EXCEPT !.pay = @ \cup {o}]
  <2>1. /\ s.status = mem.status /\ s.sub = mem.sub /\ s.plan = mem.plan
        /\ s.vouched = mem.vouched /\ s.overrun = mem.overrun /\ s.granted = mem.granted
        /\ s.pay = mem.pay \cup {o}
    BY <1>t DEF States
  <2>2. mem' = s /\ (db' = s \/ db' = db) /\ pc' = [pc EXCEPT ![o] = "done"]
    BY <1>3 DEF CheckoutAttach
  <2> HIDE DEF s
  <2>3. Agree' /\ Saveable(db)'
    BY <2>1, <2>2 DEF Agree, Saveable
  <2>4. Consistent(mem)'
    BY <2>1, <2>2 DEF Consistent, PlanAgrees, Counted, Brought
  <2>5. IdleHasNoOrder' /\ PaidNeedsMoney' /\ Progress(mem, mem')
    BY <1>t, <1>u, <2>1, <2>2 DEF IdleHasNoOrder, PaidNeedsMoney, Progress, Took
  <2>6. OverrunOnce'
    BY <1>3, <1>t, <1>v, <2>1, <2>2 DEF CheckoutAttach, OverrunOnce
  <2> QED
    BY <1>s, <2>3, <2>4, <2>5, <2>6
<1>4. CASE CheckoutError(o)
  <2>1. /\ \A q \in Orders : pc'[q] = "idle" => pc[q] = "idle"
        /\ \A q \in Orders : pc[q] = "errored" => pc'[q] = "errored"
        /\ pc[o] = "paying" /\ pc'[o] = "errored"
    BY <1>4, <1>t DEF CheckoutError
  <2>2. CASE UNCHANGED <<mem, db>>
    BY <1>1, <2>1, <2>2
  <2> DEFINE f == FailOrder(mem, o)
             s == IF CanFail(mem, o) THEN f ELSE [f EXCEPT !.overrun = @ \cup {o}]
  <2>3. CASE Commit(s)
    <3>1. mem' = s /\ db' = s /\ Saveable(s)
      BY <2>3 DEF Commit
    <3>2. /\ f \in States /\ f.status = [mem.status EXCEPT ![o] = "failed"]
          /\ f.sub = mem.sub /\ f.plan = mem.plan
          /\ f.vouched = mem.vouched /\ f.overrun = mem.overrun /\ f.granted = mem.granted
      BY <1>t, SetStatusFields, SetStatusType DEF FailOrder, OrderStatuses
    <3> HIDE DEF f
    <3>3. /\ s.status = [mem.status EXCEPT ![o] = "failed"]
          /\ s.sub = mem.sub /\ s.plan = mem.plan
          /\ s.vouched = mem.vouched /\ s.granted = mem.granted
          /\ s.overrun = mem.overrun \cup (IF CanFail(mem, o) THEN {} ELSE {o})
      BY <3>2 DEF States
    <3> HIDE DEF s
    <3>4. /\ mem.status \in [Orders -> OrderStatuses] /\ mem.granted \in [Orders -> Nat]
          /\ o \notin mem.overrun
          /\ CanFail(mem, o) => mem.status[o] \notin {"none", "paid", "cancelled", "refunded"}
      BY <1>t, <2>1 DEF States, OverrunOnce, CanFail
    <3>5. PlanAgrees(mem)'
      BY <3>1, <3>3 DEF PlanAgrees, Consistent
    <3>6. Counted(mem)'
      BY <3>1, <3>3, <3>4 DEF Counted, Consistent, Took
    <3>7. Brought(mem)'
      BY <3>1, <3>3, <3>4 DEF Brought, Consistent
    <3>8. Agree' /\ Saveable(db)'
      BY <3>1 DEF Agree, Saveable
    <3>9. IdleHasNoOrder'
      BY <2>1, <3>1, <3>3, <3>4 DEF IdleHasNoOrder
    <3>10. OverrunOnce'
      BY <1>v, <2>1, <3>1, <3>3 DEF OverrunOnce
    <3>11. PaidNeedsMoney'
      BY <1>u, <3>1, <3>3, <3>4 DEF PaidNeedsMoney
    <3>12. Progress(mem, mem')
      BY <3>1, <3>3, <3>4 DEF Progress, Took
    <3> QED
      BY <1>s, <3>5, <3>6, <3>7, <3>8, <3>9, <3>10, <3>11, <3>12 DEF Consistent
  <2> QED
    BY <1>4, <2>2, <2>3 DEF CheckoutError
<1> QED
  BY <1>2, <1>3, <1>4

LEMMA Step ==
  ASSUME IInv, [Next]_vars
  PROVE  IInv' /\ Progress(mem, mem')
<1>t. TypeOK /\ TypeOK' /\ Consistent(mem)
  BY TypeStep DEF IInv
<1>m. mem \in States /\ db \in States
  BY <1>t DEF TypeOK
<1>1. ASSUME NEW o \in Orders, CheckoutStart(o) \/ CheckoutAttach(o) \/ CheckoutError(o)
      PROVE  IInv' /\ Progress(mem, mem')
  BY <1>1, <1>t, CheckoutKeeps
<1>2. ASSUME UNCHANGED <<mem, db, pc>>, SuccessIsReal', PaidNeedsMoney'
      PROVE  IInv' /\ Progress(mem, mem')
  BY <1>2, <1>t DEF IInv, Agree, Consistent, PlanAgrees, Counted, Brought, Saveable,
                    IdleHasNoOrder, OverrunOnce, Progress, Took
<1>3. ASSUME NEW o \in Orders, GatewayCreates(o) \/ GatewaySettles(o)
      PROVE  IInv' /\ Progress(mem, mem')
  <2>1. gateway \in [Orders -> {"none", "created", "failed", "cancelled", "succeeded", "refunded"}]
    BY <1>t DEF TypeOK
  <2>2. emitted \subseteq Events
    BY <1>t DEF TypeOK
  <2>3. PaidNeedsMoney'
    BY <1>3, <2>1 DEF IInv, PaidNeedsMoney, GatewayCreates, GatewaySettles, Occurs
  <2>4. \A e \in emitted : e[1] \in Orders
    BY <2>2 DEF Events
  <2>5. GatewayCreates(o) => SuccessIsReal'
    BY <2>1, <2>4 DEF IInv, SuccessIsReal, GatewayCreates
  <2>6. ASSUME NEW from, NEW to \in {"succeeded", "failed", "cancelled", "refunded"}, NEW type,
               Occurs(o, from, to, type),
               gateway[o] \in {"succeeded", "refunded"} => to = "refunded",
               type = "payment.succeeded" => to = "succeeded"
        PROVE  SuccessIsReal'
    <3>1. \A e \in {o} \X {type} \X Copies : e[1] = o /\ e[2] = type
      OBVIOUS
    <3> QED
      BY <2>1, <2>4, <2>6, <3>1 DEF IInv, SuccessIsReal, Occurs
  <2>7. GatewaySettles(o) => SuccessIsReal'
    BY <2>6 DEF GatewaySettles, Occurs
  <2> QED
    BY <1>2, <1>3, <2>3, <2>5, <2>7 DEF GatewayCreates, GatewaySettles, Occurs
<1>4. ASSUME NEW o \in Orders, AdminMarkOrderPaid(o)
      PROVE  IInv' /\ Progress(mem, mem')
  <2> DEFINE t == ActivateOrder(mem, o)
             s == [t EXCEPT !.vouched = @ \cup {o}]
  <2>1. t \in States /\ Sound(mem, t, {o})
    BY <1>4, <1>m, <1>t, OrderOperationTypes, ActivateIsSound DEF AdminMarkOrderPaid
  <2>2. Commit(s) /\ Others
    BY <1>4 DEF AdminMarkOrderPaid
  <2> HIDE DEF t
  <2>3. s \in States /\ o \in s.vouched /\ t.vouched \subseteq s.vouched
        /\ s.status = t.status /\ s.sub = t.sub /\ s.plan = t.plan /\ s.granted = t.granted
        /\ s.overrun = t.overrun
    BY <2>1 DEF States
  <2> HIDE DEF s
  <2>4. Sound(mem, s, {o})
    BY <1>m, <2>1, <2>3, SoundBeforeNote
  <2> QED
    BY <1>t, <2>2, <2>3, <2>4, CommitKeeps
<1>5. ASSUME NEW o \in Orders, AdminCancelOrder(o)
      PROVE  IInv' /\ Progress(mem, mem')
  <2>1. Sound(mem, SetStatus(mem, o, "cancelled"), {})
    BY <1>5, <1>m, <1>t, SetStatusIsSound DEF AdminCancelOrder, CanCancel, OrderStatuses, Took
  <2>2. SetStatus(mem, o, "cancelled") \in States
    BY <1>m, SetStatusType DEF OrderStatuses
  <2> QED
    BY <1>5, <1>t, <2>1, <2>2, CommitKeeps DEF AdminCancelOrder, CancelOrder
<1>6. ASSUME NEW o \in Orders, AdminRefundOrder(o)
      PROVE  IInv' /\ Progress(mem, mem')
  <2>1. Sound(mem, RefundOrder(mem, o), {}) /\ RefundOrder(mem, o) \in States
    BY <1>6, <1>m, <1>t, RefundIsSound, OrderOperationTypes DEF AdminRefundOrder
  <2> QED
    BY <1>6, <1>t, <2>1, CommitKeeps DEF AdminRefundOrder
<1>7. ASSUME NEW u \in Users, NEW p \in Plans, NEW from \in Grants,
             Commit(Subscribe(mem, u, p, from)), Others
      PROVE  IInv' /\ Progress(mem, mem')
  <2> DEFINE sub == NewSubscription(p, from)
  <2>1. sub \in Subscriptions
    BY DEF NewSubscription, Subscriptions
  <2>2. sub.status = "active" /\ sub.plan = p /\ sub.from \notin Orders
    BY NewFields, OrderAssumption
  <2> HIDE DEF sub
  <2>3. Sound(mem, SetSubscription(mem, u, sub, p), {})
    BY <1>m, <1>t, <2>1, <2>2, SetSubscriptionIsSound
  <2>4. SetSubscription(mem, u, sub, p) \in States
    BY <1>m, <2>1, SetSubscriptionType
  <2> QED
    BY <1>7, <1>t, <2>3, <2>4, CommitKeeps DEF Subscribe, sub
<1>8. ASSUME NEW u \in Users, NEW d \in BOOLEAN, AdminExpireSubscription(u, d)
      PROVE  IInv' /\ Progress(mem, mem')
  <2>1. ASSUME NEW status \in {"past_due", "deleted"}, NEW term \in {"retained", "over"},
               Commit(SetSubscription(mem, u, Withdrawn(mem.sub[u], status, term), NoPlan))
        PROVE  IInv' /\ Progress(mem, mem')
    <3> DEFINE w == Withdrawn(mem.sub[u], status, term)
    <3>1. mem.sub[u] \in Subscriptions
      BY <1>m DEF States
    <3>2. w \in Subscriptions
      BY <3>1, WithdrawnType
    <3>3. w.status # "active" /\ w.term # "running"
          /\ w.plan = mem.sub[u].plan /\ w.from = mem.sub[u].from
      BY <3>1, WithdrawnFields
    <3> HIDE DEF w
    <3>4. Sound(mem, SetSubscription(mem, u, w, NoPlan), {})
      BY <1>m, <1>t, <3>2, <3>3, SetSubscriptionIsSound
    <3>5. SetSubscription(mem, u, w, NoPlan) \in States
      BY <1>m, <3>2, SetSubscriptionType
    <3> QED
      BY <1>8, <1>t, <2>1, <3>4, <3>5, CommitKeeps DEF AdminExpireSubscription, w
  <2>2. CASE d
    BY <1>8, <2>1, <2>2 DEF AdminExpireSubscription
  <2>3. CASE ~d
    BY <1>8, <2>1, <2>3 DEF AdminExpireSubscription
  <2> QED
    BY <2>2, <2>3
<1>9. CASE AdminPurgeExpired
  <2> DEFINE sub == [u \in Users |-> IF u \in Expired(mem)
                       THEN [mem.sub[u] EXCEPT !.status = "deleted"] ELSE mem.sub[u]]
             plan == [u \in Users |-> IF u \in Expired(mem) THEN NoPlan ELSE mem.plan[u]]
             s == [mem EXCEPT !.sub = sub, !.plan = plan]
  <2>1. Commit(s) /\ Others
    BY <1>9 DEF AdminPurgeExpired
  <2>2. mem' = s
    BY <2>1 DEF Commit
  <2>3. s \in States
    BY <1>t, <2>2 DEF TypeOK
  <2> HIDE DEF sub, plan
  <2>4. /\ s.sub = sub /\ s.plan = plan /\ s.status = mem.status
        /\ s.vouched = mem.vouched /\ s.overrun = mem.overrun /\ s.granted = mem.granted
    BY <1>m DEF States
  <2> HIDE DEF s
  <2>5. Sound(mem, s, {})
    BY <1>m, <1>t, <2>3, <2>4, PurgeIsSound DEF sub, plan
  <2> QED
    BY <1>t, <2>1, <2>3, <2>5, CommitKeeps
<1>10. ASSUME NEW u \in Users, TermPasses(u)
       PROVE  IInv' /\ Progress(mem, mem')
  <2>1. /\ Sound(mem, mem', {}) /\ mem' = Aged(mem, u) /\ db' = Aged(db, u)
        /\ pc' = pc /\ gateway' = gateway /\ emitted' = emitted
    BY <1>10, <1>m, <1>t, AgedIsSound DEF TermPasses, Others
  <2>2. /\ mem'.sub = [mem.sub EXCEPT ![u] = Older(@)] /\ db'.sub = [db.sub EXCEPT ![u] = Older(@)]
        /\ mem'.status = mem.status /\ mem'.pay = mem.pay /\ mem'.plan = mem.plan
        /\ mem'.vouched = mem.vouched /\ mem'.overrun = mem.overrun /\ mem'.granted = mem.granted
        /\ db'.status = db.status /\ db'.pay = db.pay /\ db'.plan = db.plan
        /\ db'.vouched = db.vouched /\ db'.overrun = db.overrun /\ db'.granted = db.granted
    BY <1>m, <2>1, AgedFields
  <2>3. Agree' /\ Saveable(db)' /\ IdleHasNoOrder' /\ OverrunOnce' /\ PaidNeedsMoney' /\ SuccessIsReal'
    BY <2>1, <2>2 DEF IInv, Agree, Saveable, IdleHasNoOrder, OverrunOnce, PaidNeedsMoney, SuccessIsReal
  <2>4. Consistent(mem)'
    BY <2>1 DEF Sound, Consistent, PlanAgrees, Counted, Brought
  <2>5. Progress(mem, mem')
    BY <2>2 DEF Progress, Took
  <2> QED
    BY <1>t, <2>3, <2>4, <2>5 DEF IInv
<1>11. ASSUME NEW e \in Events, Webhook(e)
       PROVE  IInv' /\ Progress(mem, mem')
  <2> DEFINE n == [mem EXCEPT !.seen = @ \cup {e}]
             o == e[1]
             s == IF Matched(mem, e) THEN Handled(n, o, e[2]) ELSE n
             new == IF e[2] = "payment.succeeded" THEN {o} ELSE {}
  <2>1. o \in Orders /\ e[2] \in EventTypes
    BY DEF Events
  <2>2. Commit(s) /\ Others /\ e \in emitted
    BY <1>11 DEF Webhook, Others
  <2>3. /\ n \in States /\ n.status = mem.status /\ n.sub = mem.sub /\ n.plan = mem.plan
        /\ n.vouched = mem.vouched /\ n.overrun = mem.overrun /\ n.granted = mem.granted
    BY <1>m DEF States
  <2> HIDE DEF n
  <2>4. Sound(mem, n, {})
    BY <1>m, <1>t, <2>3, SameIsSound
  <2>5. ASSUME Matched(mem, e) PROVE Sound(mem, s, new)
    <3>1. Consistent(n) /\ n.status[o] # "none"
      BY <2>3, <2>4, <2>5 DEF Sound, Matched
    <3>2. Sound(n, Handled(n, o, e[2]), new)
      BY <2>1, <2>3, <3>1, HandledIsSound
    <3>3. Sound(mem, s, new)
      BY <2>3, <2>5, <3>2, SoundAfterNote
    <3> QED
      BY <3>3
  <2>6. ASSUME ~Matched(mem, e) PROVE Sound(mem, s, new)
    BY <2>4, <2>6 DEF Sound
  <2>7. s \in States
    BY <2>1, <2>3, HandledType
  <2>8. \A q \in new : gateway[q] \in {"succeeded", "refunded"}
    BY <2>2 DEF IInv, SuccessIsReal
  <2>9. new \in SUBSET Orders /\ Sound(mem, s, new)
    BY <2>1, <2>5, <2>6
  <2> HIDE DEF s, new
  <2> QED
    BY <1>t, <2>2, <2>7, <2>8, <2>9, CommitKeeps
<1>12. CASE Restart
  <2>1. /\ mem' = db /\ db' = db /\ gateway' = gateway /\ emitted' = emitted
        /\ \A o \in Orders : pc'[o] = "idle" => pc[o] = "idle"
        /\ \A o \in Orders : pc[o] = "errored" => pc'[o] = "errored"
        /\ mem.overrun \subseteq Orders
    BY <1>12, <1>m DEF Restart, States
  <2>2. Agree' /\ Saveable(db)' /\ IdleHasNoOrder' /\ OverrunOnce' /\ PaidNeedsMoney' /\ SuccessIsReal'
    BY <2>1 DEF IInv, Agree, Saveable, IdleHasNoOrder, OverrunOnce, PaidNeedsMoney, SuccessIsReal
  <2>3. Consistent(mem)'
    BY <1>t, <2>1 DEF IInv, Agree, Consistent, PlanAgrees, Counted, Brought
  <2>4. Progress(mem, mem')
    BY <2>1 DEF IInv, Agree, Progress, Took
  <2> QED
    BY <1>t, <2>2, <2>3, <2>4 DEF IInv
<1>13. CASE UNCHANGED vars
  <2>1. UNCHANGED <<mem, db, pc, gateway, emitted>>
    BY <1>13 DEF vars
  <2>2. SuccessIsReal' /\ PaidNeedsMoney'
    BY <2>1 DEF IInv, SuccessIsReal, PaidNeedsMoney
  <2> QED
    BY <1>2, <2>1, <2>2
<1> QED
  BY <1>1, <1>3, <1>4, <1>5, <1>6, <1>7, <1>8, <1>9, <1>10, <1>11, <1>12, <1>13
     DEF Next, OrderStep, UserStep, AdminGrantPlan, RedeemInvite, Grants

-----------------------------------------------------------------------------
(* What follows for every behaviour.                                       *)

\* No race, duplicate, timeout or restart makes up a payment.
THEOREM MoneyFirst == Spec => []PaidNeedsMoney
<1>1. IInv /\ [Next]_vars => IInv'
  BY Step
<1>2. IInv => PaidNeedsMoney
  BY DEF IInv
<1> QED
  BY Initially, <1>1, <1>2, PTL DEF Spec

\* The plan shown is the plan of the current subscription.
THEOREM PlanTrue == Spec => []PlanFollowsSubscription
<1>1. IInv /\ [Next]_vars => IInv'
  BY Step
<1>2. IInv => PlanFollowsSubscription
  BY DEF IInv, Consistent, PlanAgrees, PlanFollowsSubscription
<1> QED
  BY Initially, <1>1, <1>2, PTL DEF Spec

\* An order issues one subscription, and a second only when it was overrun.
THEOREM GrantedOnce == Spec => []OneGrantPerOrder
<1>1. IInv /\ [Next]_vars => IInv'
  BY Step
<1>2. IInv => OneGrantPerOrder
  <2> SUFFICES ASSUME IInv, NEW o \in Orders
               PROVE  mem.granted[o] <= IF o \in mem.overrun THEN 2 ELSE 1
    BY DEF OneGrantPerOrder
  <2>1. mem.granted[o] \in Nat
    BY DEF IInv, TypeOK, States
  <2> QED
    BY <2>1 DEF IInv, Consistent, Counted
<1> QED
  BY Initially, <1>1, <1>2, PTL DEF Spec

\* Uploads on an order's subscription are paid for.
THEOREM UploadsPaid == Spec => []UploadsArePaidFor
<1>1. IInv /\ [Next]_vars => IInv'
  BY Step
<1>2. IInv => UploadsArePaidFor
  BY DEF IInv, Consistent, Brought, UploadsArePaidFor, CanUpload, EffectiveStatus
<1> QED
  BY Initially, <1>1, <1>2, PTL DEF Spec

\* A paid order can only be refunded.
THEOREM PaidIsKept == Spec => PaidStaysPaid
<1>1. IInv /\ [Next]_vars => IInv'
  BY Step
<1>2. IInv /\ [Next]_vars =>
        [\A o \in Orders \ (mem'.overrun \ mem.overrun) :
           mem.status[o] = "paid" => mem'.status[o] \in {"paid", "refunded"}]_vars
  BY Step DEF Progress, Took
<1> QED
  BY Initially, <1>1, <1>2, PTL DEF Spec, PaidStaysPaid

\* Closed orders stay closed.
THEOREM ClosedIsKept == Spec => ClosedStaysClosed
<1>1. IInv /\ [Next]_vars => IInv'
  BY Step
<1>2. IInv /\ [Next]_vars =>
        [\A o \in Orders \ (mem'.overrun \ mem.overrun) : mem.status[o] \in {"cancelled", "refunded"} =>
           mem'.status[o] = mem.status[o]]_vars
  BY Step DEF Progress
<1> QED
  BY Initially, <1>1, <1>2, PTL DEF Spec, ClosedStaysClosed

-----------------------------------------------------------------------------
(* A success that was received is honoured.                                *)

\* What no operation but the webhook's own note changes, or ever takes back
Carries(s, t) ==
  /\ t.seen = s.seen
  /\ s.overrun \subseteq t.overrun
  /\ \A o \in Orders : s.status[o] # "none" => t.status[o] # "none"

LEMMA SetStatusCarries ==
  ASSUME NEW s \in States, NEW o \in Orders, NEW status \in OrderStatuses \ {"none"}
  PROVE  Carries(s, SetStatus(s, o, status))
  BY DEF Carries, SetStatus, States

LEMMA SetSubscriptionCarries ==
  ASSUME NEW s \in States, NEW u \in Users, NEW sub, NEW p
  PROVE  Carries(s, SetSubscription(s, u, sub, p))
  BY DEF Carries, SetSubscription, States

LEMMA CarriesOn ==
  ASSUME NEW s, NEW t, NEW r, Carries(s, t), Carries(t, r)
  PROVE  Carries(s, r)
  BY DEF Carries

LEMMA ActivateCarries ==
  ASSUME NEW s \in States, NEW o \in Orders
  PROVE  Carries(s, ActivateOrder(s, o))
<1> DEFINE r == Subscribe(s, Owner[o], PlanOf[o], o)
           t == [r EXCEPT !.status[o] = "paid", !.granted[o] = @ + 1]
<1>1. r \in States /\ Owner[o] \in Users
  BY SubscribeType, OrderAssumption
<1>2. Carries(s, r)
  BY <1>1, SetSubscriptionCarries DEF Subscribe
<1>3. ActivateOrder(s, o) = IF s.status[o] = "paid" THEN s ELSE t
  BY DEF ActivateOrder
<1> HIDE DEF r
<1>4. Carries(r, t)
  BY <1>1 DEF Carries, States
<1> HIDE DEF t
<1>5. Carries(s, t)
  BY <1>2, <1>4, CarriesOn
<1>6. Carries(s, s)
  BY DEF Carries
<1> QED
  BY <1>3, <1>5, <1>6

LEMMA RefundCarries ==
  ASSUME NEW s \in States, NEW o \in Orders
  PROVE  Carries(s, RefundOrder(s, o))
<1> DEFINE r == SetStatus(s, o, "refunded")
           w == Withdrawn(s.sub[Owner[o]], "past_due", "retained")
           t == SetSubscription(r, Owner[o], w, NoPlan)
<1>1. r \in States /\ Owner[o] \in Users /\ Carries(s, r)
  BY SetStatusType, SetStatusCarries, OrderAssumption DEF OrderStatuses
<1>2. RefundOrder(s, o) = IF s.sub[Owner[o]].plan = PlanOf[o] THEN t ELSE r
  BY DEF RefundOrder
<1> HIDE DEF r, w
<1>3. Carries(r, t)
  BY <1>1, SetSubscriptionCarries
<1> HIDE DEF t
<1> QED
  BY <1>1, <1>2, <1>3, CarriesOn

LEMMA HandledCarries ==
  ASSUME NEW s \in States, NEW o \in Orders, NEW type
  PROVE  Carries(s, Handled(s, o, type))
<1>1. Carries(s, s)
  BY DEF Carries
<1>2. Carries(s, FailOrder(s, o)) /\ Carries(s, CancelOrder(s, o))
  BY SetStatusCarries DEF FailOrder, CancelOrder, OrderStatuses
<1> QED
  BY <1>1, <1>2, ActivateCarries, RefundCarries DEF Handled

LEMMA AgedCarries ==
  ASSUME NEW s \in States, NEW u \in Users
  PROVE  Carries(s, Aged(s, u)) /\ Aged(s, u).seen = s.seen
  BY DEF Carries, Aged, States

\* The success of an order is settled: it was paid for, was closed before the
\* money came, or is overrun.
Met(s, o) == s.status[o] \in {"paid", "refunded", "cancelled"} \/ o \in s.overrun

NamedSuccesses == {e \in Events : e[2] = "payment.succeeded" /\ e[3] = "named"}

Honoured(s, seen) == \A e \in seen \cap NamedSuccesses : Met(s, e[1])

\* Once IF-Pay knows a payment, or its checkout has begun, the order exists.
Asked ==
  \A o \in Orders :
    gateway[o] # "none" \/ pc[o] \in {"paying", "done", "errored", "dead"}
      => mem.status[o] # "none"

HInv ==
  /\ IInv
  /\ Asked
  /\ Honoured(mem, mem.seen \cup db.seen)

LEMMA MetIsKept ==
  ASSUME NEW s, NEW t, NEW o \in Orders,
         Progress(s, t), s.overrun \subseteq t.overrun, Met(s, o)
  PROVE  Met(t, o)
  BY DEF Met, Progress, Took

\* No step forgets an order or an overrun, and only the webhook adds to the
\* events noted.
Remembers ==
  /\ mem.overrun \subseteq mem'.overrun
  /\ \A o \in Orders : mem.status[o] # "none" => mem'.status[o] # "none"

Seen == mem.seen \cup db.seen

LEMMA CommitRemembers ==
  ASSUME NEW s, Commit(s), Carries(mem, s)
  PROVE  Remembers /\ mem'.seen \cup db'.seen \subseteq Seen
  BY DEF Commit, Carries, Remembers, Seen

LEMMA WebhookNotes ==
  ASSUME TypeOK, NEW e \in Events, Webhook(e)
  PROVE  Remembers /\ mem'.seen \cup db'.seen \subseteq Seen \cup {e}
<1> DEFINE n == [mem EXCEPT !.seen = @ \cup {e}]
           s == IF Matched(mem, e) THEN Handled(n, e[1], e[2]) ELSE n
<1>1. mem \in States /\ e[1] \in Orders
  BY DEF TypeOK, Events
<1>2. /\ n \in States /\ n.seen = mem.seen \cup {e}
      /\ n.status = mem.status /\ n.overrun = mem.overrun
  BY <1>1 DEF States
<1>3. mem' = s /\ db' = s
  BY DEF Webhook, Commit
<1> HIDE DEF n
<1>4. Carries(n, s)
  BY <1>1, <1>2, HandledCarries DEF Carries
<1> HIDE DEF s
<1> QED
  BY <1>2, <1>3, <1>4 DEF Carries, Remembers, Seen

LEMMA OthersRemember ==
  ASSUME IInv, [Next]_vars, \A e \in Events : ~Webhook(e)
  PROVE  Remembers /\ mem'.seen \cup db'.seen \subseteq Seen
<1>t. TypeOK /\ mem \in States /\ db \in States
  BY DEF IInv, TypeOK
<1>1. ASSUME UNCHANGED <<mem, db>>
      PROVE  Remembers /\ mem'.seen \cup db'.seen \subseteq Seen
  BY <1>1 DEF Remembers, Seen
<1>2. ASSUME NEW o \in Orders, CheckoutStart(o)
      PROVE  Remembers /\ mem'.seen \cup db'.seen \subseteq Seen
  <2>1. Carries(mem, SetStatus(mem, o, "pending"))
    BY <1>t, SetStatusCarries DEF OrderStatuses
  <2> QED
    BY <1>1, <1>2, <2>1, CommitRemembers DEF CheckoutStart
<1>3. ASSUME NEW o \in Orders, CheckoutAttach(o)
      PROVE  Remembers /\ mem'.seen \cup db'.seen \subseteq Seen
  <2> DEFINE s == [mem EXCEPT !.pay = @ \cup {o}]
  <2>1. s.seen = mem.seen /\ s.overrun = mem.overrun /\ s.status = mem.status
    BY <1>t DEF States
  <2>2. mem' = s /\ (db' = s \/ db' = db)
    BY <1>3 DEF CheckoutAttach
  <2> HIDE DEF s
  <2> QED
    BY <2>1, <2>2 DEF Remembers, Seen
<1>4. ASSUME NEW o \in Orders, CheckoutError(o)
      PROVE  Remembers /\ mem'.seen \cup db'.seen \subseteq Seen
  <2> DEFINE f == FailOrder(mem, o)
             s == IF CanFail(mem, o) THEN f ELSE [f EXCEPT !.overrun = @ \cup {o}]
  <2>1. Carries(mem, f) /\ f \in States
    BY <1>t, SetStatusCarries, SetStatusType DEF FailOrder, OrderStatuses
  <2> HIDE DEF f
  <2>2. Carries(f, s)
    BY <2>1 DEF Carries, States
  <2>3. Commit(s) \/ UNCHANGED <<mem, db>>
    BY <1>4 DEF CheckoutError, f
  <2> HIDE DEF s
  <2>4. Carries(mem, s)
    BY <2>1, <2>2, CarriesOn
  <2> QED
    BY <1>1, <2>3, <2>4, CommitRemembers
<1>5. ASSUME NEW o \in Orders, GatewayCreates(o) \/ GatewaySettles(o)
      PROVE  Remembers /\ mem'.seen \cup db'.seen \subseteq Seen
  BY <1>1, <1>5 DEF GatewayCreates, GatewaySettles, Occurs
<1>6. ASSUME NEW o \in Orders, AdminMarkOrderPaid(o)
      PROVE  Remembers /\ mem'.seen \cup db'.seen \subseteq Seen
  <2> DEFINE t == ActivateOrder(mem, o)
             s == [t EXCEPT !.vouched = @ \cup {o}]
  <2>1. Carries(mem, t) /\ t \in States
    BY <1>t, ActivateCarries, OrderOperationTypes
  <2>2. Commit(s)
    BY <1>6 DEF AdminMarkOrderPaid
  <2> HIDE DEF t
  <2>3. Carries(t, s)
    BY <2>1 DEF Carries, States
  <2> HIDE DEF s
  <2>4. Carries(mem, s)
    BY <2>1, <2>3, CarriesOn
  <2> QED
    BY <2>2, <2>4, CommitRemembers
<1>7. ASSUME NEW o \in Orders, AdminCancelOrder(o) \/ AdminRefundOrder(o)
      PROVE  Remembers /\ mem'.seen \cup db'.seen \subseteq Seen
  <2>1. Carries(mem, CancelOrder(mem, o)) /\ Carries(mem, RefundOrder(mem, o))
    BY <1>t, SetStatusCarries, RefundCarries DEF CancelOrder, OrderStatuses
  <2> QED
    BY <1>7, <2>1, CommitRemembers DEF AdminCancelOrder, AdminRefundOrder
<1>8. ASSUME NEW u \in Users, UserStep(u)
      PROVE  Remembers /\ mem'.seen \cup db'.seen \subseteq Seen
  <2>1. ASSUME NEW p \in Plans, AdminGrantPlan(u, p) \/ RedeemInvite(u, p)
        PROVE  Remembers /\ mem'.seen \cup db'.seen \subseteq Seen
    BY <1>t, <2>1, SetSubscriptionCarries, CommitRemembers DEF AdminGrantPlan, RedeemInvite, Subscribe
  <2>2. ASSUME NEW d \in BOOLEAN, AdminExpireSubscription(u, d)
        PROVE  Remembers /\ mem'.seen \cup db'.seen \subseteq Seen
    <3> DEFINE w == IF d THEN Withdrawn(mem.sub[u], "deleted", "over")
                         ELSE Withdrawn(mem.sub[u], "past_due", "retained")
               s == SetSubscription(mem, u, w, NoPlan)
    <3>1. Commit(s)
      BY <2>2 DEF AdminExpireSubscription
    <3> HIDE DEF w
    <3>2. Carries(mem, s)
      BY <1>t, SetSubscriptionCarries
    <3> HIDE DEF s
    <3> QED
      BY <3>1, <3>2, CommitRemembers
  <2>3. ASSUME TermPasses(u)
        PROVE  Remembers /\ mem'.seen \cup db'.seen \subseteq Seen
    <3>1. mem' = Aged(mem, u) /\ db' = Aged(db, u)
      BY <2>3 DEF TermPasses
    <3>2. Carries(mem, mem') /\ db'.seen = db.seen
      BY <1>t, <3>1, AgedCarries
    <3> QED
      BY <3>2 DEF Carries, Remembers, Seen
  <2> QED
    BY <1>8, <2>1, <2>2, <2>3 DEF UserStep
<1>9. CASE AdminPurgeExpired
  <2> DEFINE sub == [u \in Users |-> IF u \in Expired(mem)
                       THEN [mem.sub[u] EXCEPT !.status = "deleted"] ELSE mem.sub[u]]
             plan == [u \in Users |-> IF u \in Expired(mem) THEN NoPlan ELSE mem.plan[u]]
             s == [mem EXCEPT !.sub = sub, !.plan = plan]
  <2>1. Commit(s)
    BY <1>9 DEF AdminPurgeExpired
  <2> HIDE DEF sub, plan
  <2>2. Carries(mem, s)
    BY <1>t DEF Carries, States
  <2> HIDE DEF s
  <2> QED
    BY <2>1, <2>2, CommitRemembers
<1>10. CASE Restart
  BY <1>10 DEF Restart, IInv, Agree, Remembers, Seen
<1>11. CASE UNCHANGED vars
  BY <1>1, <1>11 DEF vars
<1> QED
  BY <1>2, <1>3, <1>4, <1>5, <1>6, <1>7, <1>8, <1>9, <1>10, <1>11 DEF Next, OrderStep

\* The success names its order, which exists: it is found, and is paid unless
\* it was closed.
LEMMA NoticedWhenReceived ==
  ASSUME HInv, NEW e \in NamedSuccesses, Webhook(e)
  PROVE  Met(mem', e[1])
<1> DEFINE o == e[1]
           n == [mem EXCEPT !.seen = @ \cup {e}]
<1>1. mem \in States /\ o \in Orders /\ e \in Events /\ e[2] = "payment.succeeded" /\ e[3] = "named"
  BY DEF HInv, IInv, TypeOK, NamedSuccesses, Events
<1>2. mem.status[o] # "none"
  BY <1>1 DEF HInv, IInv, Asked, SuccessIsReal, Webhook
<1>3. Matched(mem, e)
  BY <1>1, <1>2 DEF Matched
<1>4. mem' = Handled(n, o, "payment.succeeded")
  BY <1>1, <1>3 DEF Webhook, Commit
<1>5. n \in States /\ n.status = mem.status
  BY <1>1 DEF States
<1> HIDE DEF n
<1>6. CASE CanActivate(n, o)
  <2>1. mem' = ActivateOrder(n, o)
    BY <1>4, <1>6 DEF Handled
  <2>a. n.status \in [Orders -> OrderStatuses]
    BY <1>5 DEF States
  <2>b. LET t == ActivateOrder(n, o)
        IN \/ n.status[o] = "paid" /\ t = n
           \/ t.status = [n.status EXCEPT ![o] = "paid"]
    BY <1>1, <1>5, ActivateFields
  <2>2. ActivateOrder(n, o).status[o] = "paid"
    BY <1>1, <2>a, <2>b
  <2> QED
    BY <2>1, <2>2 DEF Met
<1>7. CASE ~CanActivate(n, o)
  <2>1. mem' = n
    BY <1>4, <1>7 DEF Handled
  <2> QED
    BY <1>2, <1>5, <1>7, <2>1 DEF Met, CanActivate
<1> QED
  BY <1>6, <1>7

LEMMA AskedStep ==
  ASSUME IInv, Asked, [Next]_vars, Remembers
  PROVE  Asked'
<1>t. /\ mem \in States /\ pc \in [Orders -> {"idle", "paying", "done", "errored", "refused", "dead"}]
      /\ gateway \in [Orders -> {"none", "created", "failed", "cancelled", "succeeded", "refunded"}]
  BY DEF IInv, TypeOK
<1>1. ASSUME UNCHANGED <<pc, gateway>> PROVE Asked'
  BY <1>1 DEF Asked, Remembers
<1>2. ASSUME NEW o \in Orders, CheckoutStart(o) PROVE Asked'
  <2>1. gateway' = gateway
    BY <1>2 DEF CheckoutStart
  <2>2. CASE mem' = SetStatus(mem, o, "pending") /\ pc' = [pc EXCEPT ![o] = "paying"]
    <3>a. mem.status \in [Orders -> OrderStatuses]
      BY <1>t DEF States
    <3>b. SetStatus(mem, o, "pending").status = [mem.status EXCEPT ![o] = "pending"]
      BY <1>t, SetStatusFields DEF OrderStatuses
    <3>1. mem'.status[o] = "pending"
      BY <2>2, <3>a, <3>b
    <3> QED
      BY <1>t, <2>1, <2>2, <3>1 DEF Asked, Remembers
  <2>3. CASE mem' = mem /\ pc' = [pc EXCEPT ![o] = "refused"]
    BY <1>t, <2>1, <2>3 DEF Asked
  <2> QED
    BY <1>2, <2>2, <2>3 DEF CheckoutStart, Commit
<1>3. ASSUME NEW o \in Orders, CheckoutAttach(o) \/ CheckoutError(o) PROVE Asked'
  <2>1. gateway' = gateway /\ pc[o] = "paying"
        /\ \A q \in Orders : q # o => pc'[q] = pc[q]
    BY <1>3, <1>t DEF CheckoutAttach, CheckoutError
  <2> QED
    BY <2>1 DEF Asked, Remembers
<1>4. ASSUME NEW o \in Orders, GatewayCreates(o) PROVE Asked'
  BY <1>4, <1>t DEF GatewayCreates, Asked
<1>5. ASSUME NEW o \in Orders, GatewaySettles(o) PROVE Asked'
  BY <1>5, <1>t DEF GatewaySettles, Occurs, Asked
<1>6. CASE Restart
  <2>1. /\ db.status = mem.status /\ mem'.status = mem.status /\ gateway' = gateway
        /\ \A q \in Orders : pc'[q] = pc[q] \/ pc[q] = "paying"
    BY <1>6 DEF Restart, IInv, Agree
  <2> QED
    BY <2>1 DEF Asked
<1>7. CASE UNCHANGED vars
  BY <1>1, <1>7 DEF vars
<1>8. ASSUME NEW e \in Events, Webhook(e) PROVE Asked'
  BY <1>1, <1>8 DEF Webhook
<1>9. ASSUME NEW o \in Orders, AdminMarkOrderPaid(o) \/ AdminCancelOrder(o) \/ AdminRefundOrder(o)
      PROVE  Asked'
  BY <1>1, <1>9 DEF AdminMarkOrderPaid, AdminCancelOrder, AdminRefundOrder, Others
<1>10. ASSUME NEW u \in Users, UserStep(u) PROVE Asked'
  BY <1>1, <1>10 DEF UserStep, AdminGrantPlan, RedeemInvite, AdminExpireSubscription, TermPasses, Others
<1>11. CASE AdminPurgeExpired
  BY <1>1, <1>11 DEF AdminPurgeExpired, Others
<1> QED
  BY <1>2, <1>3, <1>4, <1>5, <1>6, <1>7, <1>8, <1>9, <1>10, <1>11 DEF Next, OrderStep

LEMMA HonouredStep == HInv /\ [Next]_vars => HInv'
<1> SUFFICES ASSUME HInv, [Next]_vars PROVE HInv'
  OBVIOUS
<1>1. IInv /\ Asked /\ TypeOK /\ IInv' /\ Progress(mem, mem')
  BY Step DEF HInv, IInv
<1>2. Remembers
  BY <1>1, WebhookNotes, OthersRemember
<1>3. \A e \in Seen \cap NamedSuccesses : Met(mem', e[1])
  <2> SUFFICES ASSUME NEW e \in Seen \cap NamedSuccesses PROVE Met(mem', e[1])
    OBVIOUS
  <2>1. e[1] \in Orders /\ Met(mem, e[1])
    BY DEF HInv, Honoured, Seen, NamedSuccesses, Events
  <2> QED
    BY <1>1, <1>2, <2>1, MetIsKept DEF Remembers
<1>4. \A e \in (mem'.seen \cup db'.seen) \cap NamedSuccesses : Met(mem', e[1])
  <2>1. CASE \A e \in Events : ~Webhook(e)
    BY <1>1, <1>3, <2>1, OthersRemember
  <2>2. ASSUME NEW e \in Events, Webhook(e)
        PROVE  \A d \in (mem'.seen \cup db'.seen) \cap NamedSuccesses : Met(mem', d[1])
    <3>1. mem'.seen \cup db'.seen \subseteq Seen \cup {e}
      BY <1>1, <2>2, WebhookNotes
    <3>2. e \in NamedSuccesses => Met(mem', e[1])
      BY <2>2, NoticedWhenReceived
    <3> QED
      BY <1>3, <3>1, <3>2
  <2> QED
    BY <2>1, <2>2
<1>5. Honoured(mem, mem.seen \cup db.seen)'
  BY <1>4 DEF Honoured, Met, NamedSuccesses
<1> QED
  BY <1>1, <1>2, <1>5, AskedStep DEF HInv

LEMMA HonouredInitially == Init => HInv
<1> SUFFICES ASSUME Init PROVE HInv
  OBVIOUS
<1>1. mem.seen = {} /\ db.seen = {}
  BY DEF Init
<1>2. Asked
  BY DEF Init, Asked
<1> QED
  BY <1>1, <1>2, Initially DEF HInv, Honoured

\* A success that named its order and was received made the order paid, unless
\* the order was closed or overrun: whatever was lost, repeated, undone or
\* restarted since.
THEOREM SuccessHonoured == Spec => []ReceivedSuccessIsHonoured
<1>1. HInv => ReceivedSuccessIsHonoured
  <2> SUFFICES ASSUME HInv, NEW e \in db.seen, e[2] = "payment.succeeded", e[3] = "named"
               PROVE  Met(mem, e[1])
    BY DEF ReceivedSuccessIsHonoured, Met
  <2>1. e \in Events
    BY DEF HInv, IInv, TypeOK, States
  <2> QED
    BY <2>1 DEF HInv, Honoured, NamedSuccesses
<1> QED
  BY <1>1, HonouredInitially, HonouredStep, PTL DEF Spec

-----------------------------------------------------------------------------
(* What finds no order.                                                    *)

\* An event is about a payment that IF-Pay knows.
Reported == \A e \in emitted : e[1] \in Orders /\ gateway[e[1]] # "none"

LEMMA ReportedStep == TypeOK /\ Reported /\ [Next]_vars => Reported'
<1> SUFFICES ASSUME TypeOK, Reported, [Next]_vars PROVE Reported'
  OBVIOUS
<1>t. gateway \in [Orders -> {"none", "created", "failed", "cancelled", "succeeded", "refunded"}]
  BY DEF TypeOK
<1>1. ASSUME UNCHANGED <<gateway, emitted>> PROVE Reported'
  BY <1>1 DEF Reported
<1>2. ASSUME NEW o \in Orders, GatewayCreates(o) PROVE Reported'
  BY <1>2, <1>t DEF GatewayCreates, Reported
<1>3. ASSUME NEW o \in Orders, NEW from, NEW to \in {"succeeded", "failed", "cancelled", "refunded"},
             NEW type, Occurs(o, from, to, type)
      PROVE  Reported'
  <2>1. /\ emitted' = emitted \cup ({o} \X {type} \X Copies)
        /\ gateway' = [gateway EXCEPT ![o] = to]
    BY <1>3 DEF Occurs
  <2>2. \A e \in {o} \X {type} \X Copies : e[1] = o
    OBVIOUS
  <2> QED
    BY <1>t, <2>1, <2>2 DEF Reported
<1>4. ASSUME NEW o \in Orders, GatewaySettles(o) PROVE Reported'
  BY <1>3, <1>4 DEF GatewaySettles
<1>5. ASSUME NEW o \in Orders, OrderStep(o) PROVE Reported'
  BY <1>1, <1>2, <1>4, <1>5
     DEF OrderStep, CheckoutStart, CheckoutAttach, CheckoutError,
         AdminMarkOrderPaid, AdminCancelOrder, AdminRefundOrder, Others
<1>6. ASSUME NEW u \in Users, UserStep(u) PROVE Reported'
  BY <1>1, <1>6
     DEF UserStep, AdminGrantPlan, RedeemInvite, AdminExpireSubscription, TermPasses, Others
<1>7. ASSUME NEW e \in Events, Webhook(e) PROVE Reported'
  BY <1>1, <1>7 DEF Webhook
<1>8. CASE AdminPurgeExpired \/ Restart \/ UNCHANGED vars
  BY <1>1, <1>8 DEF AdminPurgeExpired, Restart, Others, vars
<1> QED
  BY <1>5, <1>6, <1>7, <1>8 DEF Next

\* All events that would find no order are about one payment: while memory
\* does not know the payment of an order, the database accepts no second order
\* of that kind, and without an order no payment is asked for.
THEOREM UnmatchedIsOne == Spec => []UnmatchedAreOfOneOrder
<1>1. Init => Reported
  BY DEF Init, Reported
<1>2. HInv => TypeOK
  BY DEF HInv, IInv
<1>3. HInv /\ Reported => UnmatchedAreOfOneOrder
  <2> SUFFICES ASSUME HInv, Reported, NEW e \in emitted, NEW f \in emitted,
                      ~Matched(mem, e), ~Matched(mem, f)
               PROVE  e[1] = f[1]
    BY DEF UnmatchedAreOfOneOrder
  <2>1. e[1] \in Orders /\ f[1] \in Orders
    BY DEF Reported
  <2>2. mem.status[e[1]] # "none" /\ mem.status[f[1]] # "none"
    BY <2>1 DEF HInv, Asked, Reported
  <2>3. e[1] \notin mem.pay /\ f[1] \notin mem.pay
    BY <2>2 DEF Matched
  <2>4. Saveable(mem)
    BY DEF HInv, IInv, Agree, Saveable
  <2> QED
    BY <2>1, <2>2, <2>3, <2>4 DEF Saveable
<1> QED
  BY <1>1, <1>2, <1>3, HonouredInitially, HonouredStep, ReportedStep, PTL DEF Spec
=============================================================================
