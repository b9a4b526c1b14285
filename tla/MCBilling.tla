----------------------------- MODULE MCBilling -----------------------------
(* Small instances of Billing for TLC: one or two orders of one user.      *)
EXTENDS Billing

CONSTANTS u1, o1, o2

OwnerOf == [o \in Orders |-> u1]

PlansOf == [o \in Orders |-> IF o = o1 THEN "pro" ELSE "plus"]

\* Every order renews the plan users register with.
Renewals == [o \in Orders |-> "go"]
=============================================================================
