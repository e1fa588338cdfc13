------------------------------ MODULE Purchase ------------------------------
(***************************************************************************)
(* What buying a package promises the customer: the order is charged once, *)
(* then the quota of each policy of the package is granted once, and only  *)
(* when all of it is granted does the order count as bought, for good.     *)
(***************************************************************************)
EXTENDS Naturals

CONSTANTS Orders, Policies

VARIABLES
  charged,  \* how often each order was charged
  granted,  \* how often each policy was granted for each order
  bought    \* is the order fulfilled?

vars == <<charged, granted, bought>>

Init ==
  /\ charged = [o \in Orders |-> 0]
  /\ granted = [o \in Orders |-> [p \in Policies |-> 0]]
  /\ bought  = [o \in Orders |-> FALSE]

ChargeOnce(o) ==
  /\ charged[o] = 0
  /\ charged' = [charged EXCEPT ![o] = 1]
  /\ UNCHANGED <<granted, bought>>

GrantOnce(o, p) ==
  /\ charged[o] = 1
  /\ granted[o][p] = 0
  /\ granted' = [granted EXCEPT ![o][p] = 1]
  /\ UNCHANGED <<charged, bought>>

Complete(o) ==
  /\ charged[o] = 1
  /\ \A p \in Policies : granted[o][p] = 1
  /\ bought' = [bought EXCEPT ![o] = TRUE]
  /\ UNCHANGED <<charged, granted>>

Next ==
  \E o \in Orders :
    ChargeOnce(o) \/ Complete(o) \/ \E p \in Policies : GrantOnce(o, p)

Spec == Init /\ [][Next]_vars

=============================================================================
