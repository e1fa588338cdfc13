--------------------------- MODULE CommercialOrder ---------------------------
(***************************************************************************)
(* Buying a subscription package: internal/modules/commercial/service.go.  *)
(*                                                                         *)
(* CreateOrder stores a pending order unless the organization has the      *)
(* package already.  ConfirmOrderPayment then debits the platform wallet,  *)
(* stores a payment, marks the order paid, grants the quota of every       *)
(* policy of the package, stores a fulfillment and marks the order         *)
(* fulfilled.  Each of these steps may fail, no transaction holds them     *)
(* together, and neither the debit nor a grant carries an idempotency key: *)
(* what a confirmation repeats, the platform does again.                   *)
(*                                                                         *)
(* The orders are those of one organization for one subscription package.  *)
(* A confirmation is one request, with the copy of the order row it read.  *)
(***************************************************************************)
EXTENDS Naturals, FiniteSets, RemoteCall

CONSTANTS
  Orders,         \* orders the organization may create
  Confirmations,  \* confirmation requests, each for some order
  NumPolicies,    \* active quota grant policies of the package
  Concurrent,     \* may a request start while another is in progress?
  DbFaults,       \* may a database call fail?
  Crashes         \* may a request be cut off between two steps?

Policies == 1 .. NumPolicies

ASSUME CommercialOrderAssumption ==
  /\ NumPolicies \in Nat
  /\ {Concurrent, DbFaults, Crashes} \subseteq BOOLEAN

VARIABLES
  row,          \* the rows of the orders table
  creating,     \* orders whose CreateOrder has passed its check
  debits,       \* ledger entries the platform wallet has posted
  payments,     \* payments stored, each naming its ledger entry
  grants,       \* quota grants the platform has booked
  fulfillments, \* fulfillments stored
  request       \* the confirmations

vars == <<row, creating, debits, payments, grants, fulfillments, request>>

-----------------------------------------------------------------------------

OrderStatuses == {"pending_payment", "paid", "fulfillment_failed", "fulfilled"}

OrderRow == [status      : OrderStatuses,
             payment     : {"pending", "succeeded"},
             fulfillment : {"pending", "failed", "succeeded"}]

NoOrder == [status |-> "absent", payment |-> "absent", fulfillment |-> "absent"]

PendingOrder == [status |-> "pending_payment", payment |-> "pending",
                 fulfillment |-> "pending"]

(* A ledger entry, a payment or a fulfillment, by the confirmation it is of. *)
Entries == [order : Orders, by : Confirmations]
Grants  == [order : Orders, by : Confirmations, policy : Policies]

RequestSteps == {"new", "findPayment", "debit", "createPayment", "savePaid",
                 "findFulfillment", "readPolicies", "grant",
                 "createFulfillment", "saveFulfilled", "saveFailed", "done"}

Request == [pc     : RequestSteps,
            order  : Orders,
            item   : OrderRow \cup {NoOrder},
            policy : Nat]

Init ==
  /\ row = [o \in Orders |-> NoOrder]
  /\ creating = {}
  /\ debits = {}
  /\ payments = {}
  /\ grants = {}
  /\ fulfillments = {}
  /\ request \in [Confirmations -> [pc     : {"new"}, order : Orders,
                                    item   : {NoOrder}, policy : {1}]]

DbResults == IF DbFaults THEN BOOLEAN ELSE {TRUE}

At(c, step) == request[c].pc = step

(* No other request is in progress, or it does not matter. *)
MayStart ==
  \/ Concurrent
  \/ creating = {} /\ \A c \in Confirmations : request[c].pc \in {"new", "done"}

-----------------------------------------------------------------------------
(* Mistakes the handlers could make, each in the place of one decision     *)
(* below.  The specification uses none of them.                            *)

(* a fulfilled order is taken through the whole confirmation again *)
NeverFulfilled(item) == FALSE

(* a refused debit is followed by a payment all the same *)
PaysWithoutDebit(ok) == "createPayment"

(* a stored payment is not looked at *)
FindsNoPayment(order) == {}

(* the order counts as fulfilled when it is paid for *)
SkipsPolicies(policy) == "createFulfillment"

(* the loop over the policies runs one too far *)
GrantsTooFar(policy) ==
  IF policy > NumPolicies + 1 THEN "createFulfillment" ELSE "grant"

(* the order is fulfilled without being marked paid *)
StepsOverPayment(item) == "findFulfillment"

(* the row after a failure is rebuilt from the pending order *)
FailedAnew(item) ==
  [PendingOrder EXCEPT !.status = "fulfillment_failed", !.fulfillment = "failed"]

-----------------------------------------------------------------------------
(* CreateOrder.  A package that is no subscription has no check to pass;   *)
(* buying one is a behaviour of this module in which the check passes.     *)

SubscriptionActive == \E o \in Orders : row[o].status = "fulfilled"

CheckSubscription(o) ==
  /\ row[o] = NoOrder
  /\ o \notin creating
  /\ MayStart
  /\ ~ SubscriptionActive
  /\ creating' = creating \cup {o}
  /\ UNCHANGED <<row, debits, payments, grants, fulfillments, request>>

InsertOrder(o) ==
  /\ o \in creating
  /\ creating' = creating \ {o}
  /\ \E ok \in DbResults :
       row' = IF ok THEN [row EXCEPT ![o] = PendingOrder] ELSE row
  /\ UNCHANGED <<debits, payments, grants, fulfillments, request>>

-----------------------------------------------------------------------------
(* ConfirmOrderPayment *)

GoTo(c, step) == request' = [request EXCEPT ![c].pc = step]
Return(c)     == GoTo(c, "done")

(* The order is written back whole, as this request knows it. *)
SaveOrder(c, item, next) ==
  \/ /\ row' = [row EXCEPT ![request[c].order] = item]
     /\ request' = [request EXCEPT ![c].pc = next, ![c].item = item]
  \/ /\ DbFaults
     /\ Return(c)
     /\ UNCHANGED row

AlreadyFulfilled(item) ==
  \/ item.status = "fulfilled"
  \/ item.payment = "succeeded" /\ item.fulfillment = "succeeded"

ReadOrder(c) ==
  LET item == row[request[c].order]
  IN  /\ At(c, "new")
      /\ item # NoOrder
      /\ MayStart
      /\ request' = [request EXCEPT
           ![c].pc = IF AlreadyFulfilled(item) THEN "done" ELSE "findPayment",
           ![c].item = item]
      /\ UNCHANGED <<row, creating, debits, payments, grants, fulfillments>>

PaymentsOf(order) == {p \in payments : p.order = order}

AfterPaymentStep(item) ==
  IF item.payment = "succeeded" THEN "findFulfillment" ELSE "savePaid"

(* An error of the lookup is taken for "there is no payment". *)
FindPayment(c) ==
  /\ At(c, "findPayment")
  /\ \E ok \in DbResults :
       GoTo(c, IF ok /\ PaymentsOf(request[c].order) # {}
               THEN AfterPaymentStep(request[c].item) ELSE "debit")
  /\ UNCHANGED <<row, creating, debits, payments, grants, fulfillments>>

AfterDebitStep(ok) == IF ok THEN "createPayment" ELSE "done"

(* PostWalletLedger; it is refused if the balance is insufficient. *)
DebitWallet(c) ==
  /\ At(c, "debit")
  /\ \E r \in Call(debits, debits \cup {[order |-> request[c].order, by |-> c]}) :
       /\ debits' = r.state
       /\ GoTo(c, AfterDebitStep(r.ok))
  /\ UNCHANGED <<row, creating, payments, grants, fulfillments>>

CreatePayment(c) ==
  /\ At(c, "createPayment")
  /\ \/ /\ payments' = payments \cup {[order |-> request[c].order, by |-> c]}
        /\ GoTo(c, AfterPaymentStep(request[c].item))
     \/ /\ DbFaults
        /\ Return(c)
        /\ UNCHANGED payments
  /\ UNCHANGED <<row, creating, debits, grants, fulfillments>>

SavePaid(c) ==
  /\ At(c, "savePaid")
  /\ SaveOrder(c, [request[c].item EXCEPT !.payment = "succeeded",
                                          !.status = "paid"], "findFulfillment")
  /\ UNCHANGED <<creating, debits, payments, grants, fulfillments>>

FulfillmentsOf(order) == {f \in fulfillments : f.order = order}

FindFulfillment(c) ==
  /\ At(c, "findFulfillment")
  /\ \E ok \in DbResults :
       GoTo(c, IF ok /\ FulfillmentsOf(request[c].order) # {}
               THEN "saveFulfilled" ELSE "readPolicies")
  /\ UNCHANGED <<row, creating, debits, payments, grants, fulfillments>>

(* assignPackage: the catalog and the policies are read from the platform, *)
(* then the policies are granted one after the other.                      *)
AfterPolicyStep(policy) ==
  IF policy > NumPolicies THEN "createFulfillment" ELSE "grant"

ReadPolicies(c) ==
  /\ At(c, "readPolicies")
  /\ \/ GoTo(c, AfterPolicyStep(1))
     \/ GoTo(c, "saveFailed")
  /\ UNCHANGED <<row, creating, debits, payments, grants, fulfillments>>

GrantQuota(c) ==
  LET policy == request[c].policy
      new    == [order |-> request[c].order, by |-> c, policy |-> policy]
  IN  /\ At(c, "grant")
      /\ \E r \in Call(grants, grants \cup {new}) :
           /\ grants' = r.state
           /\ request' = IF r.ok
                THEN [request EXCEPT ![c].policy = policy + 1,
                                     ![c].pc = AfterPolicyStep(policy + 1)]
                ELSE [request EXCEPT ![c].pc = "saveFailed"]
      /\ UNCHANGED <<row, creating, debits, payments, fulfillments>>

FailedOrder(item) ==
  [item EXCEPT !.status = "fulfillment_failed", !.fulfillment = "failed"]

SaveFailed(c) ==
  /\ At(c, "saveFailed")
  /\ SaveOrder(c, FailedOrder(request[c].item), "done")
  /\ UNCHANGED <<creating, debits, payments, grants, fulfillments>>

CreateFulfillment(c) ==
  /\ At(c, "createFulfillment")
  /\ \/ /\ fulfillments' =
             fulfillments \cup {[order |-> request[c].order, by |-> c]}
        /\ GoTo(c, "saveFulfilled")
     \/ /\ DbFaults
        /\ Return(c)
        /\ UNCHANGED fulfillments
  /\ UNCHANGED <<row, creating, debits, payments, grants>>

SaveFulfilled(c) ==
  /\ At(c, "saveFulfilled")
  /\ SaveOrder(c, [request[c].item EXCEPT !.status = "fulfilled",
                                          !.fulfillment = "succeeded"], "done")
  /\ UNCHANGED <<creating, debits, payments, grants, fulfillments>>

(* The service restarts: the request ends where it is. *)
Cut(c) ==
  /\ Crashes
  /\ request[c].pc \notin {"new", "done"}
  /\ Return(c)
  /\ UNCHANGED <<row, creating, debits, payments, grants, fulfillments>>

Confirm(c) ==
  \/ ReadOrder(c) \/ FindPayment(c) \/ DebitWallet(c) \/ CreatePayment(c)
  \/ SavePaid(c) \/ FindFulfillment(c) \/ ReadPolicies(c) \/ GrantQuota(c)
  \/ SaveFailed(c) \/ CreateFulfillment(c) \/ SaveFulfilled(c)

Next ==
  \/ \E o \in Orders : CheckSubscription(o) \/ InsertOrder(o)
  \/ \E c \in Confirmations : Confirm(c) \/ Cut(c)

Spec == Init /\ [][Next]_vars

-----------------------------------------------------------------------------
(* Every variable has its type; a request goes through the policies in     *)
(* order and never past the last one.                                      *)
TypeOK ==
  /\ row \in [Orders -> OrderRow \cup {NoOrder}]
  /\ creating \subseteq Orders
  /\ debits \subseteq Entries
  /\ payments \subseteq Entries
  /\ grants \subseteq Grants
  /\ fulfillments \subseteq Entries
  /\ request \in [Confirmations -> Request]

(* A payment is stored only for money that was taken: it names a posted    *)
(* ledger entry of its own order.                                          *)
PaymentsAreDebited == payments \subseteq debits

(* Quota is granted only to an order that was paid for and says so,        *)
(* whatever other confirmations write to the row meanwhile.                *)
QuotaIsPaidFor ==
  \A g \in grants :
    /\ row[g.order].payment = "succeeded"
    /\ PaymentsOf(g.order) # {}

GrantedBy(order, c) ==
  \A p \in Policies : [order |-> order, by |-> c, policy |-> p] \in grants

(* A fulfilled order was paid for, and one confirmation granted the quota  *)
(* of every policy of its package: retries after a failure and concurrent  *)
(* confirmations never add up to an order with a part of its quota.        *)
FulfilledIsPaidFor ==
  \A o \in Orders :
    row[o].status = "fulfilled" =>
      /\ PaymentsOf(o) # {}
      /\ \E f \in FulfillmentsOf(o) : GrantedBy(o, f.by)

(* Nothing makes an order unpaid again, although every request writes back *)
(* the whole row as it read it, perhaps long ago.                          *)
PaymentNeverUndone ==
  [][\A o \in Orders :
       row[o].payment = "succeeded" => row'[o].payment = "succeeded"]_vars

(* A fulfilled order stays fulfilled.                                      *)
FulfilledIsFinal ==
  [][\A o \in Orders :
       row[o].status = "fulfilled" => row'[o].status = "fulfilled"]_vars

(* The wallet is debited at most once for an order: a "duplicate confirm"  *)
(* is idempotent.                                                          *)
DebitedOnce == \A d, e \in debits : d.order = e.order => d = e

(* Each policy is granted at most once for an order, also when a           *)
(* confirmation that failed half way is repeated.                          *)
GrantedOnce ==
  \A g, h \in grants : g.order = h.order /\ g.policy = h.policy => g = h

(* The organization never has two active subscriptions of one package.     *)
OneSubscription ==
  \A o, p \in Orders :
    row[o].status = "fulfilled" /\ row[p].status = "fulfilled" => o = p

(* What a customer is promised, see Purchase.                              *)
Promise == INSTANCE Purchase WITH
  charged <- [o \in Orders |-> Cardinality({d \in debits : d.order = o})],
  granted <- [o \in Orders |-> [p \in Policies |->
               Cardinality({g \in grants : g.order = o /\ g.policy = p})]],
  bought  <- [o \in Orders |-> row[o].status = "fulfilled"]

(* One confirmation after the other, and no step failing half way, orders  *)
(* are what Purchase says: charged once, each quota granted once, in full  *)
(* before the order counts as bought, and bought for good.                 *)
KeepsPromise == Promise!Spec

=============================================================================
