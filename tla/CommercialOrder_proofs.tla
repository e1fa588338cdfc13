----------------------- MODULE CommercialOrder_proofs -----------------------
(***************************************************************************)
(* What holds of CommercialOrder for any number of orders, of concurrent   *)
(* confirmations and of policies, with every fault allowed.                *)
(*                                                                         *)
(* The argument: the stores (wallet ledger, payments, grants, fulfilments) *)
(* only grow and a row that says "paid" keeps saying so.  What a request   *)
(* learned from them therefore stays true while others run, and each       *)
(* request is looked at on its own: RequestInv says what it knows at each  *)
(* of its steps.                                                           *)
(***************************************************************************)
EXTENDS CommercialOrder, FiniteSetTheorems, TLAPS

InProgress(c) == request[c].pc \notin {"new", "done"}

(* the steps after the order was marked paid *)
PaidSteps == {"findFulfillment", "readPolicies", "grant", "createFulfillment",
              "saveFulfilled", "saveFailed"}

Entry(c) == [order |-> request[c].order, by |-> c]

GrantOf(c, p) == [order |-> request[c].order, by |-> c, policy |-> p]

RequestInv(c) ==
  /\ InProgress(c) => /\ request[c].item \in OrderRow
                      /\ row[request[c].order] \in OrderRow
  /\ InProgress(c) /\ request[c].item.payment = "succeeded" =>
       row[request[c].order].payment = "succeeded"
  /\ request[c].pc = "createPayment" => Entry(c) \in debits
  /\ request[c].pc \in PaidSteps \cup {"savePaid"} =>
       \E p \in payments : p.order = request[c].order
  /\ request[c].pc \in PaidSteps => request[c].item.payment = "succeeded"
  /\ \A p \in Policies : p < request[c].policy => GrantOf(c, p) \in grants
  /\ request[c].pc = "grant" => request[c].policy \in Policies
  /\ request[c].pc \in {"new", "findPayment", "debit", "createPayment", "savePaid",
                        "findFulfillment", "readPolicies"} => request[c].policy = 1
  /\ request[c].pc = "createFulfillment" => request[c].policy > NumPolicies
  /\ request[c].pc = "saveFulfilled" =>
       \E f \in fulfillments : f.order = request[c].order

OrderInv(o) ==
  /\ o \in creating => row[o] = NoOrder
  /\ row[o].payment = "succeeded" => \E p \in payments : p.order = o
  /\ row[o].status = "fulfilled" =>
       /\ \E p \in payments : p.order = o
       /\ \E f \in fulfillments : f.order = o

StoreInv ==
  /\ PaymentsAreDebited
  /\ \A g \in grants : row[g.order].payment = "succeeded"
  /\ \A f \in fulfillments : GrantedBy(f.order, f.by)

IInv ==
  /\ TypeOK
  /\ \A c \in Confirmations : RequestInv(c)
  /\ \A o \in Orders : OrderInv(o)
  /\ StoreInv

(* What every step keeps. *)
Grows ==
  /\ debits \subseteq debits'
  /\ payments \subseteq payments'
  /\ grants \subseteq grants'
  /\ fulfillments \subseteq fulfillments'
  /\ \A o \in Orders : row[o] \in OrderRow => row'[o] \in OrderRow
  /\ \A o \in Orders : row[o].payment = "succeeded" => row'[o].payment = "succeeded"

-----------------------------------------------------------------------------

(* What a caller knows of a remote call. *)
LEMMA CallOutcomes ==
  ASSUME NEW before, NEW after, NEW r \in Call(before, after)
  PROVE  /\ r.ok \in BOOLEAN
         /\ r.state = before \/ r.state = after
         /\ r.ok => r.state = after
<1>1. CASE r = [ok |-> TRUE, state |-> after]
  BY <1>1
<1>2. CASE r = [ok |-> FALSE, state |-> before]
  BY <1>2
<1>3. CASE r = [ok |-> FALSE, state |-> after]
  BY <1>3
<1> QED
  BY <1>1, <1>2, <1>3 DEF Call

(* A request that does not move keeps what it knows. *)
LEMMA RequestFrame ==
  ASSUME TypeOK, Grows, NEW d \in Confirmations, RequestInv(d),
         request'[d] = request[d]
  PROVE  RequestInv(d)'
<1>1. request[d] \in Request
  BY DEF TypeOK
<1>2. request[d].order \in Orders
  BY <1>1 DEF Request
<1> QED
  BY <1>2, SMT DEF RequestInv, Grows, InProgress, Entry, GrantOf, PaidSteps

(* So does an order whose row is left alone. *)
LEMMA OrderFrame ==
  ASSUME Grows, NEW o \in Orders, OrderInv(o), row'[o] = row[o],
         creating' \subseteq creating
  PROVE  OrderInv(o)'
BY DEF OrderInv, Grows

(* Grants and rows: what the stores say of each other, when the grants and *)
(* fulfillments do not change.                                             *)
LEMMA StoreFrame ==
  ASSUME TypeOK, Grows, StoreInv, UNCHANGED <<grants, fulfillments>>,
         PaymentsAreDebited'
  PROVE  StoreInv'
<1>1. \A g \in grants : g.order \in Orders
  BY DEF TypeOK, Grants
<1> QED
  BY <1>1 DEF StoreInv, Grows, GrantedBy

-----------------------------------------------------------------------------

LEMMA InitHolds == Init => IInv
<1> SUFFICES ASSUME Init PROVE IInv
  OBVIOUS
<1> USE CommercialOrderAssumption
<1>1. TypeOK
  <2>1. request \in [Confirmations -> Request]
    BY SMT DEF Init, Request, RequestSteps
  <2> QED
    BY <2>1 DEF Init, TypeOK, OrderRow
<1>2. ASSUME NEW c \in Confirmations PROVE RequestInv(c)
  <2>1. request[c].pc = "new" /\ request[c].policy = 1
    BY DEF Init
  <2> QED
    BY <2>1, SMT DEF RequestInv, InProgress, PaidSteps, Policies
<1>3. ASSUME NEW o \in Orders PROVE OrderInv(o)
  BY DEF Init, OrderInv, NoOrder
<1>4. StoreInv
  BY DEF Init, StoreInv, PaymentsAreDebited
<1> QED
  BY <1>1, <1>2, <1>3, <1>4 DEF IInv

LEMMA CheckSubscriptionKeeps ==
  ASSUME IInv, NEW o \in Orders, CheckSubscription(o)
  PROVE  IInv' /\ Grows
<1>1. Grows
  BY DEF CheckSubscription, Grows
<1>2. TypeOK'
  BY DEF IInv, TypeOK, CheckSubscription
<1>3. \A c \in Confirmations : RequestInv(c)'
  BY <1>1, RequestFrame DEF IInv, CheckSubscription
<1>4. \A p \in Orders : OrderInv(p)'
  BY DEF IInv, OrderInv, CheckSubscription
<1>5. StoreInv'
  BY <1>1, StoreFrame DEF IInv, StoreInv, PaymentsAreDebited, CheckSubscription
<1> QED
  BY <1>1, <1>2, <1>3, <1>4, <1>5 DEF IInv

LEMMA InsertOrderKeeps ==
  ASSUME IInv, NEW o \in Orders, InsertOrder(o)
  PROVE  IInv' /\ Grows
<1>1. row' \in {row, [row EXCEPT ![o] = PendingOrder]}
  BY DEF InsertOrder, DbResults
<1>2. row[o] = NoOrder
  BY DEF IInv, OrderInv, InsertOrder
<1>3. Grows
  BY <1>1, <1>2 DEF IInv, TypeOK, Grows, InsertOrder, OrderRow, NoOrder,
     PendingOrder, OrderStatuses
<1>4. TypeOK'
  BY <1>1 DEF IInv, TypeOK, InsertOrder, OrderRow, PendingOrder, OrderStatuses
<1>5. \A c \in Confirmations : RequestInv(c)'
  BY <1>3, RequestFrame DEF IInv, InsertOrder
<1>6. ASSUME NEW p \in Orders PROVE OrderInv(p)'
  <2>1. CASE p = o
    BY <2>1, <1>1, <1>2 DEF IInv, TypeOK, OrderInv, InsertOrder, PendingOrder,
       NoOrder
  <2>2. CASE p # o
    <3>1. row'[p] = row[p]
      BY <2>2, <1>1 DEF IInv, TypeOK
    <3>2. creating' \subseteq creating
      BY DEF InsertOrder
    <3> QED
      BY <3>1, <3>2, <1>3, OrderFrame DEF IInv
  <2> QED
    BY <2>1, <2>2
<1>7. StoreInv'
  BY <1>3, StoreFrame DEF IInv, StoreInv, PaymentsAreDebited, InsertOrder
<1> QED
  BY <1>3, <1>4, <1>5, <1>6, <1>7 DEF IInv

-----------------------------------------------------------------------------
(* The steps of a confirmation.                                            *)

(* A step of one request is harmless to the others. *)
LEMMA OneRequestMoves ==
  ASSUME IInv, Grows, TypeOK', NEW c \in Confirmations, RequestInv(c)',
         \A d \in Confirmations : d # c => request'[d] = request[d],
         \A o \in Orders : OrderInv(o)', StoreInv'
  PROVE  IInv'
<1>1. ASSUME NEW d \in Confirmations, d # c PROVE RequestInv(d)'
  BY <1>1, RequestFrame DEF IInv
<1> QED
  BY <1>1 DEF IInv

(* A step that touches no row and no store. *)
LEMMA OnlyRequestMoves ==
  ASSUME IInv, NEW c \in Confirmations, NEW next \in Request,
         UNCHANGED <<row, creating, debits, payments, grants, fulfillments>>,
         request' = [request EXCEPT ![c] = next], RequestInv(c)'
  PROVE  IInv' /\ Grows
<1>1. Grows
  BY DEF Grows
<1>2. TypeOK'
  BY DEF IInv, TypeOK
<1>3. \A d \in Confirmations : d # c => request'[d] = request[d]
  BY DEF IInv, TypeOK
<1>4. \A o \in Orders : OrderInv(o)'
  BY <1>1, OrderFrame DEF IInv
<1>5. StoreInv'
  BY <1>1, StoreFrame DEF IInv, StoreInv, PaymentsAreDebited
<1> QED
  BY <1>1, <1>2, <1>3, <1>4, <1>5, OneRequestMoves

(* The same with a step and nothing else to change. *)
LEMMA GoToKeeps ==
  ASSUME IInv, NEW c \in Confirmations, NEW step \in RequestSteps,
         UNCHANGED <<row, creating, debits, payments, grants, fulfillments>>,
         GoTo(c, step), RequestInv(c)'
  PROVE  IInv' /\ Grows
<1> DEFINE next == [request[c] EXCEPT !.pc = step]
<1>1. next \in Request
  BY DEF IInv, TypeOK, Request
<1>2. request' = [request EXCEPT ![c] = next]
  BY DEF GoTo
<1> HIDE DEF next
<1> QED
  BY <1>1, <1>2, OnlyRequestMoves

LEMMA ReadOrderKeeps ==
  ASSUME IInv, NEW c \in Confirmations, ReadOrder(c)
  PROVE  IInv' /\ Grows
<1> DEFINE item == row[request[c].order]
           next == [request[c] EXCEPT
                     !.pc = IF AlreadyFulfilled(item) THEN "done" ELSE "findPayment",
                     !.item = item]
<1>1. request[c] \in Request /\ item \in OrderRow /\ request[c].pc = "new"
  BY DEF IInv, TypeOK, Request, ReadOrder, At
<1>2. next \in Request
  BY <1>1 DEF Request, RequestSteps
<1>3. request' = [request EXCEPT ![c] = next]
  BY DEF ReadOrder
<1>4. RequestInv(c)'
  <2>1. request'[c].order = request[c].order /\ request'[c].item = item
        /\ request'[c].policy = request[c].policy
        /\ request'[c].pc \in {"done", "findPayment"}
    BY <1>1, <1>3 DEF IInv, TypeOK, Request
  <2>2. RequestInv(c)
    BY DEF IInv
  <2>3. UNCHANGED <<row, grants>>
    BY DEF ReadOrder
  <2> QED
    BY <1>1, <2>1, <2>2, <2>3 DEF RequestInv, InProgress, PaidSteps, GrantOf
<1> HIDE DEF item, next
<1> QED
  BY <1>2, <1>3, <1>4, OnlyRequestMoves DEF ReadOrder

(* What a step of the program counter alone leaves of a request. *)
LEMMA GoToFrame ==
  ASSUME IInv, NEW c \in Confirmations, NEW step, GoTo(c, step)
  PROVE  /\ request[c] \in Request
         /\ request[c].order \in Orders
         /\ request'[c].pc = step
         /\ request'[c].order = request[c].order
         /\ request'[c].item = request[c].item
         /\ request'[c].policy = request[c].policy
         /\ \A d \in Confirmations : d # c => request'[d] = request[d]
BY DEF IInv, TypeOK, Request, GoTo

LEMMA FindPaymentKeeps ==
  ASSUME IInv, NEW c \in Confirmations, FindPayment(c)
  PROVE  IInv' /\ Grows
<1>1. PICK step \in {"debit", AfterPaymentStep(request[c].item)} :
        /\ GoTo(c, step)
        /\ step # "debit" => PaymentsOf(request[c].order) # {}
  BY DEF FindPayment, DbResults
<1>2. step \in {"debit", "savePaid", "findFulfillment"}
  BY DEF AfterPaymentStep
<1>3. RequestInv(c)'
  <2>1. RequestInv(c)
    BY DEF IInv
  <2>2. UNCHANGED <<row, payments, grants>> /\ request[c].pc = "findPayment"
    BY DEF FindPayment, At
  <2>3. step = "findFulfillment" => request[c].item.payment = "succeeded"
    BY <1>1 DEF AfterPaymentStep
  <2> QED
    BY <1>1, <1>2, <2>1, <2>2, <2>3, GoToFrame
    DEF RequestInv, InProgress, PaidSteps, GrantOf, PaymentsOf
<1> QED
  BY <1>1, <1>2, <1>3, GoToKeeps DEF FindPayment, RequestSteps

LEMMA FindFulfillmentKeeps ==
  ASSUME IInv, NEW c \in Confirmations, FindFulfillment(c)
  PROVE  IInv' /\ Grows
<1>1. PICK step \in {"saveFulfilled", "readPolicies"} :
        /\ GoTo(c, step)
        /\ step = "saveFulfilled" => FulfillmentsOf(request[c].order) # {}
  BY DEF FindFulfillment, DbResults
<1>2. RequestInv(c)'
  <2>1. RequestInv(c)
    BY DEF IInv
  <2>2. /\ UNCHANGED <<row, payments, grants, fulfillments>>
        /\ request[c].pc = "findFulfillment"
    BY DEF FindFulfillment, At
  <2> QED
    BY <1>1, <2>1, <2>2, GoToFrame
    DEF RequestInv, InProgress, PaidSteps, GrantOf, FulfillmentsOf
<1> QED
  BY <1>1, <1>2, GoToKeeps DEF FindFulfillment, RequestSteps

LEMMA ReadPoliciesKeeps ==
  ASSUME IInv, NEW c \in Confirmations, ReadPolicies(c)
  PROVE  IInv' /\ Grows
<1>1. PICK step \in {AfterPolicyStep(1), "saveFailed"} : GoTo(c, step)
  BY DEF ReadPolicies
<1>2. step \in {"grant", "createFulfillment", "saveFailed"}
  BY DEF AfterPolicyStep
<1>3. RequestInv(c)'
  <2>1. RequestInv(c)
    BY DEF IInv
  <2>2. /\ UNCHANGED <<row, payments, grants>>
        /\ request[c].pc = "readPolicies"
    BY DEF ReadPolicies, At
  <2>3. request[c].policy = 1
    BY <2>1, <2>2 DEF RequestInv
  <2>4. /\ step = "grant" => 1 \in Policies
        /\ step = "createFulfillment" => 1 > NumPolicies
    BY <1>1, CommercialOrderAssumption DEF AfterPolicyStep, Policies
  <2> QED
    BY <1>1, <1>2, <2>1, <2>2, <2>3, <2>4, GoToFrame
    DEF RequestInv, InProgress, PaidSteps, GrantOf
<1> QED
  BY <1>1, <1>2, <1>3, GoToKeeps DEF ReadPolicies, RequestSteps

LEMMA CutKeeps ==
  ASSUME IInv, NEW c \in Confirmations, Cut(c)
  PROVE  IInv' /\ Grows
<1>1. GoTo(c, "done") /\ UNCHANGED grants
  BY DEF Cut, Return
<1>2. RequestInv(c)
  BY DEF IInv
<1>3. RequestInv(c)'
  BY <1>1, <1>2, GoToFrame DEF RequestInv, InProgress, PaidSteps, GrantOf
<1> QED
  BY <1>1, <1>3, GoToKeeps DEF Cut, RequestSteps

(* The wallet may have posted the entry or not; only if it says so does    *)
(* the request go on to store a payment that names it.                     *)
LEMMA DebitWalletKeeps ==
  ASSUME IInv, NEW c \in Confirmations, DebitWallet(c)
  PROVE  IInv' /\ Grows
<1>1. PICK r \in Call(debits, debits \cup {Entry(c)}) :
        debits' = r.state /\ GoTo(c, AfterDebitStep(r.ok))
  BY DEF DebitWallet, Entry
<1>2. /\ debits' \in {debits, debits \cup {Entry(c)}}
      /\ r.ok => Entry(c) \in debits'
      /\ r.ok \in BOOLEAN
  <2>1. r.ok \in BOOLEAN /\ (r.state = debits \/ r.state = debits \cup {Entry(c)})
        /\ (r.ok => r.state = debits \cup {Entry(c)})
    BY <1>1, CallOutcomes
  <2> QED
    BY <1>1, <2>1
<1>3. UNCHANGED <<row, creating, payments, grants, fulfillments>>
      /\ request[c].pc = "debit"
  BY DEF DebitWallet, At
<1>4. Grows
  BY <1>2, <1>3 DEF Grows
<1>5. TypeOK'
  <2>1. Entry(c) \in Entries
    BY DEF IInv, TypeOK, Request, Entry, Entries
  <2>2. request' \in [Confirmations -> Request]
    BY <1>1 DEF IInv, TypeOK, GoTo, Request, AfterDebitStep, RequestSteps
  <2> QED
    BY <1>2, <1>3, <2>1, <2>2 DEF IInv, TypeOK
<1>6. RequestInv(c)'
  <2>1. RequestInv(c)
    BY DEF IInv
  <2>2. AfterDebitStep(r.ok) \in {"createPayment", "done"}
        /\ (AfterDebitStep(r.ok) = "createPayment" => r.ok)
    BY <1>2 DEF AfterDebitStep
  <2> QED
    BY <1>1, <1>2, <1>3, <2>1, <2>2, GoToFrame
    DEF RequestInv, InProgress, PaidSteps, GrantOf, Entry
<1>7. \A o \in Orders : OrderInv(o)'
  BY <1>3, <1>4, OrderFrame DEF IInv
<1>8. StoreInv'
  BY <1>3, <1>4, StoreFrame DEF IInv, StoreInv, PaymentsAreDebited, Grows
<1> QED
  BY <1>1, <1>4, <1>5, <1>6, <1>7, <1>8, GoToFrame, OneRequestMoves

LEMMA CreatePaymentKeeps ==
  ASSUME IInv, NEW c \in Confirmations, CreatePayment(c)
  PROVE  IInv' /\ Grows
<1>1. PICK step \in {"done", AfterPaymentStep(request[c].item)} :
        /\ GoTo(c, step)
        /\ payments' \in {payments, payments \cup {Entry(c)}}
        /\ step # "done" => Entry(c) \in payments'
  BY DEF CreatePayment, Entry, Return
<1>2. UNCHANGED <<row, creating, debits, grants, fulfillments>>
      /\ request[c].pc = "createPayment"
  BY DEF CreatePayment, At
<1>3. RequestInv(c)
  BY DEF IInv
<1>4. Grows
  BY <1>1, <1>2 DEF Grows
<1>5. step \in {"done", "savePaid", "findFulfillment"}
      /\ (step = "findFulfillment" => request[c].item.payment = "succeeded")
  BY <1>1 DEF AfterPaymentStep
<1>6. TypeOK'
  <2>1. Entry(c) \in Entries
    BY DEF IInv, TypeOK, Request, Entry, Entries
  <2>2. request' \in [Confirmations -> Request]
    BY <1>1, <1>5 DEF IInv, TypeOK, GoTo, Request, RequestSteps
  <2> QED
    BY <1>1, <1>2, <2>1, <2>2 DEF IInv, TypeOK
<1>7. RequestInv(c)'
  BY <1>1, <1>2, <1>3, <1>5, GoToFrame
  DEF RequestInv, InProgress, PaidSteps, GrantOf, Entry
<1>8. \A o \in Orders : OrderInv(o)'
  BY <1>2, <1>4, OrderFrame DEF IInv
<1>9. StoreInv'
  <2>1. Entry(c) \in debits
    BY <1>2, <1>3 DEF RequestInv
  <2> QED
    BY <1>1, <1>2, <1>4, <2>1, StoreFrame DEF IInv, StoreInv, PaymentsAreDebited
<1> QED
  BY <1>1, <1>4, <1>6, <1>7, <1>8, <1>9, GoToFrame, OneRequestMoves

LEMMA GrantQuotaKeeps ==
  ASSUME IInv, NEW c \in Confirmations, GrantQuota(c)
  PROVE  IInv' /\ Grows
<1> DEFINE policy == request[c].policy
           new    == GrantOf(c, policy)
<1>1. PICK r \in Call(grants, grants \cup {new}) :
        /\ grants' = r.state
        /\ request' = IF r.ok
             THEN [request EXCEPT ![c].policy = policy + 1,
                                  ![c].pc = AfterPolicyStep(policy + 1)]
             ELSE [request EXCEPT ![c].pc = "saveFailed"]
  BY DEF GrantQuota, GrantOf
<1>2. /\ grants' \in {grants, grants \cup {new}}
      /\ r.ok => new \in grants'
      /\ r.ok \in BOOLEAN
  <2>1. r.ok \in BOOLEAN /\ (r.state = grants \/ r.state = grants \cup {new})
        /\ (r.ok => r.state = grants \cup {new})
    BY <1>1, CallOutcomes
  <2> QED
    BY <1>1, <2>1
<1>3. UNCHANGED <<row, creating, debits, payments, fulfillments>>
      /\ request[c].pc = "grant"
  BY DEF GrantQuota, At
<1>4. RequestInv(c) /\ request[c] \in Request /\ request[c].order \in Orders
  BY DEF IInv, TypeOK, Request
<1>5. policy \in Policies /\ policy \in Nat /\ NumPolicies \in Nat
  BY <1>3, <1>4, CommercialOrderAssumption DEF RequestInv, Policies
<1>6. Grows
  BY <1>2, <1>3 DEF Grows
<1>7. /\ request'[c].order = request[c].order
      /\ request'[c].item = request[c].item
      /\ request'[c].policy \in Nat
      /\ request'[c].policy = IF r.ok THEN policy + 1 ELSE policy
      /\ request'[c].pc = IF r.ok THEN AfterPolicyStep(policy + 1) ELSE "saveFailed"
      /\ \A d \in Confirmations : d # c => request'[d] = request[d]
  BY <1>1, <1>5 DEF IInv, TypeOK, Request
<1>8. request'[c].pc \in {"grant", "createFulfillment", "saveFailed"}
  BY <1>7 DEF AfterPolicyStep
<1>9. TypeOK'
  <2>1. new \in Grants
    BY <1>4, <1>5 DEF Grants, GrantOf
  <2>2. request' \in [Confirmations -> Request]
    <3>1. AfterPolicyStep(policy + 1) \in RequestSteps
      BY DEF AfterPolicyStep, RequestSteps
    <3>2. PICK next \in Request : request' = [request EXCEPT ![c] = next]
      <4>1. CASE r.ok
        <5>1. [request[c] EXCEPT !.policy = policy + 1,
                                 !.pc = AfterPolicyStep(policy + 1)] \in Request
          <6>1. \A n \in Nat, step \in RequestSteps :
                  [request[c] EXCEPT !.policy = n, !.pc = step] \in Request
            BY <1>4 DEF Request
          <6>2. policy + 1 \in Nat
            BY <1>5
          <6> QED
            BY <3>1, <6>1, <6>2
        <5> QED
          BY <1>1, <4>1, <5>1
      <4>2. CASE ~ r.ok
        <5>1. [request[c] EXCEPT !.pc = "saveFailed"] \in Request
          BY <1>4 DEF Request, RequestSteps
        <5> QED
          BY <1>1, <4>2, <5>1
      <4> QED
        BY <4>1, <4>2
    <3> QED
      BY <3>2 DEF IInv, TypeOK
  <2> QED
    BY <1>2, <1>3, <2>1, <2>2 DEF IInv, TypeOK
<1>10. RequestInv(c)'
  <2>1. ASSUME NEW p \in Policies, p < request'[c].policy
        PROVE  GrantOf(c, p)' \in grants'
    <3>1. p \in Nat
      BY <1>5 DEF Policies
    <3>2. GrantOf(c, p)' = GrantOf(c, p)
      BY <1>7 DEF GrantOf
    <3>3. p < policy \/ (r.ok /\ p = policy)
      BY <1>5, <1>7, <2>1, <3>1
    <3> QED
      BY <1>2, <1>4, <3>2, <3>3 DEF RequestInv
  <2>2. request'[c].pc = "grant" => request'[c].policy \in Policies
    BY <1>5, <1>7 DEF AfterPolicyStep, Policies
  <2>3. request'[c].pc = "createFulfillment" => request'[c].policy > NumPolicies
    BY <1>7 DEF AfterPolicyStep
  <2> QED
    BY <1>3, <1>4, <1>7, <1>8, <2>1, <2>2, <2>3
    DEF RequestInv, InProgress, PaidSteps
<1>11. \A o \in Orders : OrderInv(o)'
  BY <1>3, <1>6, OrderFrame DEF IInv
<1>12. StoreInv'
  <2>1. row[request[c].order].payment = "succeeded"
    BY <1>3, <1>4 DEF RequestInv, InProgress, PaidSteps
  <2>2. new.order = request[c].order
    BY DEF GrantOf
  <2> QED
    BY <1>2, <1>3, <2>1, <2>2 DEF IInv, StoreInv, PaymentsAreDebited, GrantedBy
<1> QED
  BY <1>6, <1>7, <1>9, <1>10, <1>11, <1>12, OneRequestMoves

LEMMA CreateFulfillmentKeeps ==
  ASSUME IInv, NEW c \in Confirmations, CreateFulfillment(c)
  PROVE  IInv' /\ Grows
<1>1. PICK step \in {"done", "saveFulfilled"} :
        /\ GoTo(c, step)
        /\ fulfillments' \in {fulfillments, fulfillments \cup {Entry(c)}}
        /\ step # "done" => Entry(c) \in fulfillments'
  BY DEF CreateFulfillment, Entry, Return
<1>2. UNCHANGED <<row, creating, debits, payments, grants>>
      /\ request[c].pc = "createFulfillment"
  BY DEF CreateFulfillment, At
<1>3. RequestInv(c) /\ request[c] \in Request
  BY DEF IInv, TypeOK
<1>4. Grows
  BY <1>1, <1>2 DEF Grows
<1>5. TypeOK'
  <2>1. Entry(c) \in Entries
    BY DEF IInv, TypeOK, Request, Entry, Entries
  <2>2. request' \in [Confirmations -> Request]
    BY <1>1 DEF IInv, TypeOK, GoTo, Request, RequestSteps
  <2> QED
    BY <1>1, <1>2, <2>1, <2>2 DEF IInv, TypeOK
<1>6. RequestInv(c)'
  BY <1>1, <1>2, <1>3, GoToFrame
  DEF RequestInv, InProgress, PaidSteps, GrantOf, Entry
<1>7. \A o \in Orders : OrderInv(o)'
  BY <1>2, <1>4, OrderFrame DEF IInv
<1>8. StoreInv'
  <2>1. GrantedBy(Entry(c).order, Entry(c).by)
    <3>1. request[c].policy \in Nat /\ NumPolicies \in Nat
      BY <1>3, CommercialOrderAssumption DEF Request
    <3>2. \A p \in Policies : p < request[c].policy
      BY <1>2, <1>3, <3>1 DEF RequestInv, Policies
    <3> QED
      BY <1>3, <3>2 DEF RequestInv, GrantedBy, GrantOf, Entry
  <2> QED
    BY <1>1, <1>2, <2>1 DEF IInv, StoreInv, PaymentsAreDebited, GrantedBy
<1> QED
  BY <1>1, <1>4, <1>5, <1>6, <1>7, <1>8, GoToFrame, OneRequestMoves

(* Three steps write the row back.  All of them write a paid order, and    *)
(* one that writes "fulfilled" knows of a payment and a fulfillment.       *)
LEMMA SaveOrderKeeps ==
  ASSUME IInv, NEW c \in Confirmations, InProgress(c),
         NEW item \in OrderRow, item.payment = "succeeded",
         \E p \in payments : p.order = request[c].order,
         NEW next \in {"findFulfillment", "done"},
         next = "findFulfillment" => request[c].policy = 1,
         item.status = "fulfilled" =>
           \E f \in fulfillments : f.order = request[c].order,
         SaveOrder(c, item, next),
         UNCHANGED <<creating, debits, payments, grants, fulfillments>>
  PROVE  IInv' /\ Grows
<1> DEFINE order == request[c].order
<1>1. request[c] \in Request /\ order \in Orders /\ RequestInv(c)
  BY DEF IInv, TypeOK, Request
<1>2. row[order] \in OrderRow
  BY <1>1 DEF RequestInv
<1>3. CASE UNCHANGED row /\ GoTo(c, "done")
  <2>1. RequestInv(c)'
    BY <1>1, <1>3, GoToFrame DEF RequestInv, InProgress, PaidSteps, GrantOf
  <2> QED
    BY <1>3, <2>1, GoToKeeps DEF RequestSteps
<1>4. CASE /\ row' = [row EXCEPT ![order] = item]
           /\ request' = [request EXCEPT ![c].pc = next, ![c].item = item]
  <2>1. /\ row'[order] = item
        /\ \A o \in Orders : o # order => row'[o] = row[o]
    BY <1>1, <1>4 DEF IInv, TypeOK
  <2>2. Grows
    BY <2>1 DEF Grows
  <2>3. TypeOK'
    <3>1. request' \in [Confirmations -> Request]
      <4>1. [request[c] EXCEPT !.pc = next, !.item = item] \in Request
        BY <1>1 DEF Request, RequestSteps
      <4> QED
        BY <1>4, <4>1 DEF IInv, TypeOK
    <3>2. row' \in [Orders -> OrderRow \cup {NoOrder}]
      BY <1>4 DEF IInv, TypeOK
    <3> QED
      BY <3>1, <3>2 DEF IInv, TypeOK
  <2>4. /\ request'[c].order = order /\ request'[c].item = item
        /\ request'[c].pc = next /\ request'[c].policy = request[c].policy
        /\ \A d \in Confirmations : d # c => request'[d] = request[d]
    BY <1>4 DEF IInv, TypeOK, Request
  <2>5. RequestInv(c)'
    BY <1>1, <2>1, <2>4 DEF RequestInv, InProgress, PaidSteps, GrantOf
  <2>6. ASSUME NEW o \in Orders PROVE OrderInv(o)'
    <3>1. CASE o = order
      <4>1. o \notin creating
        BY <1>2, <3>1 DEF IInv, OrderInv, OrderRow, NoOrder, OrderStatuses
      <4> QED
        BY <2>1, <3>1, <4>1 DEF OrderInv
    <3>2. CASE o # order
      BY <2>1, <2>2, <3>2, OrderFrame DEF IInv
    <3> QED
      BY <3>1, <3>2
  <2>7. StoreInv'
    BY <2>2, StoreFrame DEF IInv, StoreInv, PaymentsAreDebited
  <2> QED
    BY <2>2, <2>3, <2>4, <2>5, <2>6, <2>7, OneRequestMoves
<1> QED
  BY <1>3, <1>4 DEF SaveOrder, Return

LEMMA SavePaidKeeps ==
  ASSUME IInv, NEW c \in Confirmations, SavePaid(c)
  PROVE  IInv' /\ Grows
<1> DEFINE item == [request[c].item EXCEPT !.payment = "succeeded", !.status = "paid"]
<1>1. RequestInv(c) /\ request[c].pc = "savePaid"
  BY DEF IInv, SavePaid, At
<1>2. item \in OrderRow /\ item.payment = "succeeded" /\ item.status = "paid"
  BY <1>1 DEF RequestInv, InProgress, OrderRow, OrderStatuses
<1>3. /\ InProgress(c) /\ request[c].policy = 1
      /\ \E p \in payments : p.order = request[c].order
  BY <1>1 DEF RequestInv, InProgress
<1>4. SaveOrder(c, item, "findFulfillment")
  BY DEF SavePaid
<1> HIDE DEF item
<1> QED
  BY <1>2, <1>3, <1>4, SaveOrderKeeps DEF SavePaid

LEMMA SaveFailedKeeps ==
  ASSUME IInv, NEW c \in Confirmations, SaveFailed(c)
  PROVE  IInv' /\ Grows
<1> DEFINE item == FailedOrder(request[c].item)
<1>1. RequestInv(c) /\ request[c].pc = "saveFailed"
  BY DEF IInv, SaveFailed, At
<1>2. /\ item \in OrderRow /\ item.payment = "succeeded"
      /\ item.status = "fulfillment_failed"
  BY <1>1 DEF RequestInv, InProgress, PaidSteps, OrderRow, OrderStatuses, FailedOrder
<1>3. InProgress(c) /\ \E p \in payments : p.order = request[c].order
  BY <1>1 DEF RequestInv, InProgress, PaidSteps
<1>4. SaveOrder(c, item, "done")
  BY DEF SaveFailed
<1> HIDE DEF item
<1> QED
  BY <1>2, <1>3, <1>4, SaveOrderKeeps DEF SaveFailed

LEMMA SaveFulfilledKeeps ==
  ASSUME IInv, NEW c \in Confirmations, SaveFulfilled(c)
  PROVE  IInv' /\ Grows
<1> DEFINE item == [request[c].item EXCEPT !.status = "fulfilled",
                                           !.fulfillment = "succeeded"]
<1>1. RequestInv(c) /\ request[c].pc = "saveFulfilled"
  BY DEF IInv, SaveFulfilled, At
<1>2. item \in OrderRow /\ item.payment = "succeeded"
  BY <1>1 DEF RequestInv, InProgress, PaidSteps, OrderRow, OrderStatuses
<1>3. /\ InProgress(c)
      /\ \E p \in payments : p.order = request[c].order
      /\ \E f \in fulfillments : f.order = request[c].order
  BY <1>1 DEF RequestInv, InProgress, PaidSteps
<1>4. SaveOrder(c, item, "done")
  BY DEF SaveFulfilled
<1> HIDE DEF item
<1> QED
  BY <1>2, <1>3, <1>4, SaveOrderKeeps DEF SaveFulfilled

-----------------------------------------------------------------------------

LEMMA NextHolds == IInv /\ [Next]_vars => IInv' /\ Grows
<1> SUFFICES ASSUME IInv, [Next]_vars PROVE IInv' /\ Grows
  OBVIOUS
<1>1. ASSUME NEW o \in Orders, CheckSubscription(o) PROVE IInv' /\ Grows
  BY <1>1, CheckSubscriptionKeeps
<1>2. ASSUME NEW o \in Orders, InsertOrder(o) PROVE IInv' /\ Grows
  BY <1>2, InsertOrderKeeps
<1>3. ASSUME NEW c \in Confirmations, Confirm(c) PROVE IInv' /\ Grows
  BY <1>3, ReadOrderKeeps, FindPaymentKeeps, DebitWalletKeeps, CreatePaymentKeeps,
     SavePaidKeeps, FindFulfillmentKeeps, ReadPoliciesKeeps, GrantQuotaKeeps,
     SaveFailedKeeps, CreateFulfillmentKeeps, SaveFulfilledKeeps DEF Confirm
<1>4. ASSUME NEW c \in Confirmations, Cut(c) PROVE IInv' /\ Grows
  BY <1>4, CutKeeps
<1>5. CASE UNCHANGED vars
  <2>1. Grows
    BY <1>5 DEF vars, Grows
  <2>2. TypeOK' /\ StoreInv'
    BY <1>5 DEF vars, IInv, TypeOK, StoreInv, PaymentsAreDebited, GrantedBy
  <2>3. \A c \in Confirmations : RequestInv(c)'
    BY <1>5, <2>1, RequestFrame DEF vars, IInv
  <2>4. \A o \in Orders : OrderInv(o)'
    BY <1>5, <2>1, OrderFrame DEF vars, IInv
  <2> QED
    BY <2>1, <2>2, <2>3, <2>4 DEF IInv
<1> QED
  BY <1>1, <1>2, <1>3, <1>4, <1>5 DEF Next

LEMMA Invariance == Spec => []IInv
<1>1. IInv /\ [Next]_vars => IInv'
  BY NextHolds
<1> QED
  BY <1>1, InitHolds, PTL DEF Spec

(* Every variable keeps its type, whatever requests interleave and fail.   *)
THEOREM OrderTypeCorrect == Spec => []TypeOK
<1>1. IInv => TypeOK
  BY DEF IInv
<1> QED
  BY <1>1, Invariance, PTL

(* No payment is stored without the wallet debit it names.                 *)
THEOREM PaymentsHaveDebits == Spec => []PaymentsAreDebited
<1>1. IInv => PaymentsAreDebited
  BY DEF IInv, StoreInv
<1> QED
  BY <1>1, Invariance, PTL

(* No quota is granted to an order that is not marked paid.                *)
THEOREM QuotaHasPayment == Spec => []QuotaIsPaidFor
<1>1. IInv => QuotaIsPaidFor
  <2> SUFFICES ASSUME IInv, NEW g \in grants
               PROVE  row[g.order].payment = "succeeded" /\ PaymentsOf(g.order) # {}
    BY DEF QuotaIsPaidFor
  <2>1. g.order \in Orders
    BY DEF IInv, TypeOK, Grants
  <2> QED
    BY <2>1 DEF IInv, StoreInv, OrderInv, PaymentsOf
<1> QED
  BY <1>1, Invariance, PTL

(* A fulfilled order was paid for and got the quota of its whole package.  *)
THEOREM FulfilledHasAll == Spec => []FulfilledIsPaidFor
<1>1. IInv => FulfilledIsPaidFor
  <2> SUFFICES ASSUME IInv, NEW o \in Orders, row[o].status = "fulfilled"
               PROVE  /\ PaymentsOf(o) # {}
                      /\ \E f \in FulfillmentsOf(o) : GrantedBy(o, f.by)
    BY DEF FulfilledIsPaidFor
  <2>1. PICK f \in fulfillments : f.order = o
    BY DEF IInv, OrderInv
  <2>2. GrantedBy(o, f.by)
    BY <2>1 DEF IInv, StoreInv
  <2>3. PICK p \in payments : p.order = o
    BY DEF IInv, OrderInv
  <2> QED
    BY <2>1, <2>2, <2>3 DEF PaymentsOf, FulfillmentsOf
<1> QED
  BY <1>1, Invariance, PTL

(* No step of any request makes a paid order unpaid.                       *)
THEOREM PaymentIsFinal == Spec => PaymentNeverUndone
<1> DEFINE Kept == \A o \in Orders : row[o].payment = "succeeded"
                                     => row'[o].payment = "succeeded"
<1>1. IInv /\ [Next]_vars => [Kept]_vars
  BY NextHolds DEF Grows
<1>2. Spec => [][Kept]_vars
  BY <1>1, Invariance, PTL DEF Spec
<1> QED
  BY <1>2 DEF PaymentNeverUndone

-----------------------------------------------------------------------------
(* One confirmation after the other, and no step failing half way.  Then   *)
(* what is debited is paid for, and what is granted is fulfilled, before   *)
(* the next confirmation looks.                                            *)
Undisturbed ==
  /\ Concurrent = FALSE /\ LostReplies = FALSE
  /\ DbFaults = FALSE /\ Crashes = FALSE

DebitInv ==
  /\ \A c, d \in Confirmations : InProgress(c) /\ InProgress(d) => c = d
  /\ DebitedOnce
  /\ \A d \in debits :
       \/ PaymentsOf(d.order) # {}
       \/ \E c \in Confirmations : At(c, "createPayment") /\ request[c].order = d.order
  /\ \A c \in Confirmations :
       /\ InProgress(c) => row[request[c].order].status # "fulfilled"
       /\ At(c, "debit") => \A d \in debits : d.order # request[c].order

GrantInv ==
  /\ GrantedOnce
  /\ \A g \in grants :
       \/ FulfillmentsOf(g.order) # {}
       \/ \E c \in Confirmations : At(c, "createFulfillment") /\ request[c].order = g.order
  /\ \A c \in Confirmations : request[c].pc \in {"readPolicies", "grant"} =>
       \A g \in grants : g.order # request[c].order

(* A call that changed nothing was refused.                                *)
LEMMA CallsTell ==
  ASSUME Undisturbed, NEW before, NEW after, NEW r \in Call(before, after)
  PROVE  r.state = IF r.ok THEN after ELSE before
BY DEF Undisturbed, Call

(* The request that takes a step is the only one in progress.              *)
LEMMA Alone ==
  ASSUME Undisturbed, IInv, DebitInv, NEW c \in Confirmations, Confirm(c)
  PROVE  /\ request[c] \in Request /\ request[c].order \in Orders
         /\ request'[c].order = request[c].order
         /\ \A d \in Confirmations \ {c} : ~ InProgress(d) /\ request'[d] = request[d]
<1>1. request[c] \in Request /\ DOMAIN request = Confirmations
  BY DEF IInv, TypeOK
<1>2. CASE ReadOrder(c)
  BY <1>1, <1>2 DEF ReadOrder, MayStart, Undisturbed, InProgress, Request
<1>3. CASE Confirm(c) /\ ~ ReadOrder(c)
  <2>1. InProgress(c)
    BY <1>3 DEF Confirm, FindPayment, DebitWallet, CreatePayment, SavePaid, FindFulfillment,
       ReadPolicies, GrantQuota, SaveFailed, CreateFulfillment, SaveFulfilled, At, InProgress
  <2>2. \A d \in Confirmations \ {c} : ~ InProgress(d) BY <2>1 DEF DebitInv
  <2>3. ASSUME NEW next, request' = [request EXCEPT ![c].pc = next]
        PROVE  /\ request'[c].order = request[c].order
               /\ \A d \in Confirmations \ {c} : request'[d] = request[d]
    BY <1>1, <2>3 DEF Request
  <2>4. ASSUME NEW next, NEW item, SaveOrder(c, item, next)
        PROVE  /\ request'[c].order = request[c].order
               /\ \A d \in Confirmations \ {c} : request'[d] = request[d]
    BY <1>1, <2>4 DEF SaveOrder, Return, GoTo, Request
  <2>5. CASE FindPayment(c) \/ DebitWallet(c) \/ CreatePayment(c)
    BY <1>1, <2>2, <2>3, <2>5 DEF FindPayment, DebitWallet, CreatePayment, GoTo, Return, Request
  <2>6. CASE FindFulfillment(c) \/ ReadPolicies(c) \/ CreateFulfillment(c)
    BY <1>1, <2>2, <2>3, <2>6
       DEF FindFulfillment, ReadPolicies, CreateFulfillment, GoTo, Return, Request
  <2>7. CASE GrantQuota(c)
    BY <1>1, <2>2, <2>7 DEF GrantQuota, Request
  <2>8. CASE SavePaid(c) \/ SaveFailed(c) \/ SaveFulfilled(c)
    BY <1>1, <2>2, <2>4, <2>8 DEF SavePaid, SaveFailed, SaveFulfilled, Request
  <2> QED BY <1>3, <2>5, <2>6, <2>7, <2>8 DEF Confirm
<1> QED BY <1>1, <1>2, <1>3 DEF Request

(* What an undisturbed confirmation does at each of its steps.             *)
Quiet == UNCHANGED <<row, debits, payments, grants, fulfillments>>

Saves(c, status) ==
  /\ UNCHANGED <<debits, payments, grants, fulfillments>>
  /\ row'[request[c].order].status = status
  /\ \A o \in Orders \ {request[c].order} : row'[o] = row[o]

Does(c) ==
  LET pc    == request[c].pc
      next  == request'[c].pc
      order == request[c].order
  IN  \/ /\ pc = "new" /\ Quiet
         /\ next = "done" \/ (next = "findPayment" /\ row[order].status # "fulfilled")
      \/ /\ pc = "findPayment" /\ Quiet
         /\ \/ next \in {"savePaid", "findFulfillment"}
            \/ next = "debit" /\ PaymentsOf(order) = {}
      \/ /\ pc = "debit" /\ UNCHANGED <<row, payments, grants, fulfillments>>
         /\ \/ next = "done" /\ UNCHANGED debits
            \/ next = "createPayment" /\ debits' = debits \cup {Entry(c)}
      \/ /\ pc = "createPayment" /\ UNCHANGED <<row, debits, grants, fulfillments>>
         /\ next \in {"savePaid", "findFulfillment"} /\ payments' = payments \cup {Entry(c)}
      \/ pc = "savePaid" /\ next = "findFulfillment" /\ Saves(c, "paid")
      \/ /\ pc = "findFulfillment" /\ Quiet
         /\ next = "saveFulfilled" \/ (next = "readPolicies" /\ FulfillmentsOf(order) = {})
      \/ pc = "readPolicies" /\ Quiet /\ next \in {"createFulfillment", "grant", "saveFailed"}
      \/ /\ pc = "grant" /\ UNCHANGED <<row, debits, payments, fulfillments>>
         /\ \/ next = "saveFailed" /\ UNCHANGED grants
            \/ /\ next = AfterPolicyStep(request[c].policy + 1)
               /\ grants' = grants \cup {GrantOf(c, request[c].policy)}
      \/ /\ pc = "createFulfillment" /\ UNCHANGED <<row, debits, payments, grants>>
         /\ next = "saveFulfilled" /\ fulfillments' = fulfillments \cup {Entry(c)}
      \/ pc = "saveFailed" /\ next = "done" /\ Saves(c, "fulfillment_failed")
      \/ pc = "saveFulfilled" /\ next = "done" /\ Saves(c, "fulfilled")

LEMMA Doing ==
  ASSUME Undisturbed, IInv, NEW c \in Confirmations, Confirm(c)
  PROVE  Does(c)
<1>p. PICK r, s : r = request[c] /\ s = request'[c] OBVIOUS
<1>0. /\ DOMAIN request = Confirmations /\ r \in Request /\ r.order \in Orders
      /\ row \in [Orders -> OrderRow \cup {NoOrder}]
      /\ InProgress(c) => r.item \in OrderRow
      /\ DbResults = {TRUE} /\ DbFaults = FALSE
  BY <1>p DEF IInv, TypeOK, Request, RequestInv, Undisturbed, DbResults
<1>1. ASSUME NEW step, GoTo(c, step) PROVE s.pc = step
  BY <1>0, <1>1, <1>p DEF GoTo, Request
<1>2. CASE ReadOrder(c)
  <2> DEFINE item == row[r.order]
  <2>1. r.pc = "new" /\ Quiet BY <1>2, <1>p DEF ReadOrder, At, Quiet
  <2>2. request' = [request EXCEPT
          ![c] = [r EXCEPT !.pc = IF AlreadyFulfilled(item) THEN "done" ELSE "findPayment",
                           !.item = item]]
    BY <1>2, <1>p DEF ReadOrder
  <2>3. s.pc = IF AlreadyFulfilled(item) THEN "done" ELSE "findPayment"
    BY <1>0, <1>p, <2>2 DEF Request
  <2>4. s.pc = "done" \/ (s.pc = "findPayment" /\ row[r.order].status # "fulfilled")
    BY <2>3 DEF AlreadyFulfilled
  <2> QED BY <1>p, <2>1, <2>4 DEF Does
<1>3. CASE FindPayment(c)
  <2>1. GoTo(c, IF PaymentsOf(r.order) # {} THEN AfterPaymentStep(r.item) ELSE "debit")
    BY <1>0, <1>3, <1>p DEF FindPayment
  <2>2. s.pc = IF PaymentsOf(r.order) # {} THEN AfterPaymentStep(r.item) ELSE "debit"
    BY <1>1, <2>1
  <2>3. r.pc = "findPayment" /\ Quiet BY <1>3, <1>p DEF FindPayment, At, Quiet
  <2> QED BY <1>p, <2>2, <2>3 DEF Does, AfterPaymentStep
<1>4. CASE DebitWallet(c)
  <2>1. PICK k \in Call(debits, debits \cup {Entry(c)}) :
          debits' = k.state /\ GoTo(c, AfterDebitStep(k.ok))
    BY <1>4 DEF DebitWallet, Entry
  <2>2. k.state = IF k.ok THEN debits \cup {Entry(c)} ELSE debits BY <2>1, CallsTell
  <2>3. s.pc = IF k.ok THEN "createPayment" ELSE "done" BY <1>1, <2>1 DEF AfterDebitStep
  <2>4. r.pc = "debit" /\ UNCHANGED <<row, payments, grants, fulfillments>>
    BY <1>4, <1>p DEF DebitWallet, At
  <2> QED BY <1>p, <2>1, <2>2, <2>3, <2>4 DEF Does
<1>5. CASE CreatePayment(c)
  <2>1. /\ payments' = payments \cup {Entry(c)} /\ s.pc = AfterPaymentStep(r.item)
        /\ r.pc = "createPayment" /\ UNCHANGED <<row, debits, grants, fulfillments>>
    BY <1>0, <1>1, <1>5, <1>p DEF CreatePayment, Entry, At
  <2> QED BY <1>p, <2>1 DEF Does, AfterPaymentStep
<1>6. ASSUME NEW item \in OrderRow, NEW next, SaveOrder(c, item, next),
             UNCHANGED <<debits, payments, grants, fulfillments>>
      PROVE  Saves(c, item.status) /\ s.pc = next
  <2>1. /\ row' = [row EXCEPT ![r.order] = item]
        /\ request' = [request EXCEPT ![c] = [r EXCEPT !.pc = next, !.item = item]]
    BY <1>0, <1>6, <1>p DEF SaveOrder
  <2>2. s.pc = next BY <1>0, <1>p, <2>1 DEF Request
  <2> QED BY <1>0, <1>6, <1>p, <2>1, <2>2 DEF Saves
<1>7. CASE SavePaid(c)
  <2> DEFINE item == [r.item EXCEPT !.payment = "succeeded", !.status = "paid"]
  <2>1. r.pc = "savePaid" /\ r.item \in OrderRow
    BY <1>0, <1>7, <1>p DEF SavePaid, At, InProgress
  <2>2. item \in OrderRow /\ item.status = "paid" BY <2>1 DEF OrderRow, OrderStatuses
  <2>3. SaveOrder(c, item, "findFulfillment") BY <1>7, <1>p DEF SavePaid
  <2> HIDE DEF item
  <2> QED BY <1>6, <1>7, <1>p, <2>1, <2>2, <2>3 DEF SavePaid, Does
<1>8. CASE FindFulfillment(c)
  <2>1. GoTo(c, IF FulfillmentsOf(r.order) # {} THEN "saveFulfilled" ELSE "readPolicies")
    BY <1>0, <1>8, <1>p DEF FindFulfillment
  <2>2. s.pc = IF FulfillmentsOf(r.order) # {} THEN "saveFulfilled" ELSE "readPolicies"
    BY <1>1, <2>1
  <2>3. r.pc = "findFulfillment" /\ Quiet BY <1>8, <1>p DEF FindFulfillment, At, Quiet
  <2>4. s.pc = "saveFulfilled" \/ (s.pc = "readPolicies" /\ FulfillmentsOf(r.order) = {})
    BY <2>2
  <2> QED BY <1>p, <2>3, <2>4 DEF Does
<1>9. CASE ReadPolicies(c)
  <2>1. PICK step \in {"createFulfillment", "grant", "saveFailed"} : GoTo(c, step)
    BY <1>9 DEF ReadPolicies, AfterPolicyStep
  <2>2. r.pc = "readPolicies" /\ Quiet BY <1>9, <1>p DEF ReadPolicies, At, Quiet
  <2> QED BY <1>1, <1>p, <2>1, <2>2 DEF Does
<1>10. CASE GrantQuota(c)
  <2> DEFINE new == GrantOf(c, r.policy)
  <2>1. PICK k \in Call(grants, grants \cup {new}) :
          /\ grants' = k.state
          /\ request' = IF k.ok
               THEN [request EXCEPT ![c].policy = r.policy + 1,
                                    ![c].pc = AfterPolicyStep(r.policy + 1)]
               ELSE [request EXCEPT ![c].pc = "saveFailed"]
    BY <1>10, <1>p DEF GrantQuota, GrantOf
  <2>2. k.state = IF k.ok THEN grants \cup {new} ELSE grants BY <2>1, CallsTell
  <2>3. r.pc = "grant" /\ UNCHANGED <<row, debits, payments, fulfillments>>
    BY <1>10, <1>p DEF GrantQuota, At
  <2>4. s.pc = IF k.ok THEN AfterPolicyStep(r.policy + 1) ELSE "saveFailed"
    <3>1. CASE k.ok
      <4>1. request' = [request EXCEPT
              ![c] = [r EXCEPT !.policy = r.policy + 1, !.pc = AfterPolicyStep(r.policy + 1)]]
        BY <1>p, <2>1, <3>1
      <4> QED BY <1>0, <1>p, <3>1, <4>1 DEF Request
    <3>2. CASE ~ k.ok
      <4>1. GoTo(c, "saveFailed") BY <2>1, <3>2 DEF GoTo
      <4> QED BY <1>1, <3>2, <4>1
    <3> QED BY <3>1, <3>2
  <2> HIDE DEF new
  <2>5. \/ s.pc = "saveFailed" /\ UNCHANGED grants
        \/ s.pc = AfterPolicyStep(r.policy + 1) /\ grants' = grants \cup {new}
    BY <2>1, <2>2, <2>4
  <2> QED BY <1>p, <2>3, <2>5 DEF Does, new
<1>11. CASE CreateFulfillment(c)
  <2>1. /\ fulfillments' = fulfillments \cup {Entry(c)} /\ s.pc = "saveFulfilled"
        /\ r.pc = "createFulfillment" /\ UNCHANGED <<row, debits, payments, grants>>
    BY <1>0, <1>1, <1>11, <1>p DEF CreateFulfillment, Entry, At
  <2> QED BY <1>p, <2>1 DEF Does
<1>12. CASE SaveFailed(c)
  <2> DEFINE item == FailedOrder(r.item)
  <2>1. r.pc = "saveFailed" /\ r.item \in OrderRow
    BY <1>0, <1>12, <1>p DEF SaveFailed, At, InProgress
  <2>2. item \in OrderRow /\ item.status = "fulfillment_failed"
    BY <2>1 DEF OrderRow, OrderStatuses, FailedOrder
  <2>3. SaveOrder(c, item, "done") BY <1>12, <1>p DEF SaveFailed
  <2> HIDE DEF item
  <2> QED BY <1>6, <1>12, <1>p, <2>1, <2>2, <2>3 DEF SaveFailed, Does
<1>13. CASE SaveFulfilled(c)
  <2> DEFINE item == [r.item EXCEPT !.status = "fulfilled", !.fulfillment = "succeeded"]
  <2>1. r.pc = "saveFulfilled" /\ r.item \in OrderRow
    BY <1>0, <1>13, <1>p DEF SaveFulfilled, At, InProgress
  <2>2. item \in OrderRow /\ item.status = "fulfilled" BY <2>1 DEF OrderRow, OrderStatuses
  <2>3. SaveOrder(c, item, "done") BY <1>13, <1>p DEF SaveFulfilled
  <2> HIDE DEF item
  <2> QED BY <1>6, <1>13, <1>p, <2>1, <2>2, <2>3 DEF SaveFulfilled, Does
<1> QED
  BY <1>2, <1>3, <1>4, <1>5, <1>7, <1>8, <1>9, <1>10, <1>11, <1>12, <1>13 DEF Confirm

(* What must still be so for the invariants to hold after the step of c.   *)
LEMMA DebitSteps ==
  ASSUME IInv, NEW c \in Confirmations,
         request'[c].order = request[c].order,
         \A d \in Confirmations \ {c} : ~ InProgress(d) /\ request'[d] = request[d],
         DebitedOnce',
         \A d \in debits' : \/ PaymentsOf(d.order)' # {}
                            \/ request'[c].pc = "createPayment" /\ d.order = request[c].order,
         request'[c].pc \notin {"new", "done"} => row'[request[c].order].status # "fulfilled",
         request'[c].pc = "debit" => \A d \in debits' : d.order # request[c].order
  PROVE  DebitInv'
<1>1. \A d \in Confirmations \ {c} : request'[d].pc \in {"new", "done"}
  BY DEF InProgress
<1> QED BY <1>1 DEF DebitInv, InProgress, At

LEMMA GrantSteps ==
  ASSUME IInv, NEW c \in Confirmations,
         request'[c].order = request[c].order,
         \A d \in Confirmations \ {c} : ~ InProgress(d) /\ request'[d] = request[d],
         GrantedOnce',
         \A g \in grants' :
           \/ FulfillmentsOf(g.order)' # {}
           \/ request'[c].pc = "createFulfillment" /\ g.order = request[c].order,
         request'[c].pc \in {"readPolicies", "grant"} =>
           \A g \in grants' : g.order # request[c].order
  PROVE  GrantInv'
<1>1. \A d \in Confirmations \ {c} : request'[d].pc \in {"new", "done"}
  BY DEF InProgress
<1> QED BY <1>1 DEF GrantInv, At

LEMMA DebitConfirms ==
  ASSUME Undisturbed, IInv, DebitInv, NEW c \in Confirmations, Confirm(c)
  PROVE  DebitInv'
<1>p. PICK r, s : r = request[c] /\ s = request'[c] OBVIOUS
<1>0. /\ r.order \in Orders /\ s.order = r.order
      /\ \A d \in Confirmations \ {c} : ~ InProgress(d) /\ request'[d] = request[d]
      /\ Does(c)
  BY <1>p, Alone, Doing
<1>1. \A d \in debits : \/ PaymentsOf(d.order) # {}
                        \/ r.pc = "createPayment" /\ d.order = r.order
  BY <1>0, <1>p DEF DebitInv, InProgress, At
<1>2. /\ DebitedOnce
      /\ r.pc \notin {"new", "done"} => row[r.order].status # "fulfilled"
      /\ r.pc = "debit" => \A d \in debits : d.order # r.order
  BY <1>p DEF DebitInv, InProgress, At
<1>3. ASSUME s.pc \notin {"new", "done"} PROVE row'[r.order].status # "fulfilled"
  BY <1>0, <1>2, <1>3, <1>p DEF Does, Quiet, Saves
<1>4. CASE r.pc = "createPayment"
  <2>1. /\ s.pc \in {"savePaid", "findFulfillment"} /\ debits' = debits
        /\ payments' = payments \cup {Entry(c)}
    BY <1>0, <1>4, <1>p DEF Does
  <2>2. Entry(c) \in PaymentsOf(r.order)' BY <2>1, <1>p DEF PaymentsOf, Entry
  <2>3. \A d \in debits' : PaymentsOf(d.order)' # {}
    BY <1>1, <2>1, <2>2 DEF PaymentsOf
  <2> QED BY <1>0, <1>2, <1>3, <1>p, <2>1, <2>3, DebitSteps DEF DebitedOnce
<1>5. CASE r.pc = "debit" /\ s.pc = "createPayment"
  <2>1. debits' = debits \cup {Entry(c)} /\ payments' = payments
    BY <1>0, <1>5, <1>p DEF Does
  <2>2. Entry(c).order = r.order BY <1>p DEF Entry
  <2>3. DebitedOnce' BY <1>2, <1>5, <2>1, <2>2 DEF DebitedOnce
  <2>4. \A d \in debits' : PaymentsOf(d.order)' # {} \/ d.order = r.order
    BY <1>1, <1>5, <2>1, <2>2 DEF PaymentsOf
  <2> QED BY <1>0, <1>3, <1>5, <1>p, <2>3, <2>4, DebitSteps
<1>6. CASE r.pc # "createPayment" /\ ~ (r.pc = "debit" /\ s.pc = "createPayment")
  <2>1. /\ debits' = debits /\ payments' = payments /\ s.pc # "createPayment"
        /\ s.pc = "debit" => PaymentsOf(r.order) = {}
    BY <1>0, <1>6, <1>p DEF Does, Quiet, Saves, AfterPolicyStep
  <2>2. \A d \in debits' : PaymentsOf(d.order)' # {}
    BY <1>1, <1>6, <2>1 DEF PaymentsOf
  <2>3. s.pc = "debit" => \A d \in debits' : d.order # r.order
    BY <1>1, <1>6, <2>1
  <2> QED BY <1>0, <1>2, <1>3, <1>p, <2>1, <2>2, <2>3, DebitSteps DEF DebitedOnce
<1> QED BY <1>4, <1>5, <1>6

(* Neither does a new order, which has no row yet.                         *)
LEMMA DebitOrders ==
  ASSUME IInv, DebitInv, NEW o \in Orders, CheckSubscription(o) \/ InsertOrder(o)
  PROVE  DebitInv' /\ \A p \in Orders : row'[p].status = "fulfilled"
                                       <=> row[p].status = "fulfilled"
<1>1. UNCHANGED <<debits, payments, grants, fulfillments, request>>
  BY DEF CheckSubscription, InsertOrder
<1>2. \A p \in Orders : row'[p].status = "fulfilled" <=> row[p].status = "fulfilled"
  <2>1. CASE UNCHANGED row BY <2>1
  <2>2. CASE o \in creating /\ row' = [row EXCEPT ![o] = PendingOrder]
    <3>1. row[o] = NoOrder BY <2>2 DEF IInv, OrderInv
    <3> QED BY <2>2, <3>1 DEF IInv, TypeOK, NoOrder, PendingOrder
  <2> QED BY <2>1, <2>2 DEF CheckSubscription, InsertOrder
<1>3. \A c \in Confirmations : request[c].order \in Orders
  BY DEF IInv, TypeOK, Request
<1> QED BY <1>1, <1>2, <1>3 DEF DebitInv, DebitedOnce, InProgress, At, PaymentsOf

LEMMA DebitNext ==
  ASSUME Undisturbed PROVE IInv /\ DebitInv /\ [Next]_vars => DebitInv'
<1> SUFFICES ASSUME IInv, DebitInv, [Next]_vars PROVE DebitInv' OBVIOUS
<1>1. ASSUME NEW o \in Orders, CheckSubscription(o) \/ InsertOrder(o) PROVE DebitInv'
  BY <1>1, DebitOrders
<1>2. ASSUME NEW c \in Confirmations, Confirm(c) PROVE DebitInv' BY <1>2, DebitConfirms
<1>3. \A c \in Confirmations : ~ Cut(c) BY DEF Cut, Undisturbed
<1>4. CASE UNCHANGED vars
  BY <1>4 DEF vars, DebitInv, DebitedOnce, InProgress, At, PaymentsOf
<1> QED BY <1>1, <1>2, <1>3, <1>4 DEF Next

LEMMA DebitsHold == ASSUME Undisturbed PROVE Spec => []DebitInv
<1>1. Init => DebitInv BY DEF Init, DebitInv, DebitedOnce, InProgress, At
<1> QED BY <1>1, DebitNext, Invariance, PTL DEF Spec

(* An order is debited once, however often it is confirmed, while no       *)
(* confirmation overlaps another, loses a reply or stops half way.         *)
THEOREM OrdersAreDebitedOnce ==
  ASSUME Undisturbed PROVE Spec => []DebitedOnce
<1>1. DebitInv => DebitedOnce BY DEF DebitInv
<1> QED BY <1>1, DebitsHold, PTL

(* With at most one policy a refused grant leaves nothing behind that the  *)
(* next confirmation would grant again.                                    *)
OnePolicy == NumPolicies \in {0, 1}

LEMMA GrantConfirms ==
  ASSUME Undisturbed, OnePolicy, IInv, DebitInv, GrantInv, NEW c \in Confirmations, Confirm(c)
  PROVE  GrantInv'
<1>p. PICK r, s : r = request[c] /\ s = request'[c] OBVIOUS
<1>0. /\ r.order \in Orders /\ s.order = r.order
      /\ \A d \in Confirmations \ {c} : ~ InProgress(d) /\ request'[d] = request[d]
      /\ Does(c)
  BY <1>p, Alone, Doing
<1>1. \A g \in grants : \/ FulfillmentsOf(g.order) # {}
                        \/ r.pc = "createFulfillment" /\ g.order = r.order
  BY <1>0, <1>p DEF GrantInv, InProgress, At
<1>2. /\ GrantedOnce
      /\ r.pc \in {"readPolicies", "grant"} => \A g \in grants : g.order # r.order
      /\ r.pc = "grant" => r.policy = 1
  <2>1. r.pc = "grant" => r.policy \in Policies BY <1>p DEF IInv, RequestInv
  <2> QED BY <1>p, <2>1 DEF GrantInv, Policies, OnePolicy
<1>3. CASE r.pc = "createFulfillment"
  <2>1. /\ s.pc = "saveFulfilled" /\ grants' = grants
        /\ fulfillments' = fulfillments \cup {Entry(c)}
    BY <1>0, <1>3, <1>p DEF Does
  <2>2. Entry(c) \in FulfillmentsOf(r.order)' BY <2>1, <1>p DEF FulfillmentsOf, Entry
  <2>3. \A g \in grants' : FulfillmentsOf(g.order)' # {}
    BY <1>1, <2>1, <2>2 DEF FulfillmentsOf
  <2> QED BY <1>0, <1>2, <1>p, <2>1, <2>3, GrantSteps DEF GrantedOnce
<1>4. CASE r.pc = "grant" /\ s.pc # "saveFailed"
  <2> DEFINE new == GrantOf(c, 1)
  <2>1. /\ grants' = grants \cup {new} /\ fulfillments' = fulfillments
        /\ s.pc = AfterPolicyStep(2)
    BY <1>0, <1>2, <1>4, <1>p DEF Does
  <2>2. s.pc = "createFulfillment" BY <2>1 DEF AfterPolicyStep, OnePolicy
  <2>3. new.order = r.order BY <1>p DEF GrantOf
  <2> HIDE DEF new
  <2>4. GrantedOnce' BY <1>2, <1>4, <2>1, <2>3 DEF GrantedOnce
  <2>5. \A g \in grants' : FulfillmentsOf(g.order)' # {} \/ g.order = r.order
    BY <1>1, <1>4, <2>1, <2>3 DEF FulfillmentsOf
  <2> QED BY <1>0, <1>p, <2>2, <2>4, <2>5, GrantSteps
<1>5. CASE r.pc # "createFulfillment" /\ ~ (r.pc = "grant" /\ s.pc # "saveFailed")
  <2>1. /\ grants' = grants /\ fulfillments' = fulfillments
        /\ s.pc = "readPolicies" => FulfillmentsOf(r.order) = {}
        /\ s.pc = "grant" => r.pc = "readPolicies"
    BY <1>0, <1>5, <1>p DEF Does, Quiet, Saves, AfterPolicyStep
  <2>2. \A g \in grants' : FulfillmentsOf(g.order)' # {}
    BY <1>1, <1>5, <2>1 DEF FulfillmentsOf
  <2>3. s.pc \in {"readPolicies", "grant"} => \A g \in grants' : g.order # r.order
    BY <1>1, <1>2, <1>5, <2>1
  <2> QED BY <1>0, <1>2, <1>p, <2>1, <2>2, <2>3, GrantSteps DEF GrantedOnce
<1> QED BY <1>3, <1>4, <1>5

LEMMA GrantNext ==
  ASSUME Undisturbed, OnePolicy
  PROVE  IInv /\ DebitInv /\ GrantInv /\ [Next]_vars => GrantInv'
<1> SUFFICES ASSUME IInv, DebitInv, GrantInv, [Next]_vars PROVE GrantInv' OBVIOUS
<1>1. ASSUME NEW o \in Orders, CheckSubscription(o) \/ InsertOrder(o) PROVE GrantInv'
  BY <1>1 DEF CheckSubscription, InsertOrder, GrantInv, GrantedOnce, FulfillmentsOf, At
<1>2. ASSUME NEW c \in Confirmations, Confirm(c) PROVE GrantInv' BY <1>2, GrantConfirms
<1>3. \A c \in Confirmations : ~ Cut(c) BY DEF Cut, Undisturbed
<1>4. CASE UNCHANGED vars BY <1>4 DEF vars, GrantInv, GrantedOnce, FulfillmentsOf, At
<1> QED BY <1>1, <1>2, <1>3, <1>4 DEF Next

LEMMA GrantsHold == ASSUME Undisturbed, OnePolicy PROVE Spec => []GrantInv
<1>1. Init => GrantInv BY DEF Init, GrantInv, GrantedOnce, FulfillmentsOf, At
<1> QED BY <1>1, GrantNext, DebitsHold, Invariance, PTL DEF Spec

-----------------------------------------------------------------------------
(* The promise.  What it counts is the size of these sets.                 *)
DebitsOf(o)    == {d \in debits : d.order = o}
GrantsOf(o, p) == {g \in grants : g.order = o /\ g.policy = p}

LEMMA AtMostOne ==
  ASSUME NEW S, \A x, y \in S : x = y
  PROVE  Cardinality(S) = IF S = {} THEN 0 ELSE 1
<1>1. CASE S = {} BY <1>1, FS_EmptySet
<1>2. CASE S # {}
  <2>1. PICK x : S = {x} BY <1>2
  <2> QED BY <2>1, FS_Singleton
<1> QED BY <1>1, <1>2

LEMMA Counts ==
  /\ DebitedOnce => \A o : Cardinality(DebitsOf(o)) = IF DebitsOf(o) = {} THEN 0 ELSE 1
  /\ GrantedOnce =>
       \A o, p : Cardinality(GrantsOf(o, p)) = IF GrantsOf(o, p) = {} THEN 0 ELSE 1
<1>1. ASSUME DebitedOnce, NEW o
      PROVE  Cardinality(DebitsOf(o)) = IF DebitsOf(o) = {} THEN 0 ELSE 1
  BY <1>1, AtMostOne DEF DebitedOnce, DebitsOf
<1>2. ASSUME GrantedOnce, NEW o, NEW p
      PROVE  Cardinality(GrantsOf(o, p)) = IF GrantsOf(o, p) = {} THEN 0 ELSE 1
  BY <1>2, AtMostOne DEF GrantedOnce, GrantsOf
<1> QED BY <1>1, <1>2

(* The refinement mapping, with the names of Purchase's variables.         *)
Charged == [o \in Orders |-> Cardinality(DebitsOf(o))]
Granted == [o \in Orders |-> [p \in Policies |-> Cardinality(GrantsOf(o, p))]]
Bought  == [o \in Orders |-> row[o].status = "fulfilled"]

LEMMA PromiseInit == Init => Promise!Init
<1> SUFFICES ASSUME Init PROVE Promise!Init OBVIOUS
<1>1. \A o : DebitsOf(o) = {} BY DEF Init, DebitsOf
<1>2. \A o, p : GrantsOf(o, p) = {} BY DEF Init, GrantsOf
<1>3. Charged = [o \in Orders |-> 0] BY <1>1, FS_EmptySet DEF Charged
<1>4. Granted = [o \in Orders |-> [p \in Policies |-> 0]] BY <1>2, FS_EmptySet DEF Granted
<1>5. Bought = [o \in Orders |-> FALSE] BY DEF Bought, Init, NoOrder
<1> QED BY <1>3, <1>4, <1>5 DEF Promise!Init, Charged, Granted, Bought, DebitsOf, GrantsOf

LEMMA PromiseSteps ==
  ASSUME NEW o \in Orders,
         \/ Charged[o] = 0 /\ Charged' = [Charged EXCEPT ![o] = 1]
            /\ UNCHANGED <<Granted, Bought>>
         \/ \E p \in Policies :
              /\ Charged[o] = 1 /\ Granted[o][p] = 0
              /\ Granted' = [Granted EXCEPT ![o][p] = 1]
              /\ UNCHANGED <<Charged, Bought>>
         \/ /\ Charged[o] = 1 /\ \A p \in Policies : Granted[o][p] = 1
            /\ Bought' = [Bought EXCEPT ![o] = TRUE]
            /\ UNCHANGED <<Charged, Granted>>
  PROVE  Promise!Next
BY DEF Promise!Next, Promise!ChargeOnce, Promise!GrantOnce, Promise!Complete,
       Charged, Granted, Bought, DebitsOf, GrantsOf

LEMMA PromiseStutters ==
  ASSUME UNCHANGED <<Charged, Granted, Bought>> PROVE UNCHANGED Promise!vars
BY DEF Promise!vars, Charged, Granted, Bought, DebitsOf, GrantsOf

(* An order some confirmation found paid for was charged.                  *)
LEMMA PaidIsCharged ==
  ASSUME IInv, DebitInv, NEW o \in Orders, PaymentsOf(o) # {}
  PROVE  Charged[o] = 1
<1>1. PICK p \in payments : p.order = o BY DEF PaymentsOf
<1>2. p \in DebitsOf(o) BY <1>1 DEF IInv, StoreInv, PaymentsAreDebited, DebitsOf
<1> QED BY <1>2, Counts DEF DebitInv, Charged

LEMMA PromiseConfirms ==
  ASSUME Undisturbed, OnePolicy, IInv, DebitInv, GrantInv, DebitInv', GrantInv',
         NEW c \in Confirmations, Confirm(c)
  PROVE  Promise!Next \/ UNCHANGED Promise!vars
<1>p. PICK r, s : r = request[c] /\ s = request'[c] OBVIOUS
<1>0. /\ r.order \in Orders /\ s.order = r.order /\ Does(c) /\ RequestInv(c)
      /\ DebitedOnce /\ GrantedOnce /\ DebitedOnce' /\ GrantedOnce'
      /\ r.pc \notin {"new", "done"} => row[r.order].status # "fulfilled"
  BY <1>p, Alone, Doing DEF IInv, DebitInv, GrantInv, InProgress
<1>1. r.pc \in PaidSteps => Charged[r.order] = 1
  BY <1>0, <1>p, PaidIsCharged DEF RequestInv, PaymentsOf
<1>2. ASSUME UNCHANGED debits PROVE UNCHANGED Charged BY <1>2 DEF Charged, DebitsOf
<1>3. ASSUME UNCHANGED grants PROVE UNCHANGED Granted BY <1>3 DEF Granted, GrantsOf
<1>4. CASE r.pc = "debit" /\ s.pc = "createPayment"
  <2>1. debits' = debits \cup {Entry(c)} /\ UNCHANGED <<row, grants>>
    BY <1>0, <1>4, <1>p DEF Does
  <2>2. Entry(c).order = r.order BY <1>p DEF Entry
  <2>3. DebitsOf(r.order) = {} BY <1>4, <1>p DEF DebitInv, At, DebitsOf
  <2>4. Entry(c) \in DebitsOf(r.order)' BY <2>1, <2>2 DEF DebitsOf
  <2>5. \A o \in Orders \ {r.order} : DebitsOf(o)' = DebitsOf(o)
    BY <2>1, <2>2 DEF DebitsOf
  <2>6. Cardinality(DebitsOf(r.order)) = 0 /\ Cardinality(DebitsOf(r.order)') = 1
    <3>1. \A o : Cardinality(DebitsOf(o)') = IF DebitsOf(o)' = {} THEN 0 ELSE 1
      <4> SUFFICES ASSUME NEW o
                   PROVE  Cardinality(DebitsOf(o)') = IF DebitsOf(o)' = {} THEN 0 ELSE 1
        OBVIOUS
      <4>1. \A x, y \in DebitsOf(o)' : x = y BY <1>0 DEF DebitedOnce, DebitsOf
      <4> QED BY <4>1, AtMostOne
    <3> QED BY <1>0, <2>3, <2>4, <3>1, Counts
  <2>7. Charged[r.order] = 0 /\ Charged' = [Charged EXCEPT ![r.order] = 1]
    BY <1>0, <2>5, <2>6 DEF Charged
  <2>8. UNCHANGED <<Granted, Bought>> BY <1>3, <2>1 DEF Bought
  <2> QED BY <1>0, <2>7, <2>8, PromiseSteps
<1>5. CASE r.pc = "grant" /\ s.pc # "saveFailed"
  <2>0. r.policy \in Policies /\ r.policy = 1 /\ Policies = {1}
    BY <1>0, <1>5, <1>p DEF RequestInv, Policies, OnePolicy
  <2> DEFINE new == GrantOf(c, 1)
  <2>1. grants' = grants \cup {new} /\ UNCHANGED <<row, debits>>
    BY <1>0, <1>5, <1>p, <2>0 DEF Does
  <2>2. new.order = r.order /\ new.policy = 1 BY <1>p DEF GrantOf
  <2> HIDE DEF new
  <2>3. GrantsOf(r.order, 1) = {} BY <1>5, <1>p DEF GrantInv, GrantsOf
  <2>4. new \in GrantsOf(r.order, 1)' BY <2>1, <2>2 DEF GrantsOf
  <2>5. \A o \in Orders \ {r.order} : GrantsOf(o, 1)' = GrantsOf(o, 1)
    BY <2>1, <2>2 DEF GrantsOf
  <2>6. Cardinality(GrantsOf(r.order, 1)) = 0 /\ Cardinality(GrantsOf(r.order, 1)') = 1
    <3>1. \A x, y \in GrantsOf(r.order, 1)' : x = y BY <1>0 DEF GrantedOnce, GrantsOf
    <3> QED BY <2>3, <2>4, <3>1, AtMostOne, FS_EmptySet
  <2>7. Granted[r.order][1] = 0 /\ Granted' = [Granted EXCEPT ![r.order][1] = 1]
    <3>1. Granted = [o \in Orders |-> [p \in {1} |-> Cardinality(GrantsOf(o, 1))]]
      BY <2>0 DEF Granted
    <3>2. Granted' = [o \in Orders |-> [p \in {1} |-> Cardinality(GrantsOf(o, 1)')]]
      BY <2>0 DEF Granted
    <3> QED BY <1>0, <2>5, <2>6, <3>1, <3>2
  <2>8. UNCHANGED <<Charged, Bought>> BY <1>2, <2>1 DEF Bought
  <2>9. Charged[r.order] = 1 BY <1>1, <1>5 DEF PaidSteps
  <2> QED BY <1>0, <2>0, <2>7, <2>8, <2>9, PromiseSteps
<1>6. CASE r.pc = "saveFulfilled"
  <2>1. /\ UNCHANGED <<debits, grants>>
        /\ row'[r.order].status = "fulfilled"
        /\ \A o \in Orders \ {r.order} : row'[o] = row[o]
    BY <1>0, <1>6, <1>p DEF Does, Saves
  <2>2. Bought' = [Bought EXCEPT ![r.order] = TRUE] BY <1>0, <2>1 DEF Bought
  <2>3. \A p \in Policies : Granted[r.order][p] = 1
    <3>1. PICK f \in fulfillments : f.order = r.order BY <1>0, <1>6, <1>p DEF RequestInv
    <3>2. GrantedBy(r.order, f.by) BY <3>1 DEF IInv, StoreInv
    <3>3. \A p \in Policies : [order |-> r.order, by |-> f.by, policy |-> p]
                                \in GrantsOf(r.order, p)
      BY <3>2 DEF GrantedBy, GrantsOf
    <3> QED BY <1>0, <3>3, Counts DEF Granted
  <2>4. Charged[r.order] = 1 BY <1>1, <1>6 DEF PaidSteps
  <2> QED BY <1>0, <1>2, <1>3, <2>1, <2>2, <2>3, <2>4, PromiseSteps
<1>7. CASE /\ ~ (r.pc = "debit" /\ s.pc = "createPayment")
           /\ ~ (r.pc = "grant" /\ s.pc # "saveFailed") /\ r.pc # "saveFulfilled"
  <2>1. /\ UNCHANGED <<debits, grants>>
        /\ \/ UNCHANGED row
           \/ /\ r.pc \notin {"new", "done"} /\ row'[r.order].status # "fulfilled"
              /\ \A o \in Orders \ {r.order} : row'[o] = row[o]
    BY <1>0, <1>7, <1>p DEF Does, Quiet, Saves, AfterPolicyStep
  <2>2. UNCHANGED Bought BY <1>0, <2>1 DEF Bought
  <2> QED BY <1>2, <1>3, <2>1, <2>2, PromiseStutters
<1> QED BY <1>4, <1>5, <1>6, <1>7

(* Each undisturbed step is a step of Purchase, or none.                   *)
LEMMA PromiseNext ==
  ASSUME Undisturbed, OnePolicy
  PROVE  IInv /\ DebitInv /\ GrantInv /\ DebitInv' /\ GrantInv' /\ [Next]_vars
           => [Promise!Next]_(Promise!vars)
<1> SUFFICES ASSUME IInv, DebitInv, GrantInv, DebitInv', GrantInv', [Next]_vars
             PROVE  Promise!Next \/ UNCHANGED Promise!vars
  OBVIOUS
<1>1. ASSUME NEW o \in Orders, CheckSubscription(o) \/ InsertOrder(o)
      PROVE  UNCHANGED Promise!vars
  <2>1. UNCHANGED <<debits, grants>> BY <1>1 DEF CheckSubscription, InsertOrder
  <2>2. \A p \in Orders : row'[p].status = "fulfilled" <=> row[p].status = "fulfilled"
    BY <1>1, DebitOrders
  <2>3. UNCHANGED Bought BY <2>2 DEF Bought
  <2>4. UNCHANGED <<Charged, Granted>> BY <2>1 DEF Charged, Granted, DebitsOf, GrantsOf
  <2> QED BY <2>3, <2>4, PromiseStutters
<1>2. ASSUME NEW c \in Confirmations, Confirm(c)
      PROVE  Promise!Next \/ UNCHANGED Promise!vars
  BY <1>2, PromiseConfirms
<1>3. \A c \in Confirmations : ~ Cut(c) BY DEF Cut, Undisturbed
<1>4. CASE UNCHANGED vars
  <2>1. UNCHANGED <<Charged, Granted, Bought>>
    BY <1>4 DEF vars, Charged, Granted, Bought, DebitsOf, GrantsOf
  <2> QED BY <2>1, PromiseStutters
<1> QED BY <1>1, <1>2, <1>3, <1>4 DEF Next

(* One confirmation after the other, no reply lost and no step failing     *)
(* half way, orders for packages of one policy are what Purchase says:     *)
(* charged once, the quota granted once and before the order counts as     *)
(* bought, and bought for good.                                            *)
THEOREM OrdersKeepPromise ==
  ASSUME Undisturbed, OnePolicy PROVE Spec => KeepsPromise
<1>1. IInv /\ DebitInv /\ GrantInv /\ DebitInv' /\ GrantInv' /\ [Next]_vars
        => [Promise!Next]_(Promise!vars)
  BY PromiseNext
<1> QED BY <1>1, PromiseInit, Invariance, DebitsHold, GrantsHold, PTL
        DEF Spec, KeepsPromise, Promise!Spec

-----------------------------------------------------------------------------
(* One confirmation after the other, but each may fail or be cut off.      *)

OpenInv ==
  /\ \A c, d \in Confirmations : InProgress(c) /\ InProgress(d) => c = d
  /\ \A c \in Confirmations : InProgress(c) => row[request[c].order].status # "fulfilled"

(* Only a confirmation that ends marks its order fulfilled, and a row that *)
(* is fulfilled is not written.                                            *)
LEMMA OpenConfirms ==
  ASSUME Concurrent = FALSE, IInv, OpenInv, NEW c \in Confirmations, Confirm(c) \/ Cut(c)
  PROVE  /\ OpenInv'
         /\ \A o \in Orders : row[o].status = "fulfilled" => row'[o] = row[o]
<1>p. PICK r, s : r = request[c] /\ s = request'[c] OBVIOUS
<1>0. /\ DOMAIN request = Confirmations /\ r \in Request /\ r.order \in Orders
      /\ row \in [Orders -> OrderRow \cup {NoOrder}]
  BY <1>p DEF IInv, TypeOK, Request
<1> DEFINE Goal == /\ OpenInv'
                   /\ \A o \in Orders : row[o].status = "fulfilled" => row'[o] = row[o]
<1>1. ASSUME \A d \in Confirmations \ {c} : ~ InProgress(d),
             \A d \in Confirmations \ {c} : request'[d] = request[d],
             s.order = r.order,
             s.pc \notin {"new", "done"} => row'[r.order].status # "fulfilled",
             \A o \in Orders : row[o].status = "fulfilled" => row'[o] = row[o]
      PROVE  Goal
  BY <1>1, <1>p DEF OpenInv, InProgress
<1>2. ASSUME InProgress(c)
      PROVE  /\ row[r.order].status # "fulfilled"
             /\ \A d \in Confirmations \ {c} : ~ InProgress(d)
  BY <1>2, <1>p DEF OpenInv
<1>3. ASSUME NEW step, GoTo(c, step), UNCHANGED row, InProgress(c) PROVE Goal
  <2>1. /\ s.order = r.order
        /\ \A d \in Confirmations \ {c} : request'[d] = request[d]
    BY <1>0, <1>3, <1>p DEF GoTo, Request
  <2> QED BY <1>1, <1>2, <1>3, <2>1
<1>4. ASSUME NEW item, NEW next, SaveOrder(c, item, next), InProgress(c),
             next = "done" \/ item.status # "fulfilled"
      PROVE  Goal
  <2>1. CASE UNCHANGED row /\ GoTo(c, "done") BY <1>3, <1>4, <2>1
  <2>2. CASE /\ row' = [row EXCEPT ![request[c].order] = item]
             /\ request' = [request EXCEPT ![c].pc = next, ![c].item = item]
    <3>1. request' = [request EXCEPT ![c] = [r EXCEPT !.pc = next, !.item = item]]
      BY <1>p, <2>2
    <3>2. /\ s.order = r.order /\ s.pc = next
          /\ \A d \in Confirmations \ {c} : request'[d] = request[d]
      BY <1>0, <1>p, <3>1 DEF Request
    <3>3. row'[r.order] = item /\ \A o \in Orders \ {r.order} : row'[o] = row[o]
      BY <1>0, <1>p, <2>2
    <3> QED BY <1>1, <1>2, <1>4, <3>2, <3>3
  <2> QED BY <1>4, <2>1, <2>2 DEF SaveOrder, Return
<1>5. CASE ReadOrder(c)
  <2> DEFINE item == row[r.order]
             next == IF AlreadyFulfilled(item) THEN "done" ELSE "findPayment"
  <2>1. /\ \A d \in Confirmations \ {c} : ~ InProgress(d)
        /\ UNCHANGED row
        /\ request' = [request EXCEPT ![c] = [r EXCEPT !.pc = next, !.item = item]]
    BY <1>5, <1>p DEF ReadOrder, MayStart, InProgress
  <2>2. next = "done" \/ row[r.order].status # "fulfilled" BY DEF AlreadyFulfilled
  <2> HIDE DEF next, item
  <2>3. /\ s.order = r.order /\ s.pc = next
        /\ \A d \in Confirmations \ {c} : request'[d] = request[d]
    BY <1>0, <1>p, <2>1 DEF Request
  <2> QED BY <1>1, <2>1, <2>2, <2>3
<1>6. ASSUME NEW step, At(c, step), step \notin {"new", "done"} PROVE InProgress(c)
  BY <1>6 DEF At, InProgress
<1>7. CASE FindPayment(c) BY <1>3, <1>6, <1>7 DEF FindPayment
<1>8. CASE DebitWallet(c) BY <1>3, <1>6, <1>8 DEF DebitWallet
<1>9. CASE CreatePayment(c) BY <1>3, <1>6, <1>9 DEF CreatePayment, Return
<1>10. CASE FindFulfillment(c) BY <1>3, <1>6, <1>10 DEF FindFulfillment
<1>11. CASE ReadPolicies(c) BY <1>3, <1>6, <1>11 DEF ReadPolicies
<1>12. CASE CreateFulfillment(c) BY <1>3, <1>6, <1>12 DEF CreateFulfillment, Return
<1>13. CASE Cut(c) BY <1>3, <1>13 DEF Cut, Return, InProgress
<1>14. CASE GrantQuota(c)
  <2>1. InProgress(c) /\ UNCHANGED row BY <1>14, <1>6 DEF GrantQuota
  <2>2. CASE GoTo(c, "saveFailed") BY <1>3, <2>1, <2>2
  <2>3. ASSUME NEW policy, NEW step,
               request' = [request EXCEPT ![c].policy = policy, ![c].pc = step]
        PROVE  Goal
    <3>1. request' = [request EXCEPT ![c] = [r EXCEPT !.policy = policy, !.pc = step]]
      BY <1>p, <2>3
    <3>2. /\ s.order = r.order
          /\ \A d \in Confirmations \ {c} : request'[d] = request[d]
      BY <1>0, <1>p, <3>1 DEF Request
    <3> QED BY <1>1, <1>2, <2>1, <3>2
  <2> QED BY <1>14, <2>2, <2>3 DEF GrantQuota, GoTo
<1>15. InProgress(c) => r.item \in OrderRow BY <1>p DEF IInv, RequestInv
<1>16. CASE SavePaid(c)
  <2>1. InProgress(c) BY <1>6, <1>16 DEF SavePaid
  <2>2. [r.item EXCEPT !.payment = "succeeded", !.status = "paid"].status # "fulfilled"
    BY <1>15, <2>1 DEF OrderRow
  <2> QED BY <1>4, <1>16, <1>p, <2>1, <2>2 DEF SavePaid
<1>17. CASE SaveFailed(c) \/ SaveFulfilled(c)
  BY <1>4, <1>6, <1>17 DEF SaveFailed, SaveFulfilled
<1> QED
  BY <1>5, <1>7, <1>8, <1>9, <1>10, <1>11, <1>12, <1>13, <1>14, <1>16, <1>17 DEF Confirm

LEMMA OpenOrders ==
  ASSUME IInv, OpenInv, NEW o \in Orders, CheckSubscription(o) \/ InsertOrder(o)
  PROVE  /\ OpenInv'
         /\ \A p \in Orders : row[p].status = "fulfilled" => row'[p] = row[p]
<1>1. UNCHANGED request BY DEF CheckSubscription, InsertOrder
<1>2. \A p \in Orders : row'[p] = row[p] \/ (p = o /\ row[o] = NoOrder
                                             /\ row'[o] = PendingOrder)
  <2>1. CASE UNCHANGED row BY <2>1
  <2>2. CASE o \in creating /\ row' = [row EXCEPT ![o] = PendingOrder]
    BY <2>2 DEF IInv, OrderInv, TypeOK
  <2> QED BY <2>1, <2>2 DEF CheckSubscription, InsertOrder
<1>3. \A c \in Confirmations : request[c].order \in Orders
  BY DEF IInv, TypeOK, Request
<1> QED BY <1>1, <1>2, <1>3 DEF OpenInv, InProgress, NoOrder, PendingOrder

(* While no confirmation overlaps another, a fulfilled order stays         *)
(* fulfilled, whatever fails, is lost or is cut off.                       *)
THEOREM FulfilledStays ==
  ASSUME Concurrent = FALSE PROVE Spec => FulfilledIsFinal
<1> DEFINE Kept == \A o \in Orders : row[o].status = "fulfilled" => row'[o].status = "fulfilled"
<1>1. Init => OpenInv BY DEF Init, OpenInv, InProgress
<1>2. IInv /\ OpenInv /\ [Next]_vars => OpenInv' /\ [Kept]_vars
  <2> SUFFICES ASSUME IInv, OpenInv, [Next]_vars PROVE OpenInv' /\ [Kept]_vars OBVIOUS
  <2>1. ASSUME NEW o \in Orders, CheckSubscription(o) \/ InsertOrder(o)
        PROVE  OpenInv' /\ Kept
    BY <2>1, OpenOrders
  <2>2. ASSUME NEW c \in Confirmations, Confirm(c) \/ Cut(c) PROVE OpenInv' /\ Kept
    BY <2>2, OpenConfirms
  <2>3. CASE UNCHANGED vars BY <2>3 DEF vars, OpenInv, InProgress
  <2> QED BY <2>1, <2>2, <2>3 DEF Next
<1> QED BY <1>1, <1>2, Invariance, PTL DEF Spec, FulfilledIsFinal

=============================================================================
