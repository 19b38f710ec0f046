------------------------------ MODULE Checkout ------------------------------
(***************************************************************************)
(* BillingService.checkout (packages/billing) for one organization, with   *)
(* the provider behind it (packages/billing-stripe).  A request looks for  *)
(* its idempotency key, finds or makes the organization's customer under   *)
(* an advisory lock, has the provider make a session and records it.  The  *)
(* provider remembers idempotency keys for a day; its answers get lost,    *)
(* its calls fail, and a process dies between any two statements.          *)
(*                                                                         *)
(* What the customer pays for arrives as events, which are in Billing.     *)
(***************************************************************************)
EXTENDS Integers, FiniteSets

CONSTANTS
  Checkouts,  \* requests; one that is repeated is another request
  OrderKeys,  \* values of the Idempotency-Key header
  Prices,     \* prices of a plan and an interval
  MaxDays,    \* how often the provider forgets in a behaviour
  None

CheckoutAssumption ==
  None \notin Checkouts \cup Nat \cup [price : Prices, session : Nat]

VARIABLES
  customer,   \* billing_customers: the row's provider_customer_id, or None
  operation,  \* billing_checkout_operations: the session of each key, or None
  lock,       \* who holds the advisory lock of the organization, or None
  checkout,   \* the requests: where they are and what they know
  customers,  \* at the provider: how many customers it has made
  sessions,   \* at the provider: the sessions it has made
  memory,     \* at the provider: the answers it remembers
  days        \* how many days have passed

vars == <<customer, operation, lock, checkout, customers, sessions, memory, days>>
provider == <<customers, sessions, memory, days>>

\* What the provider remembers: the customer, and price and session per key.
Blank == [customer |-> None, order |-> [k \in OrderKeys |-> None]]

Init ==
  /\ customer = None /\ lock = None
  /\ operation = [k \in OrderKeys |-> None]
  /\ checkout = [c \in Checkouts |-> [at |-> "idle"]]
  /\ customers = 0 /\ sessions = {} /\ memory = Blank /\ days = 0

InFlight(c) == checkout[c].at \notin {"idle", "answered", "failed"}

Goes(c, at) == checkout' = [checkout EXCEPT ![c].at = at]

\* A failed call or a crash: the transaction, if there is one, rolls back.
Fails(c) ==
  /\ Goes(c, "failed")
  /\ lock' = IF lock = c THEN None ELSE lock
  /\ UNCHANGED <<customer, operation>>
-----------------------------------------------------------------------------
(***************************************************************************)
(* The statements of checkout, in order.                                   *)
(***************************************************************************)
\* A key that has been recorded is answered with what was recorded.
Lookup(c, key, price) ==
  /\ checkout[c].at = "idle"
  /\ checkout' = [checkout EXCEPT ![c] =
       [at |-> IF operation[key] # None THEN "answered" ELSE "looked",
        key |-> key, price |-> price, customer |-> None,
        session |-> operation[key]]]
  /\ UNCHANGED <<customer, operation, lock>> /\ UNCHANGED provider

\* The first part of the transaction: it ends here if there is a customer.
FindCustomer(c) ==
  /\ checkout[c].at = "looked" /\ lock = None
  /\ IF customer # None
     THEN /\ checkout' = [checkout EXCEPT ![c].at = "customer", ![c].customer = customer]
          /\ UNCHANGED lock
     ELSE Goes(c, "creating") /\ lock' = c
  /\ UNCHANGED <<customer, operation>> /\ UNCHANGED provider

\* The provider makes a customer, unless it remembers the key, which is the
\* organization's; the answer may be lost.
CreateCustomer(c) ==
  /\ checkout[c].at = "creating"
  /\ LET id == IF memory.customer = None THEN customers + 1 ELSE memory.customer
     IN /\ customers' = IF memory.customer = None THEN id ELSE customers
        /\ memory' = [memory EXCEPT !.customer = id]
        /\ \/ /\ checkout' = [checkout EXCEPT ![c].at = "inserting", ![c].customer = id]
              /\ UNCHANGED <<customer, operation, lock>>
           \/ Fails(c)
  /\ UNCHANGED <<sessions, days>>

\* organization_id is unique in billing_customers.
InsertCustomer(c) ==
  /\ checkout[c].at = "inserting"
  /\ IF customer # None THEN Fails(c)
     ELSE /\ customer' = checkout[c].customer /\ lock' = None
          /\ Goes(c, "customer") /\ UNCHANGED operation
  /\ UNCHANGED provider

\* A slip: no idempotency key.
CreateCheckout_NoKey(c) ==
  /\ checkout[c].at = "customer"
  /\ LET q == checkout[c]
         id == Cardinality(sessions) + 1
     IN /\ sessions' = sessions \cup {[id |-> id, customer |-> q.customer]}
        /\ \/ /\ checkout' = [checkout EXCEPT ![c].at = "made", ![c].session = id]
              /\ UNCHANGED <<customer, operation, lock>>
           \/ Fails(c)
        /\ UNCHANGED <<customers, memory, days>>

\* The session of this key that the provider remembers, or a new one.  A key
\* that comes back with another price is refused.
CreateCheckout(c) ==
  /\ checkout[c].at = "customer"
  /\ LET q == checkout[c]
         order == memory.order[q.key]
         id == IF order = None THEN Cardinality(sessions) + 1 ELSE order.session
     IN IF order # None /\ order.price # q.price
        THEN Fails(c) /\ UNCHANGED provider
        ELSE /\ sessions' = sessions \cup
                  (IF order = None THEN {[id |-> id, customer |-> q.customer]} ELSE {})
             /\ memory' = [memory EXCEPT !.order[q.key] = [price |-> q.price, session |-> id]]
             /\ \/ /\ checkout' = [checkout EXCEPT ![c].at = "made", ![c].session = id]
                   /\ UNCHANGED <<customer, operation, lock>>
                \/ Fails(c)
             /\ UNCHANGED <<customers, days>>

\* ON CONFLICT DO NOTHING; the answer is the request's own session.
RecordOperation(c) ==
  /\ checkout[c].at = "made"
  /\ LET q == checkout[c]
     IN operation' = [operation EXCEPT ![q.key] = IF @ = None THEN q.session ELSE @]
  /\ Goes(c, "answered")
  /\ UNCHANGED <<customer, lock>> /\ UNCHANGED provider

\* A statement or a call fails without effect, or the process dies.
Abandon(c) == InFlight(c) /\ Fails(c) /\ UNCHANGED provider

\* The provider forgets its keys after a day, longer than a request takes.
DayPasses ==
  /\ days < MaxDays /\ memory # Blank
  /\ \A c \in Checkouts : ~ InFlight(c)
  /\ memory' = Blank /\ days' = days + 1
  /\ UNCHANGED <<customer, operation, lock, checkout, customers, sessions>>

Next ==
  \/ DayPasses
  \/ \E c \in Checkouts :
       \/ \E key \in OrderKeys, price \in Prices : Lookup(c, key, price)
       \/ FindCustomer(c) \/ CreateCustomer(c) \/ InsertCustomer(c)
       \/ CreateCheckout(c) \/ RecordOperation(c) \/ Abandon(c)

Spec == Init /\ [][Next]_vars
-----------------------------------------------------------------------------
(***************************************************************************)
(* Properties.                                                             *)
(***************************************************************************)
\* Whatever fails and however often the requests are repeated, every session
\* is one of the organization's only customer, and the provider has no more
\* customers of the organization than days on which nobody could record one.
OneCustomer ==
  /\ \A s \in sessions : s.customer = customer
  /\ customers <= 1 + days
  /\ customer # None => lock = None

\* Repeated requests, also concurrent ones, and requests after a day are
\* answered with one and the same session per key, the recorded one.
AnswersAgree ==
  \A c \in Checkouts : checkout[c].at = "answered" =>
    operation[checkout[c].key] = checkout[c].session

\* Both: an organization pays as one customer, once for what it orders once.
CheckoutsAgree == OneCustomer /\ AnswersAgree
=============================================================================
