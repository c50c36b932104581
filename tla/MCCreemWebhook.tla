--------------------------- MODULE MCCreemWebhook ---------------------------
(* Instances of CreemWebhook for TLC. *)
EXTENDS CreemWebhook, TLC

Credits(user, customer, order, credits) ==
  [kind |-> "credits", user |-> user, customer |-> customer, order |-> order,
   credits |-> credits, subscription |-> None, status |-> None]

Checkout(user, customer, subscription, status) ==
  [kind |-> "checkout", user |-> user, customer |-> customer, order |-> None,
   credits |-> 0, subscription |-> subscription, status |-> status]

Subscription(user, customer, subscription, status) ==
  [kind |-> "subscription", user |-> user, customer |-> customer, order |-> None,
   credits |-> 0, subscription |-> subscription, status |-> status]

Other ==
  [kind |-> "other", user |-> None, customer |-> None, order |-> None,
   credits |-> 0, subscription |-> None, status |-> None]

\* One user buys two packages.
TwoOrders == <<Credits("u1", "c1", "o1", 2), Credits("u1", "c1", "o2", 3)>>

\* A package, a subscription event with only the customer's id, a checkout under
\* another customer id and an event of a type that is not handled.  The subscription
\* event fails while the customer is not known; of the package and the checkout, the
\* one that comes second fails for good.
Lifecycle == <<Credits("u1", "c1", "o1", 2), Subscription("u1", None, "s1", "active"),
               Checkout("u1", "c2", None, None), Other>>

Symmetry == Permutations(Handlers)
=============================================================================
